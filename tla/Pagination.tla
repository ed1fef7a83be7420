------------------------------ MODULE Pagination ------------------------------
(***************************************************************************)
(* Answers cut into pages (utils/pagination.py).  A client asks for a page *)
(* by a limit and a cursor, the offset of its first item; the answer's     *)
(* pagination block says which cursor to ask for next.                     *)
(***************************************************************************)
EXTENDS Integers, Sequences

CONSTANTS
    DefaultLimit,  \* DEFAULT_PAGINATION_LIMIT
    MaxLimit,      \* MAX_PAGINATION_LIMIT
    None,          \* Python's None: no limit, no cursor, no next page
    NotANumber     \* a cursor that is neither an integer nor a numeral

\* Both come from the environment; the program takes them for page sizes.
ASSUME LimitsAssumption ==
    /\ DefaultLimit \in Nat \ {0}
    /\ MaxLimit \in Nat \ {0}
    /\ DefaultLimit <= MaxLimit

ASSUME MarksAssumption == None \notin Int /\ NotANumber \notin Int /\ None # NotANumber

\* A slip: the ceiling is forgotten.
ClampLimitUncapped(limit) == IF limit <= 0 THEN DefaultLimit ELSE limit

ClampLimit(limit) ==
    CASE limit <= 0 -> DefaultLimit
      [] limit > MaxLimit -> MaxLimit
      [] OTHER -> limit

\* The offset; NotANumber raises a ValueError (see Refused).
ParseCursor(cursor) ==
    CASE cursor = None -> 0
      [] cursor \in Int /\ cursor < 0 -> 0
      [] OTHER -> cursor

\* A slip: the end is noticed one page late.
NextCursorToTheEnd(total, offset, returned) ==
    IF offset + returned <= total THEN offset + returned ELSE None

\* A slip: the last row is taken for the end.
NextCursorBeforeLast(total, offset, returned) ==
    IF offset + returned < total - 1 THEN offset + returned ELSE None

\* nextCursor of pagination_meta.
NextCursor(total, offset, returned) ==
    IF offset + returned < total THEN offset + returned ELSE None

\* items[offset : offset + size]
Slice(items, offset, size) ==
    IF offset >= Len(items) THEN <<>>
    ELSE [i \in 1 .. (IF offset + size <= Len(items) THEN size ELSE Len(items) - offset)
             |-> items[offset + i]]

\* An answer that is not cut, and one that tells of a wrong cursor.
Whole(items) == [items |-> items, limit |-> None, total |-> Len(items), nextCursor |-> None]
Refused == [items |-> <<>>, limit |-> None, total |-> 0, nextCursor |-> None]

\* paginate_list and paginate_dataframe.
Paginate(items, limit, cursor) ==
    LET offset == ParseCursor(cursor)
        size   == ClampLimit(limit)
        page   == Slice(items, offset, size)
    IN  CASE limit = None -> Whole(items)
          [] limit # None /\ cursor = NotANumber -> Refused
          [] OTHER -> [items |-> page, limit |-> size, total |-> Len(items),
                       nextCursor |-> NextCursor(Len(items), offset, Len(page))]

\* paginate_dict_field when the answer has no such field: an empty page, whatever
\* the cursor.
NoField(limit) ==
    IF limit = None THEN Whole(<<>>)
    ELSE [items |-> <<>>, limit |-> ClampLimit(limit), total |-> 0, nextCursor |-> None]
=============================================================================
