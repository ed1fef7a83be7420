--------------------------- MODULE AnswersProofs ---------------------------
(***************************************************************************)
(* Theorems about the answers that are too long for one message, for every *)
(* network, page size and pair of limits of the environment.               *)
(*                                                                         *)
(* First what the list operators compute: one page of a list (PageIsExact) *)
(* and two in a row (PagesJoin); the list of a set in an order             *)
(* (InOrderLemma), for which it is counted how many rows come before each  *)
(* one; and the worst of them (WorstLemma).  Then the walks, from WalkInv, *)
(* and the ranked answers, from RightAnswer.                               *)
(***************************************************************************)
EXTENDS Answers, FiniteSetTheorems, FunctionTheorems, SequenceTheorems, TLAPS

-----------------------------------------------------------------------------
(* Pages *)

\* A page has room for one item at least, and for no more than the ceiling.
LEMMA ClampLemma ==
    ASSUME NEW limit \in Int
    PROVE  ClampLimit(limit) \in 1 .. MaxLimit
  <1>1. CASE limit <= 0
    BY <1>1, LimitsAssumption DEF ClampLimit
  <1>2. CASE ~(limit <= 0) /\ limit > MaxLimit
    BY <1>2, LimitsAssumption DEF ClampLimit
  <1>3. CASE ~(limit <= 0) /\ ~(limit > MaxLimit)
    BY <1>3, LimitsAssumption DEF ClampLimit
  <1> QED
    BY <1>1, <1>2, <1>3

\* A slice is the part of the list from the offset, cut at its end.
LEMMA SliceLemma ==
    ASSUME NEW S, NEW items \in Seq(S), NEW offset \in Nat, NEW size \in Nat \ {0}
    PROVE  LET page == Slice(items, offset, size)
           IN  /\ offset >= Len(items) => page = <<>>
               /\ offset < Len(items) =>
                     /\ Len(page) \in 1 .. size
                     /\ offset + Len(page) <= Len(items)
                     /\ page = SubSeq(items, offset + 1, offset + Len(page))
                     /\ offset + Len(page) < Len(items) => Len(page) = size
  <1> DEFINE n == IF offset + size <= Len(items) THEN size ELSE Len(items) - offset
             page == [i \in 1 .. n |-> items[offset + i]]
  <1>1. CASE offset >= Len(items)
    BY <1>1 DEF Slice
  <1>2. CASE offset < Len(items)
    <2>1. Len(items) \in Nat
      OBVIOUS
    <2>2. /\ n \in 1 .. size /\ offset + n <= Len(items)
          /\ offset + n < Len(items) => n = size
      BY <1>2, <2>1
    <2> HIDE DEF n
    <2>3. \A i \in 1 .. n : items[offset + i] \in S
      BY <2>1, <2>2
    <2>4. page \in Seq(S) /\ Len(page) = n
      BY <2>2, <2>3
    <2> DEFINE part == SubSeq(items, offset + 1, offset + n)
    <2>5. /\ part \in Seq(S) /\ Len(part) = n
          /\ \A i \in 1 .. n : part[i] = items[offset + i]
      BY <2>1, <2>2, SubSeqProperties
    <2>6. page = part
      <3> HIDE DEF part
      <3> QED
        BY <2>4, <2>5
    <2>7. Slice(items, offset, size) = page
      BY <1>2, <2>1 DEF Slice, n
    <2> QED
      BY <1>2, <2>1, <2>2, <2>4, <2>6, <2>7
  <1> QED
    BY <1>1, <1>2

\* A cursor is an offset, and none is the beginning.
LEMMA ParseLemma ==
    ASSUME NEW cursor \in Int \cup {None}
    PROVE  /\ ParseCursor(cursor) \in Nat
           /\ cursor \in Nat => ParseCursor(cursor) = cursor
  BY MarksAssumption DEF ParseCursor

\* A page with a limit is the part of the list from its cursor to the cursor of
\* the next one, or to the end when there is none.  The next cursor is a later
\* place in the list, so that following the cursors comes to an end; and the page
\* is no longer than the ceiling.
THEOREM PageIsExact ==
    ASSUME NEW S, NEW items \in Seq(S), NEW limit \in Int,
           NEW cursor \in Int \cup {None}
    PROVE  LET page == Paginate(items, limit, cursor)
               offset == ParseCursor(cursor)
               next == page.nextCursor
           IN  /\ next = None => page.items = SubSeq(items, offset + 1, Len(items))
               /\ next # None =>
                     /\ next \in offset + 1 .. Len(items) - 1
                     /\ page.items = SubSeq(items, offset + 1, next)
               /\ Len(page.items) <= MaxLimit
  <1> DEFINE offset == ParseCursor(cursor)
             size == ClampLimit(limit)
             part == Slice(items, offset, size)
             page == Paginate(items, limit, cursor)
  <1>1. limit # None /\ cursor # NotANumber
    BY MarksAssumption
  <1>2. page = [items |-> part, limit |-> size, total |-> Len(items),
                nextCursor |-> NextCursor(Len(items), offset, Len(part))]
    BY <1>1 DEF Paginate
  <1>3. /\ offset \in Nat /\ size \in 1 .. MaxLimit /\ size \in Nat \ {0}
        /\ Len(items) \in Nat
    <2>1. offset \in Nat
      BY ParseLemma
    <2>2. size \in 1 .. MaxLimit
      BY ClampLemma
    <2> QED
      BY <2>1, <2>2, LimitsAssumption
  <1> HIDE DEF offset, size, page
  <1>4. /\ offset >= Len(items) => part = <<>>
        /\ offset < Len(items) =>
              /\ Len(part) \in 1 .. size
              /\ offset + Len(part) <= Len(items)
              /\ part = SubSeq(items, offset + 1, offset + Len(part))
    BY <1>3, SliceLemma
  <1>5. page.items = part /\ page.nextCursor = NextCursor(Len(items), offset, Len(part))
    BY <1>2
  <1> HIDE DEF part
  <1> DEFINE Exact ==
                /\ page.nextCursor = None
                   => page.items = SubSeq(items, offset + 1, Len(items))
                /\ page.nextCursor # None =>
                      /\ page.nextCursor \in offset + 1 .. Len(items) - 1
                      /\ page.items = SubSeq(items, offset + 1, page.nextCursor)
                /\ Len(page.items) <= MaxLimit
  <1>6. ASSUME offset >= Len(items) PROVE Exact
    <2>1. part = <<>> /\ Len(part) = 0
      BY <1>4, <1>6
    <2>2. page.nextCursor = None
      BY <1>3, <1>5, <1>6, <2>1 DEF NextCursor
    <2>3. SubSeq(items, offset + 1, Len(items)) = <<>>
      BY <1>3, <1>6, SubSeqEmpty
    <2>4. page.items = SubSeq(items, offset + 1, Len(items))
      BY <1>5, <2>1, <2>3
    <2>5. Len(page.items) <= MaxLimit
      BY <1>5, <2>1, LimitsAssumption
    <2> QED
      BY <2>2, <2>4, <2>5
  <1>7. ASSUME offset < Len(items) PROVE Exact
    <2>1. CASE offset + Len(part) < Len(items)
      <3>1. page.nextCursor = offset + Len(part)
        BY <1>5, <2>1 DEF NextCursor
      <3>2. page.nextCursor \in Int /\ page.nextCursor # None
        BY <1>3, <1>4, <1>7, <3>1, MarksAssumption
      <3> QED
        BY <1>3, <1>4, <1>5, <1>7, <2>1, <3>1, <3>2, LimitsAssumption
    <2>2. CASE offset + Len(part) = Len(items)
      <3>1. page.nextCursor = None
        BY <1>3, <1>5, <2>2 DEF NextCursor
      <3> QED
        BY <1>3, <1>4, <1>5, <1>7, <2>2, <3>1, LimitsAssumption
    <2> QED
      BY <1>3, <1>4, <1>7, <2>1, <2>2
  <1>8. Exact
    BY <1>3, <1>6, <1>7
  <1> QED
    BY <1>8 DEF offset, page

\* Two pages in a row, whatever their sizes, are one part of the list: no item is
\* missed or repeated between them.
THEOREM PagesJoin ==
    ASSUME NEW S, NEW items \in Seq(S), NEW first \in Int, NEW second \in Int,
           NEW cursor \in Int \cup {None},
           Paginate(items, first, cursor).nextCursor # None
    PROVE  LET offset == ParseCursor(cursor)
               one == Paginate(items, first, cursor)
               two == Paginate(items, second, one.nextCursor)
               end == IF two.nextCursor = None THEN Len(items) ELSE two.nextCursor
           IN  one.items \o two.items = SubSeq(items, offset + 1, end)
  <1> DEFINE offset == ParseCursor(cursor)
             one == Paginate(items, first, cursor)
             mid == one.nextCursor
             two == Paginate(items, second, mid)
             end == IF two.nextCursor = None THEN Len(items) ELSE two.nextCursor
  <1>1. /\ mid \in offset + 1 .. Len(items) - 1
        /\ one.items = SubSeq(items, offset + 1, mid)
    BY PageIsExact
  <1>2. offset \in Nat /\ Len(items) \in Nat
    BY ParseLemma
  <1> HIDE DEF offset, one
  <1>3. mid \in Nat /\ mid \in Int \cup {None}
    BY <1>1, <1>2
  <1>4. ParseCursor(mid) = mid
    BY <1>3, ParseLemma
  <1> HIDE DEF mid
  <1>5. /\ two.nextCursor = None => two.items = SubSeq(items, mid + 1, Len(items))
        /\ two.nextCursor # None =>
              /\ two.nextCursor \in mid + 1 .. Len(items) - 1
              /\ two.items = SubSeq(items, mid + 1, two.nextCursor)
    BY <1>3, <1>4, PageIsExact
  <1> HIDE DEF two
  <1>6. end \in mid + 1 .. Len(items) /\ two.items = SubSeq(items, mid + 1, end)
    BY <1>1, <1>2, <1>3, <1>5 DEF mid
  <1> HIDE DEF end
  <1>7. mid \in offset .. Len(items)
    BY <1>1, <1>2 DEF mid
  <1>8. offset + 1 \in 1 .. Len(items) + 1 /\ end \in mid .. Len(items)
    BY <1>2, <1>3, <1>6, <1>7
  <1>9. SubSeq(items, offset + 1, mid) \o SubSeq(items, mid + 1, end)
        = SubSeq(items, offset + 1, end)
    <2>1. mid \in (offset + 1) - 1 .. Len(items)
      BY <1>2, <1>7
    <2> QED
      BY <1>8, <2>1, ConcatAdjacentSubSeq
  <1>10. one.items \o two.items = SubSeq(items, offset + 1, end)
    BY <1>1, <1>6, <1>9 DEF mid
  <1> QED
    BY <1>10 DEF end, two, mid, one, offset

-----------------------------------------------------------------------------
(* Lists of sets *)

\* The rows of S in a strict and total order.
Orders(before, S) ==
    /\ \A x \in S : <<x, x>> \notin before
    /\ \A x, y \in S : x # y => <<x, y>> \in before \/ <<y, x>> \in before
    /\ \A x, y, z \in S : <<x, y>> \in before /\ <<y, z>> \in before => <<x, z>> \in before

LEMMA OrdersPart ==
    ASSUME NEW D, NEW before, Orders(before, D), NEW S \in SUBSET D
    PROVE  Orders(before, S)
  BY DEF Orders

LEMMA DescendingLemma ==
    ASSUME NEW D, NEW key \in [D -> Int], NEW before, Orders(before, D)
    PROVE  /\ Orders(Descending(key, before), D)
           /\ \A x, y \in D : <<x, y>> \in Descending(key, before) => key[x] >= key[y]
  <1> DEFINE R == Descending(key, before)
  <1>1. \A x, y \in D : <<x, y>> \in R
                          <=> key[x] > key[y] \/ (key[x] = key[y] /\ <<x, y>> \in before)
    BY DEF Descending
  <1>2. \A x \in D : key[x] \in Int
    OBVIOUS
  <1> HIDE DEF R
  <1>3. ASSUME NEW x \in D PROVE <<x, x>> \notin R
    <2>1. <<x, x>> \notin before
      BY DEF Orders
    <2> QED
      BY <1>1, <1>2, <2>1
  <1>4. ASSUME NEW x \in D, NEW y \in D, x # y PROVE <<x, y>> \in R \/ <<y, x>> \in R
    <2>1. <<x, y>> \in before \/ <<y, x>> \in before
      BY <1>4 DEF Orders
    <2> QED
      BY <1>1, <1>2, <2>1
  <1>5. ASSUME NEW x \in D, NEW y \in D, NEW z \in D, <<x, y>> \in R, <<y, z>> \in R
        PROVE  <<x, z>> \in R
    BY <1>1, <1>2, <1>5 DEF Orders
  <1>6. \A x, y \in D : <<x, y>> \in R => key[x] >= key[y]
    BY <1>1, <1>2
  <1> QED
    BY <1>3, <1>4, <1>5, <1>6 DEF Orders, R

\* The list of a finite set in an order has each of its rows once, and in that
\* order: no two rows have as many before them, so that every place is taken.
LEMMA InOrderLemma ==
    ASSUME NEW S, IsFiniteSet(S), NEW before, Orders(before, S)
    PROVE  LET s == InOrder(S, before)
               n == Cardinality(S)
           IN  /\ n \in Nat /\ s \in Seq(S) /\ s \in [1 .. n -> S] /\ Len(s) = n
               /\ \A x \in S : \E k \in 1 .. n : s[k] = x
               /\ \A i, j \in 1 .. n : i < j => <<s[i], s[j]>> \in before
  <1> DEFINE n == Cardinality(S)
             Below(x) == {y \in S : <<y, x>> \in before}
             place == [x \in S |-> Cardinality(Below(x)) + 1]
             s == InOrder(S, before)
  <1>1. n \in Nat
    BY FS_CardinalityType
  <1>2. ASSUME NEW x \in S
        PROVE  /\ IsFiniteSet(Below(x)) /\ Cardinality(Below(x)) \in Nat
               /\ Cardinality(Below(x)) <= n - 1
    <2>1. Below(x) \in SUBSET (S \ {x})
      BY DEF Orders
    <2>2. IsFiniteSet(S \ {x}) /\ Cardinality(S \ {x}) = n - 1
      BY <1>2, FS_RemoveElement
    <2> HIDE DEF Below
    <2>3. IsFiniteSet(Below(x)) /\ Cardinality(Below(x)) <= Cardinality(S \ {x})
      BY <2>1, <2>2, FS_Subset
    <2> QED
      BY <2>2, <2>3, FS_CardinalityType
  <1>3. ASSUME NEW x \in S, NEW y \in S, <<x, y>> \in before
        PROVE  place[x] < place[y]
    <2>1. Below(x) \in SUBSET (Below(y) \ {x})
      BY <1>3 DEF Orders
    <2>2. x \in Below(y)
      BY <1>3
    <2>3. /\ IsFiniteSet(Below(y)) /\ Cardinality(Below(y)) \in Nat
          /\ Cardinality(Below(x)) \in Nat
      BY <1>2
    <2>4. place[x] = Cardinality(Below(x)) + 1 /\ place[y] = Cardinality(Below(y)) + 1
      OBVIOUS
    <2> HIDE DEF Below, place
    <2>5. IsFiniteSet(Below(y) \ {x}) /\ Cardinality(Below(y) \ {x}) = Cardinality(Below(y)) - 1
      BY <2>2, <2>3, FS_RemoveElement
    <2>6. Cardinality(Below(x)) <= Cardinality(Below(y) \ {x})
      BY <2>1, <2>5, FS_Subset
    <2> QED
      BY <2>3, <2>4, <2>5, <2>6
  <1>4. place \in [S -> 1 .. n]
    <2>1. ASSUME NEW x \in S PROVE Cardinality(Below(x)) + 1 \in 1 .. n
      <3> HIDE DEF Below
      <3> QED
        BY <1>1, <1>2
    <2> HIDE DEF Below
    <2> QED
      BY <2>1
  <1>5. s = [k \in 1 .. n |-> CHOOSE x \in S : place[x] = k]
    BY DEF InOrder
  <1> HIDE DEF place, s, n
  <1>6. \A x, y \in S : x # y => place[x] # place[y]
    <2> SUFFICES ASSUME NEW x \in S, NEW y \in S, x # y PROVE place[x] # place[y]
      OBVIOUS
    <2>1. place[x] \in Int /\ place[y] \in Int
      BY <1>1, <1>4
    <2>2. place[x] < place[y] \/ place[y] < place[x]
      BY <1>3 DEF Orders
    <2> QED
      BY <2>1, <2>2
  <1>7. place \in Injection(S, 1 .. n)
    BY <1>4, <1>6, Fun_IsInj
  <1>8. IsFiniteSet(1 .. n) /\ Cardinality(1 .. n) = n
    BY <1>1, FS_Interval
  <1>9. place \in Surjection(S, 1 .. n)
    BY <1>7, <1>8, FS_Injection DEF n
  <1>10. \A k \in 1 .. n : \E x \in S : place[x] = k
    BY <1>9, Fun_SurjectionProperties
  <1>11. \A k \in 1 .. n : s[k] \in S /\ place[s[k]] = k
    BY <1>5, <1>10
  <1>12. s \in [1 .. n -> S]
    BY <1>5, <1>11
  <1>13. s \in Seq(S) /\ Len(s) = n
    BY <1>1, <1>5, <1>12
  <1>14. \A x \in S : \E k \in 1 .. n : s[k] = x
    BY <1>4, <1>6, <1>11
  <1>15. ASSUME NEW i \in 1 .. n, NEW j \in 1 .. n, i < j
         PROVE  <<s[i], s[j]>> \in before
    <2>1. s[i] \in S /\ s[j] \in S /\ place[s[i]] = i /\ place[s[j]] = j
      BY <1>11
    <2>2. s[i] # s[j]
      BY <1>1, <1>15, <2>1
    <2>3. CASE <<s[j], s[i]>> \in before
      <3>1. place[s[j]] < place[s[i]]
        BY <1>3, <2>1, <2>3
      <3> QED
        BY <1>1, <1>15, <2>1, <3>1
    <2> QED
      BY <2>1, <2>2, <2>3 DEF Orders
  <1> QED
    BY <1>1, <1>12, <1>13, <1>14, <1>15 DEF n, s

\* s[:n]: a list up to a length.
LEMMA CutLemma ==
    ASSUME NEW S, NEW items \in Seq(S), NEW n \in Nat \ {0}
    PROVE  /\ Cut(items, n) \in Seq(S)
           /\ Len(Cut(items, n)) = IF n <= Len(items) THEN n ELSE Len(items)
           /\ \A i \in 1 .. Len(Cut(items, n)) : Cut(items, n)[i] = items[i]
  <1> DEFINE m == IF n <= Len(items) THEN n ELSE Len(items)
             cut == [i \in 1 .. m |-> items[i]]
  <1>1. Len(items) \in Nat /\ m \in Nat /\ m <= Len(items)
    OBVIOUS
  <1>2. CASE Len(items) = 0
    <2>1. Cut(items, n) = <<>>
      BY <1>2 DEF Cut, Slice
    <2> QED
      BY <1>2, <2>1
  <1>3. CASE Len(items) # 0
    <2>1. Cut(items, n) = [i \in 1 .. (IF 0 + n <= Len(items) THEN n ELSE Len(items) - 0)
                              |-> items[0 + i]]
      BY <1>1, <1>3 DEF Cut, Slice
    <2>2. (IF 0 + n <= Len(items) THEN n ELSE Len(items) - 0) = m
      BY <1>1
    <2>3. Cut(items, n) = [i \in 1 .. m |-> items[0 + i]]
      BY <2>1, <2>2
    <2> HIDE DEF m
    <2>4. \A i \in 1 .. m : items[i] \in S /\ 0 + i = i
      BY <1>1
    <2>5. Cut(items, n) = cut
      BY <2>3, <2>4
    <2>6. cut \in Seq(S) /\ Len(cut) = m
      BY <1>1, <2>4
    <2> QED
      BY <2>5, <2>6 DEF m
  <1> QED
    BY <1>2, <1>3

\* The rows are of S, each once, the greatest key first, and none left out has a
\* greater one.
Worst(rows, S, key) ==
    /\ rows \in Seq(S)
    /\ IsInjective(rows)
    /\ Range(rows) \subseteq S
    /\ \A i, j \in DOMAIN rows : i < j => key[rows[i]] >= key[rows[j]]
    /\ \A i \in DOMAIN rows, r \in S \ Range(rows) : key[rows[i]] >= key[r]

\* A part from the beginning of a list in an order is the worst of its rows, and
\* it is shorter when it leaves one out.
LEMMA PrefixLemma ==
    ASSUME NEW D, NEW S \in SUBSET D, IsFiniteSet(S), NEW key \in [D -> Int],
           NEW before, Orders(before, D),
           NEW all, all = InOrder(S, Descending(key, before)),
           NEW rows \in Seq(S), Len(rows) <= Cardinality(S),
           \A i \in 1 .. Len(rows) : rows[i] = all[i]
    PROVE  /\ Worst(rows, S, key)
           /\ Len(rows) < Cardinality(S) <=> Range(rows) # S
  <1> DEFINE n == Cardinality(S)
             m == Len(rows)
             R == Descending(key, before)
  <1>1. /\ Orders(R, S)
        /\ \A x, y \in S : <<x, y>> \in R => key[x] >= key[y]
    BY DescendingLemma, OrdersPart
  <1>0. all = InOrder(S, R)
    OBVIOUS
  <1>2. /\ n \in Nat /\ all \in Seq(S) /\ all \in [1 .. n -> S] /\ Len(all) = n
        /\ \A x \in S : \E k \in 1 .. n : all[k] = x
        /\ \A i, j \in 1 .. n : i < j => <<all[i], all[j]>> \in R
    <2> HIDE DEF R
    <2>1. LET s == InOrder(S, R)
          IN  /\ n \in Nat /\ s \in Seq(S) /\ s \in [1 .. n -> S] /\ Len(s) = n
              /\ \A x \in S : \E k \in 1 .. n : s[k] = x
              /\ \A i, j \in 1 .. n : i < j => <<s[i], s[j]>> \in R
      BY <1>1, InOrderLemma
    <2> QED
      BY <1>0, <2>1
  <1>3. m \in Nat /\ m <= n /\ DOMAIN rows = 1 .. m
    OBVIOUS
  <1> HIDE DEF n, m, R
  <1>4. \A i \in 1 .. m : i \in 1 .. n /\ rows[i] = all[i] /\ rows[i] \in S
    BY <1>2, <1>3 DEF m
  <1>5. \A i, j \in 1 .. n : all[i] = all[j] => i = j
    <2> SUFFICES ASSUME NEW i \in 1 .. n, NEW j \in 1 .. n, i < j PROVE all[i] # all[j]
      BY <1>2
    <2>1. <<all[i], all[j]>> \in R /\ all[i] \in S
      BY <1>2
    <2> QED
      BY <1>1, <2>1 DEF Orders
  <1>6. Range(rows) = {all[i] : i \in 1 .. m}
    BY <1>3, <1>4 DEF Range
  <1>7. IsInjective(rows)
    BY <1>3, <1>4, <1>5 DEF IsInjective
  <1>8. Range(rows) \subseteq S
    BY <1>4, <1>6
  <1>9. \A i, j \in 1 .. n : i < j => key[all[i]] >= key[all[j]]
    BY <1>1, <1>2
  <1>10. \A i, j \in DOMAIN rows : i < j => key[rows[i]] >= key[rows[j]]
    BY <1>3, <1>4, <1>9
  <1>11. ASSUME NEW i \in DOMAIN rows, NEW r \in S \ Range(rows)
         PROVE  key[rows[i]] >= key[r]
    <2>1. PICK k \in 1 .. n : all[k] = r
      BY <1>2
    <2>2. k \notin 1 .. m
      BY <1>6, <2>1
    <2>3. i < k
      BY <1>2, <1>3, <2>2
    <2> QED
      BY <1>3, <1>4, <1>9, <2>1, <2>3
  <1>12. m < n <=> Range(rows) # S
    <2>1. ASSUME m < n PROVE Range(rows) # S
      <3>1. m + 1 \in 1 .. n /\ all[m + 1] \in S
        BY <1>2, <1>3, <2>1
      <3>2. all[m + 1] \notin Range(rows)
        BY <1>3, <1>4, <1>5, <1>6, <3>1
      <3> QED
        BY <3>1, <3>2
    <2>2. ASSUME m = n PROVE Range(rows) = S
      BY <1>2, <1>6, <1>8, <2>2
    <2> QED
      BY <1>2, <1>3, <2>1, <2>2
  <1> QED
    BY <1>7, <1>8, <1>10, <1>11, <1>12 DEF Worst, n, m

\* The whole list and what cutting leaves of it.
LEMMA WorstLemma ==
    ASSUME NEW D, NEW S \in SUBSET D, IsFiniteSet(S), NEW key \in [D -> Int],
           NEW before, Orders(before, D), NEW n \in Nat \ {0}
    PROVE  LET all == InOrder(S, Descending(key, before))
           IN  /\ all \in Seq(S) /\ Len(all) = Cardinality(S) /\ Cardinality(S) \in Nat
               /\ Worst(all, S, key) /\ Range(all) = S
               /\ Worst(Cut(all, n), S, key)
               /\ Len(Cut(all, n)) < Cardinality(S) <=> Range(Cut(all, n)) # S
  <1> DEFINE R == Descending(key, before)
             all == InOrder(S, R)
  <1>1. Orders(R, S)
    BY DescendingLemma, OrdersPart
  <1>2. all \in Seq(S) /\ Len(all) = Cardinality(S) /\ Cardinality(S) \in Nat
    BY <1>1, InOrderLemma
  <1> HIDE DEF all
  <1>0. all = InOrder(S, R)
    BY DEF all
  <1>3. Worst(all, S, key) /\ Range(all) = S
    <2>1. Len(all) <= Cardinality(S) /\ \A i \in 1 .. Len(all) : all[i] = all[i]
      BY <1>2
    <2>2. Len(all) < Cardinality(S) <=> Range(all) # S
      BY <1>0, <1>2, <2>1, PrefixLemma
    <2>3. Worst(all, S, key)
      BY <1>0, <1>2, <2>1, PrefixLemma
    <2> QED
      BY <1>2, <2>2, <2>3
  <1>4. /\ Cut(all, n) \in Seq(S) /\ Len(Cut(all, n)) <= Cardinality(S)
        /\ \A i \in 1 .. Len(Cut(all, n)) : Cut(all, n)[i] = all[i]
    BY <1>2, CutLemma
  <1>5. /\ Worst(Cut(all, n), S, key)
        /\ Len(Cut(all, n)) < Cardinality(S) <=> Range(Cut(all, n)) # S
    BY <1>0, <1>4, PrefixLemma
  <1> QED
    BY <1>2, <1>3, <1>5 DEF all

-----------------------------------------------------------------------------
(* All pages *)

\* A finite set of integers that is not empty has a greatest element.
LEMMA GreatestLemma ==
    ASSUME NEW T \in SUBSET Int, IsFiniteSet(T), T # {}
    PROVE  \E x \in T : \A y \in T : y <= x
  <1> DEFINE R == {p \in T \X T : p[1] < p[2]}
             s == InOrder(T, R)
             n == Cardinality(T)
  <1>1. \A x, y \in T : <<x, y>> \in R <=> x < y
    OBVIOUS
  <1> HIDE DEF R, s, n
  <1>0. \A x \in T : x \in Int
    OBVIOUS
  <1>2. Orders(R, T)
    BY <1>0, <1>1 DEF Orders
  <1>3. /\ n \in Nat /\ s \in [1 .. n -> T]
        /\ \A x \in T : \E k \in 1 .. n : s[k] = x
        /\ \A i, j \in 1 .. n : i < j => <<s[i], s[j]>> \in R
    <2>1. s = InOrder(T, R)
      BY DEF s
    <2>2. LET l == InOrder(T, R)
          IN  /\ n \in Nat /\ l \in Seq(T) /\ l \in [1 .. n -> T] /\ Len(l) = n
              /\ \A x \in T : \E k \in 1 .. n : l[k] = x
              /\ \A i, j \in 1 .. n : i < j => <<l[i], l[j]>> \in R
      <3>1. IsFiniteSet(T) /\ Orders(R, T)
        BY <1>2
      <3> QED
        BY <3>1, InOrderLemma DEF n
    <2> QED
      BY <2>1, <2>2
  <1>4. n \in 1 .. n
    <2>1. PICK x : x \in T
      OBVIOUS
    <2>2. PICK k \in 1 .. n : s[k] = x
      BY <1>3, <2>1
    <2> QED
      BY <1>3
  <1>5. s[n] \in T
    BY <1>3, <1>4
  <1>6. ASSUME NEW y \in T PROVE y <= s[n]
    <2>1. PICK k \in 1 .. n : s[k] = y
      BY <1>3
    <2>2. CASE k = n
      BY <2>1, <2>2
    <2>3. CASE k < n
      <3>1. <<s[k], s[n]>> \in R
        BY <1>3, <1>4, <2>3
      <3>2. s[k] < s[n]
        BY <1>1, <1>5, <2>1, <3>1
      <3>3. s[n] \in Int /\ y \in Int
        BY <1>0, <1>5
      <3>4. y < s[n]
        BY <2>1, <3>2
      <3> QED
        BY <3>3, <3>4
    <2> QED
      BY <1>3, <2>2, <2>3
  <1> QED
    BY <1>5, <1>6

\* The loop over the pages, from the first one.
Loop(page, N) ==
    LET from[c \in 0 .. N] ==
            page[c].items \o (IF page[c].nextCursor \in {None, c} THEN <<>>
                              ELSE from[page[c].nextCursor])
    IN  from[0]

\* The loop over the pages of a list, from its beginning to the page that names no
\* other one, ends with the whole list: there is one function that the loop's
\* equation describes, by the last cursor at which another one would differ.
LEMMA AllPagesLemma ==
    ASSUME NEW S, NEW items \in Seq(S), NEW N \in Nat, Len(items) <= N,
           NEW page,
           \A c \in 0 .. N :
              /\ page[c].nextCursor = None
                 => page[c].items = SubSeq(items, c + 1, Len(items))
              /\ page[c].nextCursor # None =>
                    /\ page[c].nextCursor \in c + 1 .. Len(items) - 1
                    /\ page[c].items = SubSeq(items, c + 1, page[c].nextCursor)
    PROVE  Loop(page, N) = items
  <1> DEFINE Step(f, c) ==
                 page[c].items \o (IF page[c].nextCursor \in {None, c} THEN <<>>
                                   ELSE f[page[c].nextCursor])
             rest == [c \in 0 .. N |-> SubSeq(items, c + 1, Len(items))]
             loop == CHOOSE f : f = [c \in 0 .. N |-> Step(f, c)]
  <1>1. Len(items) \in Nat
    OBVIOUS
  <1>2. ASSUME NEW c \in 0 .. N, NEW f,
               page[c].nextCursor # None => f[page[c].nextCursor] = rest[page[c].nextCursor]
        PROVE  Step(f, c) = rest[c]
    <2> DEFINE next == page[c].nextCursor
    <2>1. rest[c] = SubSeq(items, c + 1, Len(items))
      OBVIOUS
    <2>2. CASE next = None
      <3>1. Step(f, c) = SubSeq(items, c + 1, Len(items)) \o <<>>
        BY <2>2
      <3>2. SubSeq(items, c + 1, Len(items)) \in Seq(S)
        <4>1. \A i \in c + 1 .. Len(items) : items[i] \in S
          BY <1>1
        <4> QED
          BY <1>1, <4>1, SubSeqProperties
      <3> HIDE DEF rest
      <3>3. \A l \in Seq(S) : l \o <<>> = l
        OBVIOUS
      <3> QED
        BY <2>1, <3>1, <3>2, <3>3
    <2>3. CASE next # None
      <3>1. next \in c + 1 .. Len(items) - 1 /\ page[c].items = SubSeq(items, c + 1, next)
        BY <2>3
      <3>2. next \in 0 .. N /\ next # c
        BY <1>1, <3>1
      <3>3. Step(f, c) = SubSeq(items, c + 1, next) \o rest[next]
        BY <1>2, <2>3, <3>1, <3>2
      <3>4. rest[next] = SubSeq(items, next + 1, Len(items))
        BY <3>2
      <3> HIDE DEF next
      <3>5. SubSeq(items, c + 1, next) \o SubSeq(items, next + 1, Len(items))
            = SubSeq(items, c + 1, Len(items))
        <4>1. /\ c + 1 \in 1 .. Len(items) + 1 /\ next \in (c + 1) - 1 .. Len(items)
              /\ Len(items) \in next .. Len(items)
          BY <1>1, <3>1
        <4> QED
          BY <4>1, ConcatAdjacentSubSeq
      <3> QED
        BY <2>1, <3>3, <3>4, <3>5
    <2> QED
      BY <2>2, <2>3
  <1> HIDE DEF Step
  <1>3. rest = [c \in 0 .. N |-> Step(rest, c)]
    BY <1>2
  <1>4. loop = [c \in 0 .. N |-> Step(loop, c)]
    <2>1. \E f : f = [c \in 0 .. N |-> Step(f, c)]
      BY <1>3
    <2> HIDE DEF rest
    <2> QED
      BY <2>1
  <1> HIDE DEF loop
  <1>5. ASSUME NEW c \in 0 .. N PROVE loop[c] = rest[c]
    <2> DEFINE Wrong == {d \in 0 .. N : loop[d] # rest[d]}
    <2>1. SUFFICES ASSUME Wrong # {} PROVE FALSE
      OBVIOUS
    <2>2. IsFiniteSet(0 .. N)
      BY FS_Interval
    <2>3. IsFiniteSet(Wrong)
      BY <2>2, FS_Subset
    <2>9. Wrong \in SUBSET Int
      OBVIOUS
    <2>4. PICK d \in Wrong : \A e \in Wrong : e <= d
      <3> HIDE DEF Wrong
      <3> QED
        BY <2>1, <2>3, <2>9, GreatestLemma
    <2>5. d \in 0 .. N
      OBVIOUS
    <2>6. page[d].nextCursor # None => loop[page[d].nextCursor] = rest[page[d].nextCursor]
      <3> SUFFICES ASSUME page[d].nextCursor # None
                   PROVE  loop[page[d].nextCursor] = rest[page[d].nextCursor]
        OBVIOUS
      <3>1. page[d].nextCursor \in d + 1 .. Len(items) - 1
        BY <2>5
      <3>2. page[d].nextCursor \in 0 .. N /\ ~(page[d].nextCursor <= d)
        BY <1>1, <2>5, <3>1
      <3> HIDE DEF rest
      <3> QED
        BY <2>4, <3>2
    <2>7. Step(loop, d) = rest[d]
      BY <1>2, <2>5, <2>6
    <2> HIDE DEF rest
    <2>8. loop[d] = Step(loop, d)
      BY <1>4, <2>5
    <2> QED
      BY <2>7, <2>8
  <1>6. rest[0] = items
    <2>1. SubSeq(items, 1, Len(items)) = items
      BY SubSeqFull
    <2>2. rest[0] = SubSeq(items, 0 + 1, Len(items))
      OBVIOUS
    <2> HIDE DEF rest
    <2> QED
      BY <2>1, <2>2
  <1>7. loop[0] = items
    <2> HIDE DEF rest
    <2> QED
      BY <1>5, <1>6
  <1> QED
    BY <1>7 DEF Loop, loop, Step

-----------------------------------------------------------------------------
(* The rows that answers are made of *)

Network == lines \in [TableRows -> LineData] /\ elements \in [TableRows -> ElementData]

\* The table, from its first row to its last.
LEMMA TableLemma ==
    /\ IsFiniteSet(TableRows) /\ Cardinality(TableRows) = Rows
    /\ Orders(TableOrder, TableRows)
    /\ Table \in Seq(TableRows) /\ Len(Table) = Rows /\ Range(Table) = TableRows
  <1>1. Rows \in Nat \ {0}
    BY RowsAssumption
  <1>2. IsFiniteSet(TableRows) /\ Cardinality(TableRows) = Rows
    BY <1>1, FS_Interval DEF TableRows
  <1>3. \A x, y \in TableRows : <<x, y>> \in TableOrder <=> x < y
    BY DEF TableOrder
  <1>4. \A x \in TableRows : x \in Int
    BY <1>1 DEF TableRows
  <1>5. Orders(TableOrder, TableRows)
    BY <1>3, <1>4 DEF Orders
  <1>6. Table \in Seq(TableRows) /\ Len(Table) = Rows /\ Range(Table) = TableRows
    BY <1>1 DEF Table, TableRows, Range
  <1> QED
    BY <1>2, <1>5, <1>6

\* What the network is made of.
LEMMA NetworkLemma ==
    ASSUME Network, NEW i \in TableRows
    PROVE  /\ lines[i] \in [current : Nat \cup {Missing}, permanent : Nat,
                            temporary : Nat \cup {Missing}]
           /\ elements[i].sides \in Nat \X Nat
           /\ elements[i].violations \in Seq(Violation)
  BY LineAssumption, ElementAssumption DEF Network

\* A list of rows of the table in an order has no more rows than the table.
LEMMA RowsLemma ==
    ASSUME NEW S \in SUBSET TableRows, NEW before, Orders(before, TableRows)
    PROVE  /\ IsFiniteSet(S)
           /\ InOrder(S, before) \in Seq(TableRows) /\ Len(InOrder(S, before)) <= Rows
           /\ Range(InOrder(S, before)) = S
  <1> DEFINE n == Cardinality(S)
             s == InOrder(S, before)
  <1>1. IsFiniteSet(S) /\ n <= Rows
    BY TableLemma, FS_Subset
  <1>2. Orders(before, S)
    BY OrdersPart
  <1>3. /\ n \in Nat /\ s \in Seq(S) /\ s \in [1 .. n -> S] /\ Len(s) = n
        /\ \A x \in S : \E k \in 1 .. n : s[k] = x
    BY <1>1, <1>2, InOrderLemma
  <1> HIDE DEF s
  <1>4. Range(s) = S
    BY <1>3 DEF Range
  <1>5. s \in Seq(TableRows)
    BY <1>3
  <1> QED
    BY <1>1, <1>3, <1>4, <1>5 DEF s

\* A loading is an integer.
LEMMA LoadingLemma ==
    /\ \A value, limit \in Nat : Loading(value, limit) \in Int
    /\ Network => \A i \in TableRows, kind \in {"permanent", "temporary"} :
                     LoadingPercent(lines[i], kind) \in Int
  <1>1. \A a \in Nat, b \in Nat \ {0} : (100 * a) \div b \in Int
    OBVIOUS
  <1>2. ASSUME NEW value \in Nat, NEW limit \in Nat PROVE Loading(value, limit) \in Int
    BY <1>1 DEF Loading, Missing
  <1>3. ASSUME Network, NEW i \in TableRows, NEW kind \in {"permanent", "temporary"}
        PROVE  LoadingPercent(lines[i], kind) \in Int
    <2>1. /\ lines[i].current \in Nat \cup {Missing}
          /\ CurrentLimit(lines[i], kind) \in Nat
      BY <1>3, NetworkLemma DEF CurrentLimit
    <2> QED
      BY <1>1, <2>1 DEF LoadingPercent, Missing
  <1> QED
    BY <1>2, <1>3

\* The violations are finitely many.
LEMMA ViolationsLemma ==
    ASSUME Network
    PROVE  /\ IsFiniteSet(AllViolations)
           /\ \A r : r \in AllViolations
                 <=> \E i \in TableRows : \E j \in DOMAIN elements[i].violations : r = <<i, j>>
           /\ \A r \in AllViolations : /\ r[1] \in TableRows /\ r[2] \in Int /\ r = <<r[1], r[2]>>
                                       /\ RowLoading(r) \in Int
           /\ \A limit_type :
                 \A i : ViolationsOf(i, limit_type) \subseteq AllViolations
  <1> DEFINE part(i) == {i} \X DOMAIN elements[i].violations
             parts == [i \in TableRows |-> part(i)]
             Parts == {part(i) : i \in TableRows}
  <1>1. ASSUME NEW i \in TableRows
        PROVE  /\ IsFiniteSet(part(i))
               /\ \A j \in DOMAIN elements[i].violations :
                     /\ j \in Int
                     /\ elements[i].violations[j] \in Violation
    <2>1. elements[i].violations \in Seq(Violation)
      BY NetworkLemma
    <2> DEFINE v == elements[i].violations
    <2>2. DOMAIN v = 1 .. Len(v) /\ Len(v) \in Nat /\ \A j \in 1 .. Len(v) : v[j] \in Violation
      BY <2>1
    <2> HIDE DEF v
    <2>3. IsFiniteSet(DOMAIN v)
      BY <2>2, FS_Interval
    <2>4. IsFiniteSet({i})
      BY FS_Singleton
    <2>5. IsFiniteSet({i} \X DOMAIN v)
      BY <2>3, <2>4, FS_Product
    <2> QED
      BY <2>2, <2>5 DEF v
  <1>2. IsFiniteSet(Parts)
    <2>1. parts \in Surjection(TableRows, Parts)
      BY DEF Surjection
    <2> HIDE DEF parts, Parts
    <2> QED
      BY <2>1, TableLemma, FS_Surjection
  <1>3. IsFiniteSet(AllViolations)
    <2>1. \A T \in Parts : IsFiniteSet(T)
      BY <1>1
    <2>2. AllViolations = UNION Parts
      BY DEF AllViolations
    <2> HIDE DEF Parts
    <2> QED
      BY <1>2, <2>1, <2>2, FS_UNION
  <1>4. \A r : r \in AllViolations
           <=> \E i \in TableRows : \E j \in DOMAIN elements[i].violations : r = <<i, j>>
    BY DEF AllViolations
  <1>5. ASSUME NEW r \in AllViolations
        PROVE  /\ r[1] \in TableRows /\ r[2] \in Int /\ r = <<r[1], r[2]>>
               /\ RowLoading(r) \in Int
    <2>1. PICK i \in TableRows : \E j \in DOMAIN elements[i].violations : r = <<i, j>>
      BY <1>4
    <2>0. PICK j \in DOMAIN elements[i].violations : r = <<i, j>>
      BY <2>1
    <2>2. j \in Int /\ elements[i].violations[j] \in Violation
      BY <1>1
    <2>3. /\ elements[i].violations[j].value \in Nat
          /\ elements[i].violations[j].limit \in Nat
      BY <2>2 DEF Violation
    <2>4. RowLoading(r) \in Int
      BY <2>0, <2>3, LoadingLemma DEF RowLoading
    <2> QED
      BY <2>0, <2>2, <2>4
  <1>6. \A limit_type : \A i : ViolationsOf(i, limit_type) \subseteq AllViolations
    BY DEF ViolationsOf
  <1> QED
    BY <1>3, <1>4, <1>5, <1>6

\* The contingencies by their number of violations, and the violations by their
\* contingency and by their loading, are in strict and total orders.
LEMMA OrdersLemma ==
    ASSUME Network, NEW limit_type
    PROVE  /\ Orders(ByCount(limit_type), TableRows)
           /\ Orders(OneAfterAnother(limit_type), AllViolations)
           /\ Orders(ByLoading(limit_type), AllViolations)
  <1> DEFINE count == [i \in TableRows |-> Cardinality(ViolationsOf(i, limit_type))]
             load == [r \in AllViolations |-> RowLoading(r)]
             B == ByCount(limit_type)
             O == OneAfterAnother(limit_type)
  <1>1. Orders(B, TableRows)
    <2>1. ASSUME NEW i \in TableRows PROVE Cardinality(ViolationsOf(i, limit_type)) \in Int
      <3>1. IsFiniteSet(ViolationsOf(i, limit_type))
        BY ViolationsLemma, FS_Subset
      <3> QED
        BY <3>1, FS_CardinalityType
    <2>2. count \in [TableRows -> Int]
      BY <2>1
    <2> HIDE DEF count
    <2>3. Orders(Descending(count, TableOrder), TableRows)
      BY <2>2, TableLemma, DescendingLemma
    <2> QED
      BY <2>3 DEF ByCount, count
  <1>2. \A x, y \in AllViolations : <<x, y>> \in O
           <=> <<x[1], y[1]>> \in B \/ (x[1] = y[1] /\ x[2] < y[2])
    <2> SUFFICES ASSUME NEW x \in AllViolations, NEW y \in AllViolations
                 PROVE  <<x, y>> \in O <=> <<x[1], y[1]>> \in B \/ (x[1] = y[1] /\ x[2] < y[2])
      OBVIOUS
    <2> DEFINE p == <<x, y>>
    <2>1. p[1] = x /\ p[2] = y /\ p \in AllViolations \X AllViolations
      OBVIOUS
    <2>2. p \in O <=> <<p[1][1], p[2][1]>> \in B \/ (p[1][1] = p[2][1] /\ p[1][2] < p[2][2])
      <3> HIDE DEF p, B
      <3> QED
        BY <2>1 DEF OneAfterAnother, B
    <2> HIDE DEF O, B
    <2> QED
      BY <2>1, <2>2
  <1>3. \A x \in AllViolations : x[1] \in TableRows /\ x[2] \in Int /\ x = <<x[1], x[2]>>
    BY ViolationsLemma
  <1> HIDE DEF B, O
  <1>4. Orders(O, AllViolations)
    <2>1. ASSUME NEW x \in AllViolations PROVE <<x, x>> \notin O
      <3>1. <<x[1], x[1]>> \notin B
        BY <1>1, <1>3 DEF Orders
      <3> QED
        BY <1>2, <1>3, <3>1
    <2>2. ASSUME NEW x \in AllViolations, NEW y \in AllViolations, x # y
          PROVE  <<x, y>> \in O \/ <<y, x>> \in O
      <3>1. x[1] # y[1] => <<x[1], y[1]>> \in B \/ <<y[1], x[1]>> \in B
        BY <1>1, <1>3 DEF Orders
      <3>2. x[1] = y[1] => x[2] # y[2]
        BY <1>3, <2>2
      <3>3. x[2] \in Int /\ y[2] \in Int
        BY <1>3
      <3>4. \/ <<x[1], y[1]>> \in B \/ (x[1] = y[1] /\ x[2] < y[2])
            \/ <<y[1], x[1]>> \in B \/ (y[1] = x[1] /\ y[2] < x[2])
        BY <3>1, <3>2, <3>3
      <3> QED
        BY <1>2, <3>4
    <2>3. ASSUME NEW x \in AllViolations, NEW y \in AllViolations, NEW z \in AllViolations,
                 <<x, y>> \in O, <<y, z>> \in O
          PROVE  <<x, z>> \in O
      <3>1. /\ <<x[1], y[1]>> \in B \/ (x[1] = y[1] /\ x[2] < y[2])
            /\ <<y[1], z[1]>> \in B \/ (y[1] = z[1] /\ y[2] < z[2])
        BY <1>2, <2>3
      <3>2. <<x[1], y[1]>> \in B /\ <<y[1], z[1]>> \in B => <<x[1], z[1]>> \in B
        BY <1>1, <1>3 DEF Orders
      <3>3. x[2] \in Int /\ y[2] \in Int /\ z[2] \in Int
        BY <1>3
      <3>4. <<x[1], z[1]>> \in B \/ (x[1] = z[1] /\ x[2] < z[2])
        BY <3>1, <3>2, <3>3
      <3> QED
        BY <1>2, <3>4
    <2> QED
      BY <2>1, <2>2, <2>3 DEF Orders
  <1>5. Orders(ByLoading(limit_type), AllViolations)
    <2>1. load \in [AllViolations -> Int]
      BY ViolationsLemma
    <2> HIDE DEF load, O
    <2>2. Orders(Descending(load, O), AllViolations)
      BY <1>4, <2>1, DescendingLemma
    <2> QED
      BY <2>2 DEF ByLoading, load, O
  <1> QED
    BY <1>1, <1>4, <1>5 DEF B, O

\* Every list of rows that is paged is a list of the table's rows, no longer than
\* the table; and which rows are in it.
LEMMA ListsLemma ==
    ASSUME Network
    PROVE  /\ \A op \in {"gt", "le"}, kind \in {"permanent", "temporary"} : \A threshold :
                 LET rows == ApplyElementFilter(op, threshold, kind)
                 IN  rows \in Seq(TableRows) /\ Len(rows) <= Rows
           /\ \A low, high :
                 LET rows == ContingenciesFromFilter(low, high)
                 IN  /\ rows \in Seq(TableRows) /\ Len(rows) <= Rows
                     /\ Range(rows) = {i \in TableRows :
                           /\ low # None => NominalVoltage(elements[i]) >= low
                           /\ high # None => NominalVoltage(elements[i]) <= high}
           /\ \A contingencies \in Seq(TableRows) : \A limit_type :
                 LET rows == RankedContingencies(contingencies, limit_type)
                 IN  /\ rows \in Seq(TableRows) /\ Len(rows) <= Rows
                     /\ Range(rows) = {i \in Range(contingencies) :
                                          ViolationsOf(i, limit_type) # {}}
  <1>1. ASSUME NEW op \in {"gt", "le"}, NEW kind \in {"permanent", "temporary"}, NEW threshold
        PROVE  LET rows == ApplyElementFilter(op, threshold, kind)
               IN  rows \in Seq(TableRows) /\ Len(rows) <= Rows
    <2> DEFINE metric == [i \in TableRows |-> LoadingPercent(lines[i], kind)]
               S == {i \in TableRows : metric[i] # Missing /\ Compare(metric[i], op, threshold)}
    <2>1. metric \in [TableRows -> Int] /\ S \in SUBSET TableRows
      BY LoadingLemma
    <2>2. ApplyElementFilter(op, threshold, kind) = InOrder(S, Descending(metric, TableOrder))
      BY DEF ApplyElementFilter
    <2> HIDE DEF metric, S
    <2>3. Orders(Descending(metric, TableOrder), TableRows)
      BY <2>1, TableLemma, DescendingLemma
    <2> QED
      BY <2>1, <2>2, <2>3, RowsLemma
  <1>2. ASSUME NEW low, NEW high
        PROVE  LET rows == ContingenciesFromFilter(low, high)
               IN  /\ rows \in Seq(TableRows) /\ Len(rows) <= Rows
                   /\ Range(rows) = {i \in TableRows :
                         /\ low # None => NominalVoltage(elements[i]) >= low
                         /\ high # None => NominalVoltage(elements[i]) <= high}
    <2> DEFINE S == {i \in TableRows : /\ low # None => NominalVoltage(elements[i]) >= low
                                       /\ high # None => NominalVoltage(elements[i]) <= high}
    <2>1. ContingenciesFromFilter(low, high) = InOrder(S, TableOrder)
      BY DEF ContingenciesFromFilter
    <2>2. S \in SUBSET TableRows
      OBVIOUS
    <2> HIDE DEF S
    <2>3. LET rows == InOrder(S, TableOrder)
          IN  rows \in Seq(TableRows) /\ Len(rows) <= Rows /\ Range(rows) = S
      BY <2>2, TableLemma, RowsLemma
    <2> QED
      BY <2>1, <2>3 DEF S
  <1>3. ASSUME NEW contingencies \in Seq(TableRows), NEW limit_type
        PROVE  LET rows == RankedContingencies(contingencies, limit_type)
               IN  /\ rows \in Seq(TableRows) /\ Len(rows) <= Rows
                   /\ Range(rows) = {i \in Range(contingencies) :
                                        ViolationsOf(i, limit_type) # {}}
    <2> DEFINE S == {i \in Range(contingencies) : ViolationsOf(i, limit_type) # {}}
    <2>1. RankedContingencies(contingencies, limit_type) = InOrder(S, ByCount(limit_type))
      BY DEF RankedContingencies
    <2>2. S \in SUBSET TableRows
      BY DEF Range
    <2> HIDE DEF S
    <2>3. LET rows == InOrder(S, ByCount(limit_type))
          IN  rows \in Seq(TableRows) /\ Len(rows) <= Rows /\ Range(rows) = S
      BY <2>2, OrdersLemma, RowsLemma
    <2> QED
      BY <2>1, <2>3 DEF S
  <1> QED
    BY <1>1, <1>2, <1>3

-----------------------------------------------------------------------------
(* Pages of answers *)

Places == Int \cup {None, NotANumber}
Sizes == Int \cup {None}


PagesOf(S) ==
    [items : Seq(S), limit : 1 .. MaxLimit \cup {None}, total : Nat, nextCursor : Nat \cup {None}]

\* The part of the list between the cursors.
PartOf(items, page, cursor) ==
    page.items = SubSeq(items, ParseCursor(cursor) + 1,
                        IF page.nextCursor = None THEN Len(items) ELSE page.nextCursor)

\* The next cursor is further on in the list.
Proceeds(items, page, cursor) ==
    page.nextCursor # None =>
       cursor # NotANumber /\ page.nextCursor \in ParseCursor(cursor) + 1 .. Len(items) - 1

\* A page of a list, whatever is asked for.
LEMMA PageLemma ==
    ASSUME NEW S, NEW items \in Seq(S), NEW limit \in Sizes, NEW cursor \in Places
    PROVE  LET page == Paginate(items, limit, cursor)
           IN  /\ page \in PagesOf(S)
               /\ Proceeds(items, page, cursor)
               /\ cursor # NotANumber /\ (limit = None => cursor = None)
                  => PartOf(items, page, cursor)
  <1> DEFINE page == Paginate(items, limit, cursor)
             offset == ParseCursor(cursor)
             next == page.nextCursor
             Pages == PagesOf(S)
             Right == /\ page \in Pages
                      /\ next # None
                         => cursor # NotANumber /\ next \in offset + 1 .. Len(items) - 1
                      /\ cursor # NotANumber /\ (limit = None => cursor = None)
                         => page.items = SubSeq(items, offset + 1,
                                                IF next = None THEN Len(items) ELSE next)
  <1>1. None \notin Int /\ NotANumber \notin Int /\ None # NotANumber /\ Len(items) \in Nat
    BY MarksAssumption
  <1>2. ASSUME limit = None PROVE Right
    <2>1. page = Whole(items)
      BY <1>2 DEF Paginate
    <2>2. page \in Pages /\ page.items = items /\ next = None
      BY <1>1, <2>1 DEF Whole, PagesOf
    <2>3. items = SubSeq(items, 1, Len(items))
      BY SubSeqFull
    <2>4. cursor = None => offset = 0
      BY DEF ParseCursor
    <2> HIDE DEF page, offset, Pages
    <2> QED
      BY <1>2, <2>2, <2>3, <2>4
  <1>3. ASSUME limit # None, cursor = NotANumber PROVE Right
    <2>1. page = Refused
      BY <1>3 DEF Paginate
    <2>2. page \in Pages /\ next = None
      BY <1>1, <2>1 DEF Refused, PagesOf
    <2> HIDE DEF page, offset, Pages
    <2> QED
      BY <1>3, <2>2
  <1>4. ASSUME limit # None, cursor # NotANumber PROVE Right
    <2>1. limit \in Int /\ cursor \in Int \cup {None}
      BY <1>4 DEF Sizes, Places
    <2>2. /\ next = None => page.items = SubSeq(items, offset + 1, Len(items))
          /\ next # None => /\ next \in offset + 1 .. Len(items) - 1
                            /\ page.items = SubSeq(items, offset + 1, next)
      BY <2>1, PageIsExact
    <2>3. offset \in Nat /\ ClampLimit(limit) \in 1 .. MaxLimit
      BY <2>1, ParseLemma, ClampLemma
    <2> DEFINE part == Slice(items, offset, ClampLimit(limit))
    <2>4. page = [items |-> part, limit |-> ClampLimit(limit), total |-> Len(items),
                  nextCursor |-> NextCursor(Len(items), offset, Len(part))]
      BY <1>4 DEF Paginate
    <2>5. page.items = part
      BY <2>4
    <2> HIDE DEF offset, page
    <2>6. ASSUME NEW end \in Int, end <= Len(items), page.items = SubSeq(items, offset + 1, end)
          PROVE  page.items \in Seq(S)
      <3>1. \A i \in offset + 1 .. end : items[i] \in S
        BY <1>1, <2>3, <2>6
      <3> QED
        BY <2>3, <2>6, <3>1, SubSeqProperties
    <2>7. page.items \in Seq(S) /\ next \in Nat \cup {None}
      <3>1. CASE next = None
        BY <1>1, <2>2, <2>6, <3>1
      <3>2. CASE next # None
        <4>1. next \in Int /\ next <= Len(items) /\ next >= 0
          BY <1>1, <2>2, <2>3, <3>2
        <4> QED
          BY <2>2, <2>6, <3>2, <4>1
      <3> QED
        BY <3>1, <3>2
    <2>8. page \in Pages
      <3>1. /\ page = [items |-> page.items, limit |-> ClampLimit(limit), total |-> Len(items),
                       nextCursor |-> next]
        BY <2>4
      <3> QED
        BY <1>1, <2>3, <2>7, <3>1 DEF PagesOf
    <2> HIDE DEF Pages
    <2> QED
      BY <1>4, <2>2, <2>8
  <1>5. Right
    BY <1>2, <1>3, <1>4
  <1> QED
    BY <1>5 DEF PartOf, Proceeds

\* A page of an answer is a part of the rows that the answer has; only a
\* sensitivity analysis does not say where it goes on.
LEMMA AnswerLemma ==
    ASSUME Network, NEW q \in Queries, NEW limit \in Sizes, NEW cursor \in Places
    PROVE  LET rows == AnswerRows(q)
               page == AnswerPage(q, limit, cursor)
           IN  /\ rows \in Seq(TableRows) /\ Len(rows) \in 0 .. Rows
               /\ page \in PagesOf(TableRows)
               /\ Proceeds(rows, page, cursor)
               /\ q.tool = "run_dc_sensitivity_analysis" => page.nextCursor = None
               /\ /\ cursor # NotANumber /\ q.tool # "run_dc_sensitivity_analysis"
                  /\ limit = None /\ q.tool # "get_network_element_data" => cursor = None
                  => PartOf(rows, page, cursor)
  <1> DEFINE rows == AnswerRows(q)
             page == AnswerPage(q, limit, cursor)
             Right ==
               /\ rows \in Seq(TableRows) /\ Len(rows) \in 0 .. Rows
               /\ page \in PagesOf(TableRows)
               /\ Proceeds(rows, page, cursor)
               /\ q.tool = "run_dc_sensitivity_analysis" => page.nextCursor = None
               /\ /\ cursor # NotANumber /\ q.tool # "run_dc_sensitivity_analysis"
                  /\ limit = None /\ q.tool # "get_network_element_data" => cursor = None
                  => PartOf(rows, page, cursor)
  <1> SUFFICES Right
    OBVIOUS
  <1>1. ASSUME q.tool # "run_dc_sensitivity_analysis",
               rows \in Seq(TableRows), Len(rows) <= Rows,
               NEW size \in Sizes, page = Paginate(rows, size, cursor),
               size = None => limit = None /\ q.tool # "get_network_element_data"
        PROVE  Right
    <2> HIDE DEF rows, page
    <2>1. /\ page \in PagesOf(TableRows)
          /\ Proceeds(rows, page, cursor)
          /\ cursor # NotANumber /\ (size = None => cursor = None) => PartOf(rows, page, cursor)
      BY <1>1, PageLemma
    <2>2. Len(rows) \in 0 .. Rows
      BY <1>1, RowsAssumption
    <2> QED
      BY <1>1, <2>1, <2>2
  <1>2. CASE q.tool = "get_network_element_data"
    <2>1. /\ q.filter_op \in {"gt", "le"} /\ q.limit_kind \in {"permanent", "temporary"}
          /\ rows = ApplyElementFilter(q.filter_op, q.filter_value, q.limit_kind)
          /\ page = FilteredPage(q.filter_op, q.filter_value, q.limit_kind, limit, cursor)
      BY <1>2 DEF Queries, AnswerRows, AnswerPage
    <2> DEFINE size == IF limit = None THEN DefaultLimit ELSE limit
    <2>2. page = Paginate(rows, size, cursor)
      BY <2>1 DEF FilteredPage
    <2>3. size \in Sizes /\ size # None
      BY LimitsAssumption, MarksAssumption DEF Sizes
    <2>4. rows \in Seq(TableRows) /\ Len(rows) <= Rows
      BY <2>1, ListsLemma
    <2> HIDE DEF rows, page, size, Right
    <2> QED
      BY <1>1, <1>2, <2>2, <2>3, <2>4
  <1>3. CASE q.tool = "create_contingencies_list"
    <2>1. /\ rows = ContingenciesFromFilter(q.min_nominal_voltage, q.max_nominal_voltage)
          /\ page = CreateContingenciesList(q.min_nominal_voltage, q.max_nominal_voltage,
                                            limit, cursor)
      BY <1>3 DEF AnswerRows, AnswerPage
    <2>2. page = Paginate(rows, limit, cursor)
      BY <2>1 DEF CreateContingenciesList
    <2>3. rows \in Seq(TableRows) /\ Len(rows) <= Rows
      BY <2>1, ListsLemma
    <2> HIDE DEF rows, page, Right
    <2> QED
      BY <1>1, <1>3, <2>2, <2>3
  <1>4. CASE q.tool = "run_security_analysis"
    <2>1. /\ rows = Details(Table, q.limit_type, q.detail_limit)
          /\ page = Paginate(Details(Table, q.limit_type, q.detail_limit), limit, cursor)
          /\ q.detail_limit \in {1, Rows}
      BY <1>4 DEF Queries, AnswerRows, AnswerPage
    <2> DEFINE ranked == RankedContingencies(Table, q.limit_type)
    <2>2. ranked \in Seq(TableRows) /\ Len(ranked) <= Rows
      BY TableLemma, ListsLemma
    <2>3. q.detail_limit \in Nat \ {0}
      BY <2>1, RowsAssumption
    <2>4. rows = Cut(ranked, q.detail_limit)
      BY <2>1 DEF Details
    <2> HIDE DEF ranked
    <2>5. /\ Cut(ranked, q.detail_limit) \in Seq(TableRows)
          /\ Len(Cut(ranked, q.detail_limit)) = IF q.detail_limit <= Len(ranked)
                                                THEN q.detail_limit ELSE Len(ranked)
      BY <2>2, <2>3, CutLemma
    <2>6. Len(ranked) \in Nat
      BY <2>2
    <2> HIDE DEF rows, page, Right
    <2>7. rows \in Seq(TableRows) /\ Len(rows) <= Rows
      BY <2>2, <2>3, <2>4, <2>5, <2>6, RowsAssumption
    <2>8. page = Paginate(rows, limit, cursor)
      BY <2>1
    <2> QED
      BY <1>1, <1>4, <2>7, <2>8
  <1>5. CASE q.tool = "run_dc_sensitivity_analysis"
    <2> DEFINE one == Paginate(ReferenceMatrix, limit, cursor)
               part == Paginate(Table, limit, cursor)
    <2>1. rows = Table /\ page = [one EXCEPT !.items = part.items]
      BY <1>5 DEF AnswerRows, AnswerPage, SensitivityPage
    <2>2. ReferenceMatrix \in Seq({"reference_values"}) /\ Len(ReferenceMatrix) = 1
      BY DEF ReferenceMatrix
    <2>3. one \in PagesOf({"reference_values"}) /\ Proceeds(ReferenceMatrix, one, cursor)
      BY <2>2, PageLemma
    <2>4. part \in PagesOf(TableRows)
      BY TableLemma, PageLemma
    <2>5. cursor # NotANumber => ParseCursor(cursor) \in Nat
      BY ParseLemma DEF Places
    <2> HIDE DEF one, part
    <2>6. one.nextCursor = None
      BY <2>2, <2>3, <2>5 DEF Proceeds
    <2>7. page \in PagesOf(TableRows) /\ page.nextCursor = None
      BY <2>1, <2>3, <2>4, <2>6 DEF PagesOf
    <2>8. rows \in Seq(TableRows) /\ Len(rows) \in 0 .. Rows
      BY <2>1, TableLemma, RowsAssumption
    <2> HIDE DEF page, rows
    <2> QED
      BY <1>5, <2>7, <2>8 DEF Proceeds
  <1>6. q.tool \in {"get_network_element_data", "create_contingencies_list",
                    "run_security_analysis", "run_dc_sensitivity_analysis"}
    BY DEF Queries
  <1> HIDE DEF Right
  <1> QED
    BY <1>2, <1>3, <1>4, <1>5, <1>6

-----------------------------------------------------------------------------
(* The walks *)

\* What a walk has: so many pages at most as its cursor is far, and, over a network
\* that stays as it is, all the rows from its start to its cursor.
WalkInv ==
    walk # NoWalk =>
       /\ answer = NoAnswer
       /\ walk.at = "next" => /\ walk.query \in Queries
                              /\ walk.cursor \in 1 .. Rows - 1
                              /\ walk.pages <= walk.cursor
       /\ walk.pages <= Rows
       /\ \A q \in Queries :
             walk.query = q /\ ~walk.changed /\ walk.start # NotANumber
                /\ q.tool # "run_dc_sensitivity_analysis"
             => LET rows == AnswerRows(q)
                    offset == ParseCursor(walk.start)
                IN  /\ walk.at = "next" => walk.cursor \in offset + 1 .. Len(rows) - 1
                    /\ walk.got = SubSeq(rows, offset + 1,
                                         IF walk.at = "next" THEN walk.cursor ELSE Len(rows))

\* The answers are the same as long as the network is.
LEMMA UnchangedLemma ==
    ASSUME lines' = lines, elements' = elements
    PROVE  /\ Network' <=> Network
           /\ \A q : AnswerRows(q)' = AnswerRows(q)
  <1>1. ASSUME NEW q PROVE AnswerRows(q)' = AnswerRows(q)
    BY DEF AnswerRows, ApplyElementFilter, ContingenciesFromFilter, Details,
           RankedContingencies, ByCount, ViolationsOf, AllViolations
  <1> QED
    BY <1>1 DEF Network

Begins == Queries \cup {Summary}

Askers ==
    [at : {"begun", "next"}, query : Begins, start : Cursors,
     cursor : Cursors \cup Nat, limit : 1 .. MaxLimit \cup {None}, pages : Nat,
     got : Seq(TableRows), changed : BOOLEAN]

\* What asking for a page changes in a walk.
LEMMA AskedLemma ==
    ASSUME NEW before \in Askers, NEW page \in PagesOf(TableRows), Asked(before, page)
    PROVE  /\ lines' = lines /\ elements' = elements /\ answer' = NoAnswer
           /\ walk' \in Walks /\ walk' # NoWalk
           /\ walk'.at = IF page.nextCursor = None THEN "ended" ELSE "next"
           /\ walk'.cursor = page.nextCursor
           /\ walk'.pages = before.pages + 1
           /\ walk'.query = before.query /\ walk'.start = before.start
           /\ walk'.changed = before.changed
           /\ ~before.changed => walk'.got = before.got \o page.items
  <1> DEFINE at == IF page.nextCursor = None THEN "ended" ELSE "next"
             got == IF before.changed THEN before.got ELSE before.got \o page.items
  <1>1. walk' = [before EXCEPT !.at = at, !.cursor = page.nextCursor, !.limit = page.limit,
                               !.pages = @ + 1, !.got = got]
    BY DEF Asked
  <1>2. /\ page.items \in Seq(TableRows) /\ page.limit \in 1 .. MaxLimit \cup {None}
        /\ page.nextCursor \in Nat \cup {None}
    BY DEF PagesOf
  <1>3. before.got \in Seq(TableRows) /\ before.pages \in Nat
    BY DEF Askers
  <1>4. got \in Seq(TableRows) /\ at \in {"next", "ended"} /\ before.pages + 1 \in Nat
    BY <1>2, <1>3
  <1> HIDE DEF at, got
  <1>5. walk' = [at |-> at, query |-> before.query, start |-> before.start,
                 cursor |-> page.nextCursor, limit |-> page.limit,
                 pages |-> before.pages + 1, got |-> got, changed |-> before.changed]
    BY <1>1 DEF Askers
  <1>6. walk' \in Walks
    BY <1>2, <1>4, <1>5 DEF Walks, Askers, Begins
  <1>7. walk'.at \in {"next", "ended"} /\ NoWalk.at = "idle"
    BY <1>4, <1>5 DEF NoWalk
  <1>8. lines' = lines /\ elements' = elements /\ answer' = NoAnswer
    BY DEF Asked
  <1> QED
    BY <1>5, <1>6, <1>7, <1>8 DEF at, got

\* The first page.
LEMMA StartWalkLemma ==
    ASSUME TypeOK, NEW q \in Queries, NEW limit \in Limits, NEW cursor \in Cursors,
           StartWalk(q, limit, cursor)
    PROVE  TypeOK' /\ WalkInv'
  <1> DEFINE before == Begun(q, cursor)
             page == AnswerPage(q, limit, cursor)
             offset == ParseCursor(cursor)
             rows == AnswerRows(q)
             next == page.nextCursor
  <1>1. Network
    BY DEF TypeOK, Network
  <1>2. limit \in Sizes /\ cursor \in Places
    BY LimitsAssumption DEF Limits, Cursors, Sizes, Places
  <1>3. /\ rows \in Seq(TableRows) /\ Len(rows) \in 0 .. Rows
        /\ page \in PagesOf(TableRows)
        /\ Proceeds(rows, page, cursor)
        /\ /\ cursor # NotANumber /\ q.tool # "run_dc_sensitivity_analysis"
           /\ limit = None /\ q.tool # "get_network_element_data" => cursor = None
           => PartOf(rows, page, cursor)
    BY <1>1, <1>2, AnswerLemma
  <1>4. limit = None /\ q.tool # "get_network_element_data" => cursor = None
    BY DEF StartWalk
  <1>5. before \in Askers /\ before.pages = 0 /\ before.query = q /\ before.start = cursor
        /\ before.changed = FALSE /\ before.got = <<>>
    BY DEF Begun, Askers, Begins
  <1>6. Asked(before, page)
    BY DEF StartWalk
  <1> HIDE DEF before, page, rows, offset
  <1>7. /\ lines' = lines /\ elements' = elements /\ answer' = NoAnswer
        /\ walk' \in Walks /\ walk' # NoWalk
        /\ walk'.at = IF next = None THEN "ended" ELSE "next"
        /\ walk'.cursor = next /\ walk'.pages = 0 + 1
        /\ walk'.query = q /\ walk'.start = cursor /\ walk'.changed = FALSE
        /\ walk'.got = <<>> \o page.items
    BY <1>3, <1>5, <1>6, AskedLemma
  <1>8. page.items \in Seq(TableRows) /\ <<>> \o page.items = page.items
    BY <1>3 DEF PagesOf
  <1>9. next # None => /\ cursor # NotANumber /\ offset \in Nat
                       /\ next \in offset + 1 .. Len(rows) - 1
    BY <1>2, <1>3, ParseLemma DEF Proceeds, Places, offset
  <1>10. TypeOK'
    BY <1>7 DEF TypeOK
  <1>11. next # None => next \in 1 .. Rows - 1 /\ 1 <= next
    BY <1>3, <1>9, RowsAssumption
  <1>12. AnswerRows(q)' = rows
    BY <1>7, UnchangedLemma DEF rows
  <1>13. /\ cursor # NotANumber /\ q.tool # "run_dc_sensitivity_analysis"
         => page.items = SubSeq(rows, offset + 1, IF next = None THEN Len(rows) ELSE next)
    BY <1>3, <1>4 DEF PartOf, offset
  <1>14. WalkInv'
    <2>1. walk'.at = "next" => /\ walk'.query \in Queries /\ walk'.cursor \in 1 .. Rows - 1
                               /\ walk'.pages <= walk'.cursor
      BY <1>7, <1>11
    <2>2. walk'.pages <= Rows
      BY <1>7, RowsAssumption
    <2>3. /\ walk'.query = q /\ walk'.start = cursor
          /\ walk'.start # NotANumber /\ q.tool # "run_dc_sensitivity_analysis"
          => /\ walk'.at = "next" => walk'.cursor \in offset + 1 .. Len(rows) - 1
             /\ walk'.got = SubSeq(rows, offset + 1,
                                   IF walk'.at = "next" THEN walk'.cursor ELSE Len(rows))
      BY <1>7, <1>8, <1>9, <1>13
    <2> QED
      BY <1>7, <1>12, <2>1, <2>2, <2>3 DEF WalkInv, offset
  <1> QED
    BY <1>10, <1>14

\* A page further on: what it has joins what the walk has.
LEMMA NextPageLemma ==
    ASSUME TypeOK, WalkInv, NEW limit \in Limits, NextPage(limit)
    PROVE  TypeOK' /\ WalkInv'
  <1> DEFINE q == walk.query
             page == AnswerPage(walk.query, limit, walk.cursor)
             rows == AnswerRows(walk.query)
             next == page.nextCursor
             offset == ParseCursor(walk.start)
  <1>1. Network
    BY DEF TypeOK, Network
  <1>2. /\ walk.at = "next" /\ limit # None /\ walk # NoWalk
        /\ Asked(walk, page)
    BY DEF NextPage, NoWalk
  <1>3. walk \in Walks
    BY <1>2 DEF TypeOK
  <1>4. /\ q \in Queries /\ walk.cursor \in 1 .. Rows - 1 /\ walk.pages <= walk.cursor
    BY <1>2 DEF WalkInv
  <1>5. /\ ~walk.changed /\ walk.start # NotANumber /\ q.tool # "run_dc_sensitivity_analysis"
        => /\ walk.cursor \in offset + 1 .. Len(rows) - 1
           /\ walk.got = SubSeq(rows, offset + 1, walk.cursor)
    BY <1>2, <1>4 DEF WalkInv
  <1>6. limit \in Sizes /\ walk.cursor \in Places /\ walk.cursor \in Nat
    BY <1>4, LimitsAssumption, RowsAssumption DEF Limits, Sizes, Places
  <1>7. walk.cursor # NotANumber /\ ParseCursor(walk.cursor) = walk.cursor
    BY <1>6, MarksAssumption, ParseLemma
  <1>8. /\ rows \in Seq(TableRows) /\ Len(rows) \in 0 .. Rows
        /\ page \in PagesOf(TableRows)
        /\ Proceeds(rows, page, walk.cursor)
        /\ q.tool # "run_dc_sensitivity_analysis" => PartOf(rows, page, walk.cursor)
    BY <1>1, <1>2, <1>4, <1>6, <1>7, AnswerLemma
  <1>9. walk \in Askers
    BY <1>2, <1>3, <1>6 DEF Walks, Askers, Begins
  <1>10. walk.pages \in Nat /\ walk.changed \in BOOLEAN /\ walk.start \in Cursors
    BY <1>3 DEF Walks
  <1> HIDE DEF page, rows, offset
  <1>11. /\ lines' = lines /\ elements' = elements /\ answer' = NoAnswer
         /\ walk' \in Walks /\ walk' # NoWalk
         /\ walk'.at = IF next = None THEN "ended" ELSE "next"
         /\ walk'.cursor = next /\ walk'.pages = walk.pages + 1
         /\ walk'.query = q /\ walk'.start = walk.start /\ walk'.changed = walk.changed
         /\ ~walk.changed => walk'.got = walk.got \o page.items
    BY <1>2, <1>8, <1>9, AskedLemma
  <1>12. TypeOK'
    BY <1>11 DEF TypeOK
  <1>13. next # None => next \in walk.cursor + 1 .. Len(rows) - 1
    BY <1>7, <1>8 DEF Proceeds
  <1>14. next # None => next \in 1 .. Rows - 1 /\ walk.pages + 1 <= next
    BY <1>4, <1>6, <1>8, <1>10, <1>13, RowsAssumption
  <1>15. walk.pages + 1 <= Rows
    BY <1>4, <1>6, <1>10, RowsAssumption
  <1>16. AnswerRows(q)' = rows
    <2>1. \A r : AnswerRows(r)' = AnswerRows(r)
      BY <1>11, UnchangedLemma
    <2> QED
      BY <1>11, <2>1 DEF rows
  <1> DEFINE end == IF next = None THEN Len(rows) ELSE next
  <1>17. ASSUME ~walk.changed, walk.start # NotANumber, q.tool # "run_dc_sensitivity_analysis"
         PROVE  /\ next # None => next \in offset + 1 .. Len(rows) - 1
                /\ walk'.got = SubSeq(rows, offset + 1, end)
    <2>1. /\ walk.cursor \in offset + 1 .. Len(rows) - 1
          /\ walk.got = SubSeq(rows, offset + 1, walk.cursor)
      BY <1>5, <1>17
    <2>2. offset \in Nat
      <3>1. walk.start \in Int \cup {None}
        BY <1>10, <1>17, LimitsAssumption DEF Cursors
      <3> QED
        BY <3>1, ParseLemma DEF offset
    <2>3. page.items = SubSeq(rows, walk.cursor + 1, end)
      BY <1>7, <1>8, <1>17 DEF PartOf
    <2>4. end \in walk.cursor .. Len(rows) /\ Len(rows) \in Nat
      BY <1>6, <1>8, <1>13, <2>1, <2>2
    <2> HIDE DEF end
    <2>5. SubSeq(rows, offset + 1, walk.cursor) \o SubSeq(rows, walk.cursor + 1, end)
          = SubSeq(rows, offset + 1, end)
      <3>1. /\ offset + 1 \in 1 .. Len(rows) + 1
            /\ walk.cursor \in (offset + 1) - 1 .. Len(rows)
            /\ end \in walk.cursor .. Len(rows)
        BY <2>1, <2>2, <2>4
      <3> QED
        BY <1>8, <3>1, ConcatAdjacentSubSeq
    <2>6. next # None => next \in offset + 1 .. Len(rows) - 1
      BY <1>6, <1>8, <1>13, <2>1, <2>2
    <2> QED
      BY <1>11, <1>17, <2>1, <2>3, <2>5, <2>6
  <1>18. WalkInv'
    <2>1. walk'.at = "next" => /\ walk'.query \in Queries /\ walk'.cursor \in 1 .. Rows - 1
                               /\ walk'.pages <= walk'.cursor
      BY <1>4, <1>11, <1>14
    <2>2. walk'.pages <= Rows
      BY <1>11, <1>15
    <2>3. ASSUME NEW r \in Queries, walk'.query = r, ~walk'.changed, walk'.start # NotANumber,
                 r.tool # "run_dc_sensitivity_analysis"
          PROVE  /\ walk'.at = "next"
                    => walk'.cursor \in ParseCursor(walk'.start) + 1 .. Len(AnswerRows(r)') - 1
                 /\ walk'.got = SubSeq(AnswerRows(r)', ParseCursor(walk'.start) + 1,
                                       IF walk'.at = "next" THEN walk'.cursor
                                       ELSE Len(AnswerRows(r)'))
      <3>1. AnswerRows(r)' = rows /\ ParseCursor(walk'.start) = offset
        <4>1. AnswerRows(r)' = AnswerRows(r)
          BY <1>11, UnchangedLemma
        <4> QED
          BY <1>11, <2>3, <4>1 DEF rows, offset
      <3> QED
        BY <1>11, <1>17, <2>3, <3>1
    <2> QED
      BY <1>11, <2>1, <2>2, <2>3 DEF WalkInv
  <1> QED
    BY <1>12, <1>18

\* A page of the summary is the last one.
LEMMA PageOfSummaryLemma ==
    ASSUME TypeOK, NEW limit \in Limits, PageOfSummary(limit)
    PROVE  TypeOK' /\ WalkInv'
  <1> DEFINE before == Begun(Summary, None)
             page == NoField(limit)
  <1>1. page \in PagesOf(TableRows) /\ page.nextCursor = None
    <2>1. limit = None => page \in PagesOf(TableRows) /\ page.nextCursor = None
      BY DEF NoField, Whole, PagesOf
    <2>2. limit # None => ClampLimit(limit) \in 1 .. MaxLimit
      BY ClampLemma, LimitsAssumption DEF Limits
    <2>3. limit # None => page \in PagesOf(TableRows) /\ page.nextCursor = None
      BY <2>2 DEF NoField, PagesOf
    <2> QED
      BY <2>1, <2>3
  <1>2. before \in Askers /\ before.pages = 0 /\ before.query = Summary
    BY DEF Begun, Askers, Begins, Cursors
  <1>3. Asked(before, page)
    BY DEF PageOfSummary
  <1> HIDE DEF before, page
  <1>4. /\ lines' = lines /\ elements' = elements /\ answer' = NoAnswer
        /\ walk' \in Walks /\ walk' # NoWalk
        /\ walk'.at = "ended" /\ walk'.pages = 0 + 1 /\ walk'.query = Summary
    BY <1>1, <1>2, <1>3, AskedLemma
  <1>5. TypeOK'
    BY <1>4 DEF TypeOK
  <1>6. Summary \notin Queries
    BY DEF Summary, Queries
  <1>7. WalkInv'
    BY <1>4, <1>6, RowsAssumption DEF WalkInv
  <1> QED
    BY <1>5, <1>7

\* A walk over a network that changes is not held to the rows it began with, but it
\* still goes forward.
LEMMA ChangeLemma ==
    ASSUME TypeOK, WalkInv, Change
    PROVE  TypeOK' /\ WalkInv'
  <1>1. walk.at = "next" /\ walk # NoWalk
    BY DEF Change, NoWalk
  <1>2. walk \in Walks /\ answer = NoAnswer /\ answer' = answer
    BY <1>1 DEF TypeOK, WalkInv, Change
  <1>3. walk' = [walk EXCEPT !.changed = TRUE, !.got = <<>>, !.start = None]
    BY DEF Change
  <1>4. /\ walk' \in Walks /\ walk'.changed = TRUE /\ walk'.at = walk.at
        /\ walk'.query = walk.query /\ walk'.cursor = walk.cursor /\ walk'.pages = walk.pages
    <2>1. walk' = [at |-> walk.at, query |-> walk.query, start |-> None,
                   cursor |-> walk.cursor, limit |-> walk.limit, pages |-> walk.pages,
                   got |-> <<>>, changed |-> TRUE]
      BY <1>2, <1>3 DEF Walks
    <2>2. <<>> \in Seq(TableRows) /\ None \in Cursors
      BY DEF Cursors
    <2> QED
      BY <1>2, <2>1, <2>2 DEF Walks
  <1>5. lines' \in [TableRows -> LineData] /\ elements' \in [TableRows -> ElementData]
    BY DEF TypeOK, Change
  <1>6. TypeOK'
    BY <1>2, <1>4, <1>5 DEF TypeOK
  <1>7. WalkInv'
    BY <1>1, <1>2, <1>4 DEF WalkInv
  <1> QED
    BY <1>6, <1>7

-----------------------------------------------------------------------------
(* The ranked answers *)

\* An answer lists the worst rows of those that it is about, counts them all, and
\* says when it leaves one out.
IsRight(S, key) ==
    /\ Matching = S
    /\ \A r \in S : LoadingOf(r) = key[r]
    /\ Worst(answer.rows, S, key)
    /\ answer.matched = Cardinality(S)
    /\ answer.study # "security" => (answer.truncated <=> Range(answer.rows) # S)
    /\ answer.query.artifact => Range(answer.rows) = S

RightAnswer == answer # NoAnswer => \E S : \E key : IsRight(S, key)

LEMMA RightAnswerLemma ==
    ASSUME RightAnswer
    PROVE  OverloadsAreCounted /\ WorstAreListed
  <1> SUFFICES ASSUME answer # NoAnswer PROVE OverloadsAreCounted /\ WorstAreListed
    BY DEF OverloadsAreCounted, WorstAreListed
  <1>1. PICK S : \E key : IsRight(S, key)
    BY DEF RightAnswer
  <1>2. PICK key : IsRight(S, key)
    BY <1>1
  <1>3. /\ Matching = S /\ \A r \in S : LoadingOf(r) = key[r]
        /\ Worst(answer.rows, S, key)
        /\ answer.matched = Cardinality(S)
        /\ answer.study # "security" => (answer.truncated <=> Range(answer.rows) # S)
        /\ answer.query.artifact => Range(answer.rows) = S
    BY <1>2 DEF IsRight
  <1>4. OverloadsAreCounted
    BY <1>3 DEF OverloadsAreCounted
  <1>5. ASSUME NEW i \in DOMAIN answer.rows
        PROVE  answer.rows[i] \in S
    BY <1>3 DEF Worst, Range
  <1>6. \A i, j \in DOMAIN answer.rows :
           i < j => LoadingOf(answer.rows[i]) >= LoadingOf(answer.rows[j])
    BY <1>3, <1>5 DEF Worst
  <1>7. \A i \in DOMAIN answer.rows, r \in Matching \ Range(answer.rows) :
           LoadingOf(answer.rows[i]) >= LoadingOf(r)
    BY <1>3, <1>5 DEF Worst
  <1>8. WorstAreListed
    BY <1>3, <1>6, <1>7 DEF WorstAreListed, Worst
  <1> QED
    BY <1>4, <1>8

\* What an answer has to be for that.
LEMMA ToldLemma ==
    ASSUME TypeOK, NEW study \in {"n", "n1", "security"}, NEW query, NEW rows, NEW matched \in Nat,
           Told(study, query, rows, matched)
    PROVE  /\ TypeOK' /\ WalkInv'
           /\ lines' = lines /\ elements' = elements
           /\ answer' = [study |-> study, query |-> query, rows |-> rows, matched |-> matched,
                         truncated |-> Len(rows) < matched]
           /\ \A S : \A key :
                 /\ Matching' = S /\ \A r \in S : LoadingOf(r)' = key[r]
                 /\ Worst(rows, S, key)
                 /\ matched = Cardinality(S)
                 /\ study # "security" => (Len(rows) < matched <=> Range(rows) # S)
                 /\ query.artifact => Range(rows) = S
                 => RightAnswer'
  <1>1. /\ answer' = [study |-> study, query |-> query, rows |-> rows, matched |-> matched,
                      truncated |-> Len(rows) < matched]
        /\ walk' = walk /\ walk = NoWalk /\ lines' = lines /\ elements' = elements
    BY DEF Told
  <1>2. TypeOK'
    BY <1>1 DEF TypeOK
  <1>3. WalkInv'
    BY <1>1 DEF WalkInv
  <1>4. ASSUME NEW S, NEW key,
               Matching' = S, \A r \in S : LoadingOf(r)' = key[r],
               Worst(rows, S, key), matched = Cardinality(S),
               study # "security" => (Len(rows) < matched <=> Range(rows) # S),
               query.artifact => Range(rows) = S
        PROVE  RightAnswer'
    <2>1. IsRight(S, key)'
      BY <1>1, <1>4 DEF IsRight
    <2> QED
      BY <2>1 DEF RightAnswer
  <1> QED
    BY <1>1, <1>2, <1>3, <1>4

\* study="n" is right about the lines above the threshold.
LEMMA NormalOperationLemma ==
    ASSUME TypeOK, NEW threshold \in {10, 100}, NEW kind \in {"permanent", "temporary"},
           NEW artifact \in BOOLEAN,
           OverloadedInNormalOperation(threshold, kind, artifact)
    PROVE  TypeOK' /\ WalkInv' /\ RightAnswer'
  <1> DEFINE key == [i \in TableRows |-> LoadingPercent(lines[i], kind)]
             S == {i \in TableRows : LoadingPercent(lines[i], kind) > threshold}
             list == InOrder(S, Descending(key, TableOrder))
             query == [threshold |-> threshold, limit_kind |-> kind, artifact |-> artifact]
             first == FilteredPage("gt", threshold, kind, DefaultLimit, None)
             all == WalkPages(threshold, kind, MaxLimit)
  <1>1. Network
    BY DEF TypeOK, Network
  <1>2. key \in [TableRows -> Int] /\ S \in SUBSET TableRows /\ IsFiniteSet(S)
    <2>1. IsFiniteSet(S)
      BY TableLemma, FS_Subset
    <2> QED
      BY <1>1, <2>1, LoadingLemma
  <1>3. ApplyElementFilter("gt", threshold, kind) = list
    <2>1. S = {i \in TableRows : key[i] # Missing /\ Compare(key[i], "gt", threshold)}
      <3>1. \A i \in TableRows : LoadingPercent(lines[i], kind) \in Int
        BY <1>1, LoadingLemma
      <3>2. \A i \in TableRows : key[i] = LoadingPercent(lines[i], kind)
        OBVIOUS
      <3> HIDE DEF key
      <3> QED
        BY <3>1, <3>2 DEF Compare, Missing
    <2> HIDE DEF S
    <2> QED
      BY <2>1 DEF ApplyElementFilter
  <1> HIDE DEF key, S, list
  <1>4. DefaultLimit \in Nat \ {0} /\ DefaultLimit \in Int /\ MaxLimit \in Int
        /\ DefaultLimit # None /\ MaxLimit # None
    BY LimitsAssumption, MarksAssumption
  <1>5. /\ list \in Seq(S) /\ Len(list) = Cardinality(S) /\ Cardinality(S) \in Nat
        /\ Worst(list, S, key) /\ Range(list) = S
        /\ Worst(Cut(list, DefaultLimit), S, key)
        /\ Len(Cut(list, DefaultLimit)) < Cardinality(S)
           <=> Range(Cut(list, DefaultLimit)) # S
    BY <1>2, <1>4, TableLemma, WorstLemma DEF list
  <1>6. first.items = Cut(list, DefaultLimit) /\ first.total = Len(list)
    <2>1. first = Paginate(list, DefaultLimit, None)
      BY <1>3, <1>4 DEF FilteredPage
    <2>2. ClampLimit(DefaultLimit) = DefaultLimit
      BY LimitsAssumption DEF ClampLimit
    <2>3. ParseCursor(None) = 0
      BY DEF ParseCursor
    <2> QED
      BY <1>4, <2>1, <2>2, <2>3, MarksAssumption DEF Paginate, Cut
  <1>7. all = list
    <2> DEFINE page == [c \in 0 .. Rows |-> FilteredPage("gt", threshold, kind, MaxLimit, c)]
    <2>1. list \in Seq(TableRows) /\ Len(list) <= Rows
      BY <1>1, <1>3, ListsLemma
    <2>2. ASSUME NEW c \in 0 .. Rows
          PROVE  /\ page[c].nextCursor = None
                    => page[c].items = SubSeq(list, c + 1, Len(list))
                 /\ page[c].nextCursor # None =>
                       /\ page[c].nextCursor \in c + 1 .. Len(list) - 1
                       /\ page[c].items = SubSeq(list, c + 1, page[c].nextCursor)
      <3>1. c \in Int \cup {None} /\ c \in Nat
        BY RowsAssumption
      <3>2. ParseCursor(c) = c
        BY <3>1, ParseLemma
      <3>3. page[c] = Paginate(list, MaxLimit, c)
        BY <1>3, <1>4 DEF FilteredPage
      <3> HIDE DEF page
      <3>4. LET one == Paginate(list, MaxLimit, c)
                offset == ParseCursor(c)
                next == one.nextCursor
            IN  /\ next = None => one.items = SubSeq(list, offset + 1, Len(list))
                /\ next # None =>
                      /\ next \in offset + 1 .. Len(list) - 1
                      /\ one.items = SubSeq(list, offset + 1, next)
                /\ Len(one.items) <= MaxLimit
        BY <1>4, <2>1, <3>1, PageIsExact
      <3> QED
        BY <3>2, <3>3, <3>4
    <2>3. all = Loop(page, Rows)
      BY DEF WalkPages, Loop
    <2> HIDE DEF page, all
    <2>4. Rows \in Nat
      BY RowsAssumption
    <2> QED
      BY <2>1, <2>2, <2>3, <2>4, AllPagesLemma
  <1> HIDE DEF first, all
  <1>8. ASSUME NEW rows, NEW matched, Told("n", query, rows, matched), matched = Cardinality(S),
               Worst(rows, S, key), Len(rows) < matched <=> Range(rows) # S,
               artifact => Range(rows) = S
        PROVE  TypeOK' /\ WalkInv' /\ RightAnswer'
    <2>1. query.artifact = artifact /\ matched \in Nat
      BY <1>5, <1>8
    <2>2. /\ TypeOK' /\ WalkInv' /\ lines' = lines /\ elements' = elements
          /\ answer' = [study |-> "n", query |-> query, rows |-> rows, matched |-> matched,
                        truncated |-> Len(rows) < matched]
      BY <1>8, <2>1, ToldLemma
    <2>3. /\ answer'.study = "n" /\ answer'.query.limit_kind = kind
          /\ answer'.query.threshold = threshold
      BY <2>2
    <2>4. Matching' = S
      BY <2>2, <2>3 DEF Matching, S
    <2>5. \A r \in S : LoadingOf(r)' = key[r]
      BY <1>2, <2>2, <2>3 DEF LoadingOf, key
    <2> HIDE DEF query
    <2>6. RightAnswer'
      BY <1>8, <2>1, <2>4, <2>5, ToldLemma
    <2> QED
      BY <2>2, <2>6
  <1>9. CASE artifact
    <2>1. Told("n", query, all, Len(all))
      BY <1>9 DEF OverloadedInNormalOperation, ArtifactResponse, query, all
    <2>2. Len(all) = Cardinality(S) /\ (Len(all) < Len(all) <=> Range(all) # S)
      BY <1>5, <1>7
    <2> HIDE DEF query
    <2> QED
      BY <1>5, <1>7, <1>8, <1>9, <2>1, <2>2
  <1>10. CASE ~artifact
    <2>1. Told("n", query, first.items, first.total)
      BY <1>10 DEF OverloadedInNormalOperation, query, first
    <2> HIDE DEF query
    <2> QED
      BY <1>5, <1>6, <1>8, <1>10, <2>1
  <1> QED
    BY <1>9, <1>10

\* Ranking contingencies loses none of their violations.
LEMMA FlatLemma ==
    ASSUME Network, NEW contingencies \in Seq(TableRows), NEW limit_type,
           NEW ranked,
           Range(ranked) = Range(RankedContingencies(contingencies, limit_type))
    PROVE  ViolationsOfAll(ranked, limit_type) =
              {r \in AllViolations :
                  /\ r[1] \in Range(contingencies)
                  /\ limit_type # None
                     => elements[r[1]].violations[r[2]].limit_type = limit_type}
  <1> DEFINE Fits(r) == limit_type # None
                        => elements[r[1]].violations[r[2]].limit_type = limit_type
  <1>1. Range(ranked) = {i \in Range(contingencies) : ViolationsOf(i, limit_type) # {}}
    BY ListsLemma
  <1>2. \A r, i : r \in ViolationsOf(i, limit_type)
                  <=> r \in AllViolations /\ r[1] = i /\ Fits(r)
    <2> SUFFICES ASSUME NEW r, NEW i
                 PROVE  r \in ViolationsOf(i, limit_type)
                        <=> r \in AllViolations /\ r[1] = i /\ Fits(r)
      OBVIOUS
    <2>1. r \in ViolationsOf(i, limit_type)
          <=> /\ r \in AllViolations
              /\ r[1] = i
              /\ limit_type # None => elements[i].violations[r[2]].limit_type = limit_type
      BY DEF ViolationsOf
    <2> QED
      BY <2>1
  <1>3. \A r : r \in ViolationsOfAll(ranked, limit_type)
               <=> \E i \in Range(ranked) : r \in ViolationsOf(i, limit_type)
    BY DEF ViolationsOfAll
  <1> HIDE DEF Fits
  <1>4. \A r : r \in ViolationsOfAll(ranked, limit_type)
               <=> r \in AllViolations /\ r[1] \in Range(contingencies) /\ Fits(r)
    BY <1>1, <1>2, <1>3
  <1>5. ViolationsOfAll(ranked, limit_type) =
           {r \in AllViolations : r[1] \in Range(contingencies) /\ Fits(r)}
    BY <1>4
  <1> QED
    BY <1>5 DEF Fits

\* study="n1" is right about the currents above the threshold, as long as there are
\* no more contingencies than the details it asks for.
LEMMA AfterContingenciesLemma ==
    ASSUME TypeOK, NEW threshold \in {10, 100}, NEW low \in {None, 2}, NEW artifact \in BOOLEAN,
           OverloadedAfterContingencies(threshold, low, artifact)
    PROVE  TypeOK' /\ WalkInv' /\ (Rows <= NoDetailLimit => RightAnswer')
  <1> DEFINE key == [r \in AllViolations |-> RowLoading(r)]
             contingencies == ContingenciesFromFilter(low, None)
             ranked == RankedContingencies(contingencies, "CURRENT")
             details == Details(contingencies, "CURRENT", NoDetailLimit)
             S == {r \in ViolationsOfAll(details, "CURRENT") :
                      RowLoading(r) # Missing /\ RowLoading(r) > threshold}
             over == InOrder(S, ByLoading("CURRENT"))
             rows == IF artifact THEN over ELSE Cut(over, DefaultLimit)
             query == [threshold |-> threshold, low |-> low, artifact |-> artifact]
  <1>1. Network
    BY DEF TypeOK, Network
  <1>2. DefaultLimit \in Nat \ {0} /\ NoDetailLimit \in Nat \ {0} /\ Rows \in Nat
    BY LimitsAssumption, RowsAssumption DEF NoDetailLimit
  <1>3. Told("n1", query, rows, Len(over))
    BY DEF OverloadedAfterContingencies, ArtifactResponse
  <1>4. key \in [AllViolations -> Int] /\ S \in SUBSET AllViolations /\ IsFiniteSet(S)
    <2>1. ViolationsOfAll(details, "CURRENT") \subseteq AllViolations
      BY DEF ViolationsOfAll, ViolationsOf
    <2>2. S \in SUBSET AllViolations
      BY <2>1
    <2> HIDE DEF S
    <2> QED
      BY <1>1, <2>2, ViolationsLemma, FS_Subset
  <1>5. over = InOrder(S, Descending(key, OneAfterAnother("CURRENT")))
    BY DEF ByLoading
  <1>6. /\ contingencies \in Seq(TableRows)
        /\ Range(contingencies) = {i \in TableRows :
              /\ low # None => NominalVoltage(elements[i]) >= low
              /\ None # None => NominalVoltage(elements[i]) <= None}
    BY <1>1, ListsLemma
  <1> HIDE DEF key, S, over, contingencies
  <1>7. /\ over \in Seq(S) /\ Len(over) = Cardinality(S) /\ Cardinality(S) \in Nat
        /\ Worst(over, S, key) /\ Range(over) = S
        /\ Worst(Cut(over, DefaultLimit), S, key)
        /\ Len(Cut(over, DefaultLimit)) < Cardinality(S)
           <=> Range(Cut(over, DefaultLimit)) # S
    BY <1>1, <1>2, <1>4, <1>5, OrdersLemma, WorstLemma
  <1>8. /\ Worst(rows, S, key)
        /\ Len(rows) < Len(over) <=> Range(rows) # S
        /\ artifact => Range(rows) = S
    BY <1>7
  <1> HIDE DEF rows
  <1>9. /\ TypeOK' /\ WalkInv' /\ lines' = lines /\ elements' = elements
        /\ answer' = [study |-> "n1", query |-> query, rows |-> rows, matched |-> Len(over),
                      truncated |-> Len(rows) < Len(over)]
    BY <1>3, <1>7, ToldLemma
  <1>10. ASSUME Rows <= NoDetailLimit PROVE RightAnswer'
    <2>1. ranked \in Seq(TableRows) /\ Len(ranked) <= Rows
      BY <1>1, <1>6, ListsLemma
    <2>2. details = Cut(ranked, NoDetailLimit)
      BY DEF Details
    <2> HIDE DEF ranked, details
    <2>3. Len(ranked) \in Nat /\ Len(ranked) <= NoDetailLimit
      BY <1>2, <1>10, <2>1
    <2>4. /\ details \in Seq(TableRows) /\ Len(details) = Len(ranked)
          /\ \A i \in 1 .. Len(details) : details[i] = ranked[i]
      BY <1>2, <2>1, <2>2, <2>3, CutLemma
    <2>5. Range(details) = Range(ranked)
      BY <2>1, <2>4 DEF Range
    <2>6. ViolationsOfAll(details, "CURRENT") =
             {r \in AllViolations :
                 /\ r[1] \in Range(contingencies)
                 /\ "CURRENT" # None => elements[r[1]].violations[r[2]].limit_type = "CURRENT"}
      BY <1>1, <1>6, <2>5, FlatLemma DEF ranked
    <2> DEFINE Within(r) == low # None => \E s \in 1 .. 2 : elements[r[1]].sides[s] >= low
    <2>7. ASSUME NEW r \in AllViolations
          PROVE  r[1] \in Range(contingencies) <=> Within(r)
      <3>1. r[1] \in TableRows
        BY <1>1, ViolationsLemma
      <3>2. elements[r[1]].sides[1] \in Nat /\ elements[r[1]].sides[2] \in Nat
        BY <1>1, <3>1, NetworkLemma
      <3>3. ASSUME low # None
            PROVE  NominalVoltage(elements[r[1]]) >= low
                   <=> elements[r[1]].sides[1] >= low \/ elements[r[1]].sides[2] >= low
        BY <3>2, <3>3 DEF NominalVoltage
      <3>4. (\E s \in 1 .. 2 : elements[r[1]].sides[s] >= low)
            <=> elements[r[1]].sides[1] >= low \/ elements[r[1]].sides[2] >= low
        OBVIOUS
      <3> QED
        BY <1>6, <3>1, <3>3, <3>4
    <2>8. \A r \in AllViolations : RowLoading(r) > threshold => RowLoading(r) # Missing
      BY DEF Missing
    <2>9. S = {r \in AllViolations :
                  /\ Within(r)
                  /\ elements[r[1]].violations[r[2]].limit_type = "CURRENT"
                  /\ RowLoading(r) > threshold}
      <3> HIDE DEF Within
      <3> QED
        BY <2>6, <2>7, <2>8, TypesAssumption DEF S
    <2>10. /\ answer'.study = "n1" /\ answer'.query.low = low
           /\ answer'.query.threshold = threshold
      BY <1>9
    <2>11. Matching' = S
      BY <1>9, <2>9, <2>10 DEF Matching, AllViolations, RowLoading
    <2>12. \A r \in S : LoadingOf(r)' = key[r]
      BY <1>4, <1>9, <2>10 DEF LoadingOf, key, RowLoading
    <2>13. query.artifact = artifact /\ Len(over) \in Nat
      BY <1>7
    <2> HIDE DEF query
    <2> QED
      BY <1>3, <1>7, <1>8, <2>11, <2>12, <2>13, ToldLemma
  <1> QED
    BY <1>9, <1>10

\* run_security_analysis is right about the violations.
LEMMA SecurityAnalysisLemma ==
    ASSUME TypeOK, NEW limit_type \in {None, "CURRENT"}, NEW top \in 1 .. Rows,
           NEW artifact \in BOOLEAN,
           RunSecurityAnalysis(limit_type, top, artifact)
    PROVE  TypeOK' /\ WalkInv' /\ RightAnswer'
  <1> DEFINE key == [r \in AllViolations |-> RowLoading(r)]
             ranked == RankedContingencies(Table, limit_type)
             S == {r \in AllViolations :
                      limit_type # None
                      => elements[r[1]].violations[r[2]].limit_type = limit_type}
             all == InOrder(S, ByLoading(limit_type))
             rows == IF artifact THEN all ELSE Cut(all, top)
             query == [limit_type |-> limit_type, top |-> top, artifact |-> artifact]
  <1>1. Network
    BY DEF TypeOK, Network
  <1>2. top \in Nat \ {0} /\ top # None
    BY RowsAssumption, MarksAssumption
  <1>3. ViolationsOfAll(ranked, limit_type) = S
    <2>1. ViolationsOfAll(ranked, limit_type) =
             {r \in AllViolations :
                 /\ r[1] \in Range(Table)
                 /\ limit_type # None
                    => elements[r[1]].violations[r[2]].limit_type = limit_type}
      BY <1>1, TableLemma, FlatLemma
    <2>2. \A r \in AllViolations : r[1] \in Range(Table)
      BY <1>1, TableLemma, ViolationsLemma
    <2> QED
      BY <2>1, <2>2
  <1>4. Flatten(ranked, limit_type, None) = all /\ Flatten(ranked, limit_type, top) = Cut(all, top)
    BY <1>2, <1>3 DEF Flatten
  <1>5. Told("security", query, rows, Len(all))
    BY <1>4 DEF RunSecurityAnalysis, ArtifactResponse
  <1>6. key \in [AllViolations -> Int] /\ S \in SUBSET AllViolations /\ IsFiniteSet(S)
    <2>1. S \in SUBSET AllViolations
      OBVIOUS
    <2> HIDE DEF S
    <2> QED
      BY <1>1, <2>1, ViolationsLemma, FS_Subset
  <1>7. all = InOrder(S, Descending(key, OneAfterAnother(limit_type)))
    BY DEF ByLoading
  <1> HIDE DEF key, S, all
  <1>8. /\ all \in Seq(S) /\ Len(all) = Cardinality(S) /\ Cardinality(S) \in Nat
        /\ Worst(all, S, key) /\ Range(all) = S
        /\ Worst(Cut(all, top), S, key)
    <2>1. Orders(OneAfterAnother(limit_type), AllViolations)
      BY <1>1, OrdersLemma
    <2> DEFINE list == InOrder(S, Descending(key, OneAfterAnother(limit_type)))
    <2>2. /\ list \in Seq(S) /\ Len(list) = Cardinality(S) /\ Cardinality(S) \in Nat
          /\ Worst(list, S, key) /\ Range(list) = S
          /\ Worst(Cut(list, top), S, key)
          /\ Len(Cut(list, top)) < Cardinality(S) <=> Range(Cut(list, top)) # S
      BY <1>2, <1>6, <2>1, WorstLemma
    <2> QED
      BY <1>7, <2>2
  <1>9. Worst(rows, S, key) /\ (artifact => Range(rows) = S)
    BY <1>8
  <1> HIDE DEF rows
  <1>10. /\ TypeOK' /\ WalkInv' /\ lines' = lines /\ elements' = elements
         /\ answer' = [study |-> "security", query |-> query, rows |-> rows,
                       matched |-> Len(all), truncated |-> Len(rows) < Len(all)]
    BY <1>5, <1>8, ToldLemma
  <1>11. answer'.study = "security" /\ answer'.query.limit_type = limit_type
    BY <1>10
  <1>12. Matching' = S
    BY <1>10, <1>11 DEF Matching, AllViolations, S
  <1>13. \A r \in S : LoadingOf(r)' = key[r]
    BY <1>6, <1>10, <1>11 DEF LoadingOf, key, RowLoading
  <1>14. query.artifact = artifact /\ Len(all) \in Nat
    BY <1>8
  <1> HIDE DEF query
  <1>15. RightAnswer'
    BY <1>5, <1>8, <1>9, <1>12, <1>13, <1>14, ToldLemma
  <1> QED
    BY <1>10, <1>15

-----------------------------------------------------------------------------
(* The theorems *)

LEMMA InitLemma ==
    ASSUME Init
    PROVE  TypeOK /\ WalkInv /\ RightAnswer
  <1>1. (CHOOSE d \in LineData : TRUE) \in LineData
        /\ (CHOOSE e \in ElementData : TRUE) \in ElementData
    BY LineAssumption, ElementAssumption
  <1>2. lines \in [TableRows -> LineData] /\ elements \in [TableRows -> ElementData]
    BY <1>1 DEF Init
  <1>3. walk = NoWalk /\ answer = NoAnswer
    BY DEF Init
  <1> QED
    BY <1>2, <1>3 DEF TypeOK, WalkInv, RightAnswer

\* A step of a walk gives no answer but a page.
LEMMA NoAnswerLemma ==
    \/ \E q \in Queries, l \in Limits, c \in Cursors : StartWalk(q, l, c)
    \/ \E l \in Limits : NextPage(l)
    \/ \E l \in Limits : PageOfSummary(l)
    => RightAnswer'
  <1>1. ASSUME answer' = NoAnswer PROVE RightAnswer'
    BY <1>1 DEF RightAnswer
  <1> QED
    BY <1>1 DEF StartWalk, NextPage, PageOfSummary, Asked

LEMMA NextLemma ==
    ASSUME TypeOK, WalkInv, [Next]_vars
    PROVE  /\ TypeOK' /\ WalkInv'
           /\ Rows <= NoDetailLimit /\ RightAnswer => RightAnswer'
  <1>1. CASE \E q \in Queries, l \in Limits, c \in Cursors : StartWalk(q, l, c)
    BY <1>1, StartWalkLemma, NoAnswerLemma
  <1>2. CASE \E l \in Limits : NextPage(l)
    BY <1>2, NextPageLemma, NoAnswerLemma
  <1>3. CASE \E l \in Limits : PageOfSummary(l)
    BY <1>3, PageOfSummaryLemma, NoAnswerLemma
  <1>4. CASE Change
    <2>1. TypeOK' /\ WalkInv'
      BY <1>4, ChangeLemma
    <2>2. answer' = NoAnswer
      BY <1>4 DEF Change, WalkInv, NoWalk
    <2> QED
      BY <2>1, <2>2 DEF RightAnswer
  <1>5. CASE \E t \in {10, 100}, k \in {"permanent", "temporary"}, artifact \in BOOLEAN :
                OverloadedInNormalOperation(t, k, artifact)
    BY <1>5, NormalOperationLemma
  <1>6. CASE \E t \in {10, 100}, low \in {None, 2}, artifact \in BOOLEAN :
                OverloadedAfterContingencies(t, low, artifact)
    BY <1>6, AfterContingenciesLemma
  <1>7. CASE \E l \in {None, "CURRENT"}, top \in 1 .. Rows, artifact \in BOOLEAN :
                RunSecurityAnalysis(l, top, artifact)
    BY <1>7, SecurityAnalysisLemma
  <1>8. CASE UNCHANGED vars
    <2>1. lines' = lines /\ elements' = elements /\ walk' = walk /\ answer' = answer
      BY <1>8 DEF vars
    <2>2. TypeOK'
      BY <2>1 DEF TypeOK
    <2>3. WalkInv'
      <3>1. \A q : AnswerRows(q)' = AnswerRows(q)
        BY <2>1, UnchangedLemma
      <3> QED
        BY <2>1, <3>1 DEF WalkInv
    <2>4. ASSUME RightAnswer, answer' # NoAnswer PROVE RightAnswer'
      <3>1. PICK S : \E key : IsRight(S, key)
        BY <2>1, <2>4 DEF RightAnswer
      <3>2. PICK key : IsRight(S, key)
        BY <3>1
      <3>3. Matching' = Matching
        BY <2>1 DEF Matching, AllViolations, RowLoading
      <3>4. \A r : LoadingOf(r)' = LoadingOf(r)
        BY <2>1 DEF LoadingOf, RowLoading
      <3>5. IsRight(S, key)'
        BY <2>1, <3>2, <3>3, <3>4 DEF IsRight
      <3> QED
        BY <3>5 DEF RightAnswer
    <2>5. answer' = NoAnswer => RightAnswer'
      BY DEF RightAnswer
    <2> QED
      BY <2>2, <2>3, <2>4, <2>5
  <1> QED
    BY <1>1, <1>2, <1>3, <1>4, <1>5, <1>6, <1>7, <1>8 DEF Next

\* The network, the walks and the answers have their types: no call makes a walk
\* with a cursor, a page or a row that does not exist.
THEOREM AnswersTypeCorrect == Spec => []TypeOK
  <1>1. Init => TypeOK /\ WalkInv
    BY InitLemma
  <1>2. TypeOK /\ WalkInv /\ [Next]_vars => (TypeOK /\ WalkInv)'
    BY NextLemma
  <1> QED
    BY <1>1, <1>2, PTL DEF Spec

\* A client that follows nextCursor to its end over a network that stays as it is
\* has every row from where it began, once and in order: for every table, whatever
\* the limits and the page sizes.
THEOREM WalksAreExact == Spec => []WalkIsExact
  <1>1. Init => TypeOK /\ WalkInv
    BY InitLemma
  <1>2. TypeOK /\ WalkInv /\ [Next]_vars => (TypeOK /\ WalkInv)'
    BY NextLemma
  <1>3. TypeOK /\ WalkInv => WalkIsExact
    <2> SUFFICES ASSUME TypeOK, WalkInv, walk.at = "ended", ~walk.changed,
                        walk.start # NotANumber,
                        walk.query.tool \notin {"summary", "run_dc_sensitivity_analysis"}
                 PROVE  LET rows == AnswerRows(walk.query)
                        IN  walk.got = SubSeq(rows, ParseCursor(walk.start) + 1, Len(rows))
      BY DEF WalkIsExact
    <2>1. walk # NoWalk
      BY DEF NoWalk
    <2>2. walk.query \in Queries \cup {Summary}
      BY <2>1 DEF TypeOK, Walks
    <2>3. walk.query \in Queries
      BY <2>2 DEF Summary
    <2> QED
      BY <2>1, <2>3 DEF WalkInv
  <1> QED
    BY <1>1, <1>2, <1>3, PTL DEF Spec

\* Following nextCursor comes to an end, after as many pages as the table has rows
\* at most, although the network may change under the cursor.
THEOREM WalksComeToAnEnd == Spec => []WalksEnd
  <1>1. Init => TypeOK /\ WalkInv
    BY InitLemma
  <1>2. TypeOK /\ WalkInv /\ [Next]_vars => (TypeOK /\ WalkInv)'
    BY NextLemma
  <1>3. WalkInv => WalksEnd
    BY DEF WalkInv, WalksEnd
  <1> QED
    BY <1>1, <1>2, <1>3, PTL DEF Spec

\* matched_count and total_violations count what is really there, and an answer
\* that leaves one out says so; for a table of no more than the million contingencies
\* that study="n1" asks the details of, beyond which it would count those only.
THEOREM OverloadsCounted ==
    ASSUME Rows <= NoDetailLimit
    PROVE  Spec => []OverloadsAreCounted
  <1>1. Init => TypeOK /\ WalkInv /\ RightAnswer
    BY InitLemma
  <1>2. TypeOK /\ WalkInv /\ RightAnswer /\ [Next]_vars => (TypeOK /\ WalkInv /\ RightAnswer)'
    BY NextLemma
  <1>3. RightAnswer => OverloadsAreCounted
    BY RightAnswerLemma
  <1> QED
    BY <1>1, <1>2, <1>3, PTL DEF Spec

\* The rows of an answer are the worst there are, each once and the most loaded
\* first, and all of them in an artifact; for a table of no more than the million
\* contingencies that study="n1" asks the details of.
THEOREM WorstListed ==
    ASSUME Rows <= NoDetailLimit
    PROVE  Spec => []WorstAreListed
  <1>1. Init => TypeOK /\ WalkInv /\ RightAnswer
    BY InitLemma
  <1>2. TypeOK /\ WalkInv /\ RightAnswer /\ [Next]_vars => (TypeOK /\ WalkInv /\ RightAnswer)'
    BY NextLemma
  <1>3. RightAnswer => WorstAreListed
    BY RightAnswerLemma
  <1> QED
    BY <1>1, <1>2, <1>3, PTL DEF Spec
=============================================================================
