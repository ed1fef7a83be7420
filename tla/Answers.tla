------------------------------- MODULE Answers -------------------------------
(***************************************************************************)
(* The answers that may be too long for one message: tables of elements,   *)
(* contingencies, violations and sensitivities, which the tools filter,    *)
(* rank, cut to their worst rows and page.  A client walks an answer page  *)
(* by page; the network may change between two pages, since every page is  *)
(* worked out anew.  The tools are coroutines without an await, so that    *)
(* each call sees one state of the network.                                *)
(*                                                                         *)
(* The network is reduced to what the answers are made from: a line is its *)
(* current and its limits; an element that can be lost is the voltages it  *)
(* is connected to and the violations its loss leads to.                   *)
(***************************************************************************)
EXTENDS Pagination, FiniteSets, Functions

CONSTANTS
    Rows,          \* how many rows a table has
    LineData,      \* what a line may be, see below
    ElementData    \* what an element that can be lost may be

\* [current, permanent, temporary]: the larger of |i1| and |i2|, or Missing; the
\* permanent limit; the longest temporary one, or Missing.
Missing == -1
ASSUME LineAssumption ==
    /\ LineData # {}
    /\ LineData \subseteq [current : Nat \cup {Missing}, permanent : Nat, temporary : Nat \cup {Missing}]

\* [sides, violations]: the nominal voltages at its ends, 0 when unknown, and the
\* violations after its loss.
Violation == [limit_type : {"CURRENT", "LOW_VOLTAGE"}, value : Nat, limit : Nat]
ASSUME ElementAssumption ==
    /\ ElementData # {}
    /\ ElementData \subseteq [sides : Nat \X Nat, violations : Seq(Violation)]

\* Asking for no limit type is not asking for the currents.
ASSUME TypesAssumption == None # "CURRENT"

ASSUME RowsAssumption == Rows \in Nat \ {0}

VARIABLES
    lines,     \* the table of lines
    elements,  \* the elements that can be lost
    walk,      \* the walk of a client through the pages of an answer, with what it
               \* got as long as the network stays as it is
    answer     \* history: the answer of this step, when it is not a page

vars == <<lines, elements, walk, answer>>

\* The rows of a table, and their order.
TableRows == 1 .. Rows
TableOrder == {p \in TableRows \X TableRows : p[1] < p[2]}
Table == [i \in TableRows |-> i]

\* What a walk asks for; each tool takes its part of it.
Queries ==
    [tool : {"get_network_element_data"}, filter_op : {"gt"}, filter_value : {10},
     limit_kind : {"permanent", "temporary"}]
    \cup [tool : {"get_network_element_data"}, filter_op : {"le"}, filter_value : {100},
          limit_kind : {"permanent", "temporary"}]
    \cup [tool : {"create_contingencies_list"}, min_nominal_voltage : {None, 2},
          max_nominal_voltage : {None, 1}]
    \cup [tool : {"run_security_analysis"}, limit_type : {None, "CURRENT"},
          detail_limit : {1, Rows}]
    \cup [tool : {"run_dc_sensitivity_analysis"}]

Limits == {None, 0, 2, MaxLimit + 1}
Cursors == {None, NotANumber, -1, 1}

Summary == [tool |-> "summary"]

NoWalk == [at |-> "idle"]
NoAnswer == [study |-> "none"]

-----------------------------------------------------------------------------
(* Lists.  No list has a row twice, so that it is the set of its rows and an  *)
(* order of them, a set of pairs.                                             *)

\* The rows of S, each one after those that come before it.
InOrder(S, before) ==
    LET place == [x \in S |-> Cardinality({y \in S : <<y, x>> \in before}) + 1]
    IN  [k \in 1 .. Cardinality(S) |-> CHOOSE x \in S : place[x] = k]

\* sort(key, reverse=True) and sort_values(ascending=False): the greatest first.
\* Equal ones are in the order they have; pandas has another, but always the same,
\* order for them.
Descending(key, before) ==
    {p \in (DOMAIN key) \X (DOMAIN key) :
        key[p[1]] > key[p[2]] \/ (key[p[1]] = key[p[2]] /\ p \in before)}

\* s[:n]
Cut(s, n) == Slice(s, 0, n)

-----------------------------------------------------------------------------
(* Loadings, in percent *)

\* Limits above this one stand for "no limit".
Dummy == 10 ^ 9

\* _loading_and_excess: no loading for a limit of zero or a dummy one.
Loading(value, limit) ==
    IF limit = 0 \/ limit > Dummy THEN Missing ELSE (100 * value) \div limit

\* _select_current_limit: the longest temporary limit, if there is one.
CurrentLimit(line, limit_kind) ==
    IF limit_kind = "temporary" /\ line.temporary # Missing
    THEN line.temporary ELSE line.permanent

\* _loading_percent of a line: missing (NaN) without a current, or with a limit
\* of zero.
LoadingPercent(line, limit_kind) ==
    LET limit == CurrentLimit(line, limit_kind)
    IN  IF line.current = Missing \/ limit = 0 THEN Missing
        ELSE (100 * line.current) \div limit

-----------------------------------------------------------------------------
(* get_network_element_data with mode="filter" *)

Compare(value, op, threshold) ==
    CASE op = "gt" -> value > threshold
      [] op = "le" -> value <= threshold

\* apply_element_filter: rows without the metric go, the rest is ranked.
ApplyElementFilter(op, threshold, limit_kind) ==
    LET metric == [i \in TableRows |-> LoadingPercent(lines[i], limit_kind)]
    IN  InOrder({i \in TableRows : metric[i] # Missing /\ Compare(metric[i], op, threshold)},
                Descending(metric, TableOrder))

\* Without a limit the page has the default size.
FilteredPage(op, threshold, limit_kind, limit, cursor) ==
    Paginate(ApplyElementFilter(op, threshold, limit_kind),
             IF limit = None THEN DefaultLimit ELSE limit, cursor)

-----------------------------------------------------------------------------
(* create_contingencies_list and run_security_analysis *)

\* _element_nominal_voltage: the side with the highest voltage.
NominalVoltage(e) ==
    IF e.sides[1] > e.sides[2] THEN e.sides[1] ELSE e.sides[2]

\* _build_contingencies_from_filter: both bounds are inclusive, each is optional.
ContingenciesFromFilter(low, high) ==
    InOrder({i \in TableRows : /\ low # None => NominalVoltage(elements[i]) >= low
                               /\ high # None => NominalVoltage(elements[i]) <= high},
            TableOrder)

CreateContingenciesList(low, high, limit, cursor) ==
    Paginate(ContingenciesFromFilter(low, high), limit, cursor)

\* The violations after the loss of an element, as rows [element, number].
AllViolations == UNION {{i} \X DOMAIN elements[i].violations : i \in TableRows}

\* Those that the limit type lets through.
ViolationsOf(i, limit_type) ==
    {r \in AllViolations :
        /\ r[1] = i
        /\ limit_type # None => elements[i].violations[r[2]].limit_type = limit_type}

\* Those of several contingencies.
ViolationsOfAll(contingencies, limit_type) ==
    UNION {ViolationsOf(i, limit_type) : i \in Range(contingencies)}

\* The one with most violations first.
ByCount(limit_type) ==
    Descending([i \in TableRows |-> Cardinality(ViolationsOf(i, limit_type))], TableOrder)

\* The contingencies with violations: _compute_ranked_contingencies, and the
\* selection that follows each call.
RankedContingencies(contingencies, limit_type) ==
    InOrder({i \in Range(contingencies) : ViolationsOf(i, limit_type) # {}}, ByCount(limit_type))

RowLoading(row) ==
    LET v == elements[row[1]].violations[row[2]] IN Loading(v.value, v.limit)

\* The violations of one contingency after those of another.
OneAfterAnother(limit_type) ==
    {p \in AllViolations \X AllViolations :
        \/ <<p[1][1], p[2][1]>> \in ByCount(limit_type)
        \/ p[1][1] = p[2][1] /\ p[1][2] < p[2][2]}

\* Most loaded first, those without a loading last.
ByLoading(limit_type) ==
    Descending([r \in AllViolations |-> RowLoading(r)], OneAfterAnother(limit_type))

\* A slip: the list is cut before it is ranked.
FlattenCutting(ranked, limit_type, top) ==
    LET flat == InOrder(ViolationsOfAll(ranked, limit_type), OneAfterAnother(limit_type))
    IN  InOrder(Range(IF top = None THEN flat ELSE Cut(flat, top)), ByLoading(limit_type))

\* _flatten_ranked_violations.
Flatten(ranked, limit_type, top) ==
    LET flat == InOrder(ViolationsOfAll(ranked, limit_type), ByLoading(limit_type))
    IN  IF top = None THEN flat ELSE Cut(flat, top)

\* The contingencies that mode="detail" lists, before they are paged.
Details(contingencies, limit_type, detail_limit) ==
    Cut(RankedContingencies(contingencies, limit_type), detail_limit)

-----------------------------------------------------------------------------
(* Sensitivities *)

\* get_reference_matrix has one row, 'reference_values'.
ReferenceMatrix == <<"reference_values">>

\* _handle_sensitivity_result: both matrices are cut alike, and the pagination
\* block is the reference matrix's.
SensitivityPage(limit, cursor) ==
    [Paginate(ReferenceMatrix, limit, cursor) EXCEPT
        !.items = Paginate(Table, limit, cursor).items]

-----------------------------------------------------------------------------
(* A client's walk *)

\* All the rows the answer to a query is made of.
AnswerRows(q) ==
    CASE q.tool = "get_network_element_data" ->
            ApplyElementFilter(q.filter_op, q.filter_value, q.limit_kind)
      [] q.tool = "create_contingencies_list" ->
            ContingenciesFromFilter(q.min_nominal_voltage, q.max_nominal_voltage)
      [] q.tool = "run_security_analysis" ->
            Details(Table, q.limit_type, q.detail_limit)
      [] q.tool = "run_dc_sensitivity_analysis" -> Table

\* One page of it.
AnswerPage(q, limit, cursor) ==
    CASE q.tool = "get_network_element_data" ->
            FilteredPage(q.filter_op, q.filter_value, q.limit_kind, limit, cursor)
      [] q.tool = "create_contingencies_list" ->
            CreateContingenciesList(q.min_nominal_voltage, q.max_nominal_voltage, limit, cursor)
      [] q.tool = "run_security_analysis" ->
            Paginate(Details(Table, q.limit_type, q.detail_limit), limit, cursor)
      [] q.tool = "run_dc_sensitivity_analysis" -> SensitivityPage(limit, cursor)

Asked(before, page) ==
    /\ walk' = [before EXCEPT
                   !.at = IF page.nextCursor = None THEN "ended" ELSE "next",
                   !.cursor = page.nextCursor,
                   !.limit = page.limit,
                   !.pages = @ + 1,
                   !.got = IF before.changed THEN @ ELSE @ \o page.items]
    /\ answer' = NoAnswer
    /\ UNCHANGED <<lines, elements>>

Begun(q, cursor) ==
    [at |-> "begun", query |-> q, start |-> cursor, cursor |-> cursor, limit |-> None,
     pages |-> 0, got |-> <<>>, changed |-> FALSE]

\* The first page, of any size and from anywhere; without a limit the answer is
\* whole, whatever the cursor.
StartWalk(q, limit, cursor) ==
    /\ walk = NoWalk
    /\ limit = None /\ q.tool # "get_network_element_data" => cursor = None
    /\ Asked(Begun(q, cursor), AnswerPage(q, limit, cursor))

\* The next page, at the cursor the last one named; the client may ask for
\* another size.
NextPage(limit) ==
    /\ walk.at = "next"
    /\ limit # None
    /\ Asked(walk, AnswerPage(walk.query, limit, walk.cursor))

\* A page of mode="summary", which has no list to cut.
PageOfSummary(limit) ==
    /\ walk = NoWalk
    /\ Asked(Begun(Summary, None), NoField(limit))

\* Another call changes the network between two pages.
Change ==
    /\ walk.at = "next"
    /\ walk' = [walk EXCEPT !.changed = TRUE, !.got = <<>>, !.start = None]
    /\ \/ /\ walk.query.tool = "get_network_element_data"
          /\ \E i \in TableRows, d \in LineData : lines' = [lines EXCEPT ![i] = d]
          /\ UNCHANGED elements
       \/ /\ walk.query.tool \in {"create_contingencies_list", "run_security_analysis"}
          /\ \E i \in TableRows, d \in ElementData : elements' = [elements EXCEPT ![i] = d]
          /\ UNCHANGED lines
    /\ UNCHANGED answer

-----------------------------------------------------------------------------
(* get_overloaded_elements, and the ranking of run_security_analysis *)

\* _inline_overloaded_answer.
Told(study, query, rows, matched) ==
    /\ walk = NoWalk
    /\ answer' = [study |-> study, query |-> query, rows |-> rows, matched |-> matched,
                  truncated |-> Len(rows) < matched]
    /\ UNCHANGED <<lines, elements, walk>>

\* artifact_response: the rows go to a file, all of them.
ArtifactResponse(study, query, rows) == Told(study, query, rows, Len(rows))

\* A slip: an artifact holds the first page only, as an inline answer does.
WalkFirstPage(threshold, limit_kind, limit) ==
    FilteredPage("gt", threshold, limit_kind, limit, None).items

\* The loop over the pages: up to the last one, or a cursor that does not move.
WalkPages(threshold, limit_kind, limit) ==
    LET page[c \in 0 .. Rows] == FilteredPage("gt", threshold, limit_kind, limit, c)
        from[c \in 0 .. Rows] ==
            page[c].items \o (IF page[c].nextCursor \in {None, c} THEN <<>>
                              ELSE from[page[c].nextCursor])
    IN  from[0]

\* study="n": the first page of the filtered lines, or all pages.
OverloadedInNormalOperation(threshold, limit_kind, artifact) ==
    LET first == FilteredPage("gt", threshold, limit_kind, DefaultLimit, None)
        all   == WalkPages(threshold, limit_kind, MaxLimit)
        query == [threshold |-> threshold, limit_kind |-> limit_kind, artifact |-> artifact]
    IN  IF artifact THEN ArtifactResponse("n", query, all)
        ELSE Told("n", query, first.items, first.total)

\* The detail_limit that study="n1" asks for, to get all details.
NoDetailLimit == 1000000

\* study="n1": the contingencies of create_contingencies_list, the detailed answer
\* of run_security_analysis without a page size, and of it the current violations
\* above the threshold.
OverloadedAfterContingencies(threshold, low, artifact) ==
    LET details == Details(ContingenciesFromFilter(low, None), "CURRENT", NoDetailLimit)
        over == InOrder({r \in ViolationsOfAll(details, "CURRENT") :
                            RowLoading(r) # Missing /\ RowLoading(r) > threshold},
                        ByLoading("CURRENT"))
        query == [threshold |-> threshold, low |-> low, artifact |-> artifact]
    IN  IF artifact THEN ArtifactResponse("n1", query, over)
        ELSE Told("n1", query, Cut(over, DefaultLimit), Len(over))

\* run_security_analysis: ranked_violations, with total_violations.
RunSecurityAnalysis(limit_type, top, artifact) ==
    LET ranked == RankedContingencies(Table, limit_type)
        all == Flatten(ranked, limit_type, None)
        query == [limit_type |-> limit_type, top |-> top, artifact |-> artifact]
    IN  IF artifact THEN ArtifactResponse("security", query, all)
        ELSE Told("security", query, Flatten(ranked, limit_type, top), Len(all))

-----------------------------------------------------------------------------
\* No answer is made of both lines and elements: one of them varies.
Init ==
    /\ \/ /\ lines \in [TableRows -> LineData]
          /\ elements = [i \in TableRows |-> CHOOSE e \in ElementData : TRUE]
       \/ /\ lines = [i \in TableRows |-> CHOOSE d \in LineData : TRUE]
          /\ elements \in [TableRows -> ElementData]
    /\ walk = NoWalk
    /\ answer = NoAnswer

Next ==
    \/ \E q \in Queries, l \in Limits, c \in Cursors : StartWalk(q, l, c)
    \/ \E l \in Limits : NextPage(l)
    \/ \E l \in Limits : PageOfSummary(l)
    \/ Change
    \/ \E t \in {10, 100}, k \in {"permanent", "temporary"}, artifact \in BOOLEAN :
          OverloadedInNormalOperation(t, k, artifact)
    \/ \E t \in {10, 100}, low \in {None, 2}, artifact \in BOOLEAN :
          OverloadedAfterContingencies(t, low, artifact)
    \/ \E l \in {None, "CURRENT"}, top \in 1 .. Rows, artifact \in BOOLEAN :
          RunSecurityAnalysis(l, top, artifact)

Spec == Init /\ [][Next]_vars

Walks ==
    [at : {"next", "ended"}, query : Queries \cup {Summary}, start : Cursors,
     cursor : Nat \cup {None}, limit : 1 .. MaxLimit \cup {None}, pages : Nat,
     got : Seq(TableRows), changed : BOOLEAN]

TypeOK ==
    /\ lines \in [TableRows -> LineData]
    /\ elements \in [TableRows -> ElementData]
    /\ walk \in {NoWalk} \cup Walks
    /\ answer # NoAnswer =>
          /\ answer.study \in {"n", "n1", "security"}
          /\ answer.matched \in Nat
          /\ answer.truncated \in BOOLEAN

-----------------------------------------------------------------------------
(* Properties of the walks *)

\* A client that follows nextCursor to its end over a network that stays as it is
\* has every row from where it began, once and in order, whatever page sizes it
\* asks for on the way.
WalkIsExact ==
    walk.at = "ended" /\ ~walk.changed /\ walk.start # NotANumber
       /\ walk.query.tool \notin {"summary", "run_dc_sensitivity_analysis"}
    => LET rows == AnswerRows(walk.query)
       IN  walk.got = SubSeq(rows, ParseCursor(walk.start) + 1, Len(rows))

\* Following nextCursor comes to an end, after as many pages as the table has rows
\* at most, although the table may shrink, grow and be ranked anew under the
\* cursor.
WalksEnd == walk # NoWalk => walk.pages <= Rows

-----------------------------------------------------------------------------
(* Properties of the ranked answers *)

\* What an answer is about, straight from the network.
Matching ==
    LET Type(r) == elements[r[1]].violations[r[2]].limit_type
        q == answer.query
    IN  CASE answer.study = "n" ->
                {i \in TableRows : LoadingPercent(lines[i], q.limit_kind) > q.threshold}
          [] answer.study = "n1" ->
                {r \in AllViolations :
                    /\ q.low # None => \E s \in 1 .. 2 : elements[r[1]].sides[s] >= q.low
                    /\ Type(r) = "CURRENT"
                    /\ RowLoading(r) > q.threshold}
          [] answer.study = "security" ->
                {r \in AllViolations : q.limit_type # None => Type(r) = q.limit_type}

LoadingOf(row) ==
    IF answer.study = "n" THEN LoadingPercent(lines[row], answer.query.limit_kind)
    ELSE RowLoading(row)

\* matched_count and total_violations count what is really there, also when the
\* answer lists less, and "a cut that is not reported reads as 'these are all of
\* them'" (security_tools.py:89-90): an answer that leaves one out says so.
OverloadsAreCounted ==
    answer # NoAnswer =>
       /\ answer.matched = Cardinality(Matching)
       /\ answer.study # "security" => (answer.truncated <=> Range(answer.rows) # Matching)

\* What is listed is the worst there is: each row once, none that should not be
\* there, the most loaded first, and none left out that is more loaded; an
\* artifact leaves none out.
WorstAreListed ==
    answer # NoAnswer =>
       /\ IsInjective(answer.rows)
       /\ Range(answer.rows) \subseteq Matching
       /\ \A i, j \in DOMAIN answer.rows :
             i < j => LoadingOf(answer.rows[i]) >= LoadingOf(answer.rows[j])
       /\ \A i \in DOMAIN answer.rows, r \in Matching \ Range(answer.rows) :
             LoadingOf(answer.rows[i]) >= LoadingOf(r)
       /\ answer.query.artifact => Range(answer.rows) = Matching

-----------------------------------------------------------------------------
(* What the documentation says and the code does not do *)

\* "which cursor to pass on the next call - or None when there is no next page"
\* (pagination.py:64-65): who follows the cursors of a sensitivity analysis to the
\* end has seen its whole matrix.
SensitivityWalkIsWhole ==
    walk.at = "ended" /\ walk.query.tool = "run_dc_sensitivity_analysis"
       /\ walk.start = None
    => walk.got = Table
=============================================================================
