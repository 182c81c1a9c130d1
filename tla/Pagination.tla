----------------------------- MODULE Pagination -----------------------------
(***************************************************************************)
(* Cursor and offset pagination of database/pagination.py over a table     *)
(* that other transactions change between the requests.  A client walks    *)
(* through a result page by page with signed cursors, and may come back    *)
(* with another sort order or another query, or it asks for a page by      *)
(* offset, whose count and rows are two statements.  Clients only read, so *)
(* one of them is enough.                                                  *)
(* Signatures are taken to be unforgeable: a cursor is one a page returned.*)
(***************************************************************************)
EXTENDS Sorting, FiniteSets

CONSTANTS
    Rows,           \* rows the table may hold; their tie-breaker is a key
    Queries,        \* query fingerprints
    Matches(_, _),  \* does a row satisfy a query
    SortRequests,   \* sequences of SortTerm clients ask for
    LegacyColumns,  \* order columns of walks with two-column cursors
    Limits,         \* page sizes
    MaxPages,       \* bound: pages of a walk
    MaxPage,        \* bound: number of a page asked for by offset
    MaxChanges      \* bound: changes of the table

ASSUME PaginationAssumption ==
    /\ Rows \subseteq Row /\ IsFiniteSet(Rows)
    /\ LegacyColumns \subseteq Fields \ Nullable
    /\ Limits \subseteq 1..500
    /\ MaxPages \in Nat /\ MaxPage \in Nat /\ MaxChanges \in Nat
    /\ \A terms \in SortRequests : terms \in Seq(SortTerm)

VARIABLES
    table,      \* committed rows
    walk,       \* the cursor walk
    offset,     \* the offset request
    changes     \* changes so far

vars == <<table, walk, offset, changes>>

-----------------------------------------------------------------------------
(* Requests and pages.                                                      *)

\* What a client asks for: version 2 is a sort plan, version 1 the legacy
\* pair of columns, whose NULLs come where PostgreSQL puts them by default.
SortedRequests ==
    {[version |-> 2, plan |-> Resolve(terms), query |-> q] :
        terms \in {t \in SortRequests : Resolvable(t)}, q \in Queries}

LegacyPlan(column, direction) ==
    [i \in 1..2 |-> [field |-> IF i = 1 THEN column ELSE TieBreaker,
                     direction |-> direction,
                     nulls |-> IF direction = "desc" THEN "first" ELSE "last"]]

LegacyRequests ==
    {[version |-> 1, plan |-> LegacyPlan(c, d), query |-> q] :
        c \in LegacyColumns, d \in Direction, q \in Queries}

Requests == SortedRequests \cup LegacyRequests

\* Column values are written as JSON and read back by the type of the column;
\* only None is itself.
Serialize(values) ==
    [i \in DOMAIN values |-> IF values[i] = Null THEN Null ELSE [json |-> values[i]]]

Coerce(values) ==
    [i \in DOMAIN values |-> IF values[i] = Null THEN Null ELSE values[i].json]

\* The payload of next_cursor: the sort columns of a row, the fingerprints of
\* the sort plan and the query.
CursorOf(request, r) ==
    [version |-> request.version, sort |-> Fingerprint(request.plan),
     query |-> request.query, values |-> Serialize(ValuesFrom(request.plan, r))]

\* None is not a cursor, nor a JSON text.
ASSUME NullAssumption ==
    /\ \A request \in Requests, r \in Rows : CursorOf(request, r) # Null
    /\ \A r \in Rows, f \in Fields : [json |-> r[f]] # Null

\* Mutant: the query fingerprint is not compared.
Accepts_AnyQuery(request, cursor) ==
    /\ cursor.version = request.version
    /\ request.version = 2 => cursor.sort = Fingerprint(request.plan)

\* The checks on a decoded cursor; a legacy cursor carries only values.
Accepts(request, cursor) ==
    /\ cursor.version = request.version
    /\ request.version = 2 =>
          cursor.sort = Fingerprint(request.plan) /\ cursor.query = request.query

\* Mutant: the tie-breaker is compared on its own.
LegacyBoundary_Columns(plan, values, row) ==
    LET x == row[plan[1].field]
        t == row[plan[2].field]
    IN  IF plan[1].direction = "desc"
        THEN LessSQL(x, values[1]) \/ LessSQL(t, values[2])
        ELSE LessSQL(values[1], x) \/ LessSQL(values[2], t)

\* Row comparison of _prepare_legacy_query.
LegacyBoundary(plan, values, row) ==
    LET x == row[plan[1].field]
        t == row[plan[2].field]
    IN  IF plan[1].direction = "desc"
        THEN LessSQL(x, values[1]) \/ (Equality(x, values[1]) /\ LessSQL(t, values[2]))
        ELSE LessSQL(values[1], x) \/ (Equality(x, values[1]) /\ LessSQL(values[2], t))

\* The WHERE clause of the page query.
Selected(request, cursor) ==
    {r \in table :
        /\ Matches(request.query, r)
        /\ cursor # Null =>
              LET values == Coerce(cursor.values)
              IN  IF request.version = 2 THEN Boundary(request.plan, values, r)
                                         ELSE LegacyBoundary(request.plan, values, r)}

\* The first n rows of S; ties are broken arbitrarily.
FirstRows(plan, S, n) ==
    {P \in SUBSET S :
        /\ Cardinality(P) <= n
        /\ P # S => Cardinality(P) = n
        /\ \A r \in P, s \in S \ P : ~Precedes(plan, s, r)}

\* The last row of a page.
LastRows(plan, P) == {r \in P : \A s \in P : ~Precedes(plan, r, s)}

\* Mutant: the cursor is made from the extra row that tells there is more.
CursorRows_Extra(plan, items, fetched) == LastRows(plan, fetched)

\* The row whose values go into next_cursor.
CursorRows(plan, items, fetched) == LastRows(plan, items)

\* next_cursor: there is one if a row more than the limit was fetched.
NextCursors(request, items, fetched, limit) ==
    IF Cardinality(fetched) > limit
    THEN {CursorOf(request, r) : r \in CursorRows(request.plan, items, fetched)}
    ELSE {Null}

\* The pages a request may be answered with: one row more than the limit is
\* fetched, the items are the first of them.
Pages(request, cursor, limit) ==
    UNION {UNION {{[items |-> items, next |-> next] :
                      next \in NextCursors(request, items, fetched, limit)} :
                  items \in FirstRows(request.plan, fetched, limit)} :
           fetched \in FirstRows(request.plan, Selected(request, cursor), limit + 1)}

-----------------------------------------------------------------------------
NoWalk == [status |-> "idle", request |-> Null, cursor |-> Null, items |-> {},
           seen |-> {}, stable |-> {}, pages |-> 0]

NoOffset == [status |-> "idle", request |-> Null, page |-> 0, limit |-> 0,
             total |-> Null, moved |-> FALSE, has_next |-> FALSE]

\* Any table whose tie-breaker is unique.
Init ==
    /\ table \in {T \in SUBSET Rows :
                     \A r, s \in T : r[TieBreaker] = s[TieBreaker] => r = s}
    /\ walk = NoWalk
    /\ offset = NoOffset
    /\ changes = 0

\* The walk after a page.
Answered(request, page, seen, stable) ==
    [status |-> IF page.next = Null THEN "done" ELSE "open",
     request |-> request, cursor |-> page.next, items |-> page.items,
     seen |-> seen \cup page.items, stable |-> stable, pages |-> walk.pages + 1]

\* The first page, without cursor; from here on the rows of the result that
\* nobody changes are remembered.
FirstPage(request, limit) ==
    /\ walk.status = "idle" /\ offset.status = "idle" /\ walk.pages < MaxPages
    /\ \E page \in Pages(request, Null, limit) :
          walk' = Answered(request, page, {},
                           {r \in table : Matches(request.query, r)})
    /\ UNCHANGED <<table, offset, changes>>

\* A further page with the cursor of the last one; the client of a version 2
\* cursor may have changed its mind about sorting or query.  A legacy cursor
\* names neither, so nothing stops its client from doing so: it must not.
NextPage(request, limit) ==
    /\ walk.status = "open" /\ walk.pages < MaxPages
    /\ request \in SortedRequests \cup {walk.request}
    /\ Accepts(request, walk.cursor)
    /\ \E page \in Pages(request, walk.cursor, limit) :
          walk' = Answered(request, page, walk.seen, walk.stable)
    /\ UNCHANGED <<table, offset, changes>>

\* ValueError: the cursor belongs to another sort order, query or format.
Refuse(request) ==
    /\ walk.status = "open"
    /\ ~Accepts(request, walk.cursor)
    /\ walk' = [walk EXCEPT !.status = "refused", !.cursor = Null]
    /\ UNCHANGED <<table, offset, changes>>

-----------------------------------------------------------------------------
(* Offset pages.                                                            *)

Matching(request) == {r \in table : Matches(request.query, r)}

Ceil(a, b) == (a + b - 1) \div b

\* paginate_offset up to the first statement: the count, if it is asked for.
OffsetCount(request, page, limit, include_total) ==
    /\ walk.status = "idle" /\ offset.status = "idle"
    /\ offset' = [offset EXCEPT
          !.status = "counted", !.request = request, !.page = page, !.limit = limit,
          !.total = IF include_total THEN Cardinality(Matching(request)) ELSE Null]
    /\ UNCHANGED <<table, walk, changes>>

\* Mutant: no extra row is fetched when the total is not counted.
FetchLimit_NoExtra == offset.limit

FetchLimit == IF offset.total = Null THEN offset.limit + 1 ELSE offset.limit

\* OFFSET and LIMIT of the second statement.
Slice(plan, S, from, n) ==
    {r \in S : Cardinality({s \in S : Precedes(plan, s, r)}) \in from..(from + n - 1)}

OffsetFetch ==
    /\ offset.status = "counted"
    /\ LET rows == Slice(offset.request.plan, Matching(offset.request),
                         (offset.page - 1) * offset.limit, FetchLimit)
       IN  offset' = [offset EXCEPT
             !.status = "done",
             !.has_next = IF offset.total # Null
                          THEN offset.page < Ceil(offset.total, offset.limit)
                          ELSE Cardinality(rows) > offset.limit]
    /\ UNCHANGED <<table, walk, changes>>

-----------------------------------------------------------------------------
(* Other transactions.                                                      *)

Change(old, new) ==
    /\ changes < MaxChanges /\ changes' = changes + 1
    /\ table' = (table \ old) \cup new
    /\ walk' = [walk EXCEPT !.stable = @ \ old]
    /\ offset' = [offset EXCEPT !.moved = (offset.status = "counted") \/ @]

Insert(r) ==
    /\ \A s \in table : s[TieBreaker] # r[TieBreaker]
    /\ Change({}, {r})

Remove(r) == r \in table /\ Change({r}, {})

Update(r, s) ==
    /\ r \in table /\ s # r /\ s[TieBreaker] = r[TieBreaker]
    /\ Change({r}, {s})

Next ==
    \/ \E request \in Requests, limit \in Limits : FirstPage(request, limit)
    \/ \E request \in Requests, limit \in Limits : NextPage(request, limit)
    \/ \E request \in Requests : Refuse(request)
    \/ \E request \in SortedRequests, page \in 1..MaxPage, limit \in Limits,
          include_total \in BOOLEAN : OffsetCount(request, page, limit, include_total)
    \/ OffsetFetch
    \/ \E r \in Rows : Insert(r) \/ Remove(r)
    \/ \E r, s \in Rows : Update(r, s)

Spec == Init /\ [][Next]_vars

-----------------------------------------------------------------------------
(* Properties.                                                              *)

\* The table keeps its key; a walk has a cursor exactly while it is open.
TypeOK ==
    /\ table \subseteq Rows
    /\ \A r, s \in table : r[TieBreaker] = s[TieBreaker] => r = s
    /\ walk.status \in {"idle", "open", "done", "refused"}
    /\ (walk.status = "open") <=> (walk.cursor # Null)
    /\ offset.status \in {"idle", "counted", "done"}

\* A finished walk has returned every row that was in the result all the time,
\* however NULLs sort and whatever happened to the rows around it.
NothingSkipped == walk.status = "done" => walk.stable \subseteq walk.seen

\* Pages continue where the last one ended: every row of a further page comes
\* after everything returned so far, also rows that were changed meanwhile; so
\* an unchanged row never comes twice.
PagesInOrder ==
    [][walk.status = "open" /\ walk'.pages > walk.pages =>
          \A r \in walk.seen, s \in walk'.items : Precedes(walk'.request.plan, r, s)]_vars

\* docs/querying.md: "Changing the sort or query invalidates an old cursor
\* instead of silently returning inconsistent results."  What a walk returned
\* satisfies the query of its latest page.
OneQuery ==
    walk.status # "idle" => \A r \in walk.seen : Matches(walk.request.query, r)

\* has_next_page is right, with and without the total, if the table did not
\* change between count and rows.
OffsetNextIsTrue ==
    [][OffsetFetch /\ ~offset.moved =>
          (offset'.has_next <=>
              Cardinality(Matching(offset.request)) > offset.page * offset.limit)]_vars
=============================================================================
