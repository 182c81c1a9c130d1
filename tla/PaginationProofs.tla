-------------------------- MODULE PaginationProofs --------------------------
(***************************************************************************)
(* Cursor walks are complete and in order for every table, every set of    *)
(* sort requests and queries and every page size.  The keyset boundary     *)
(* selects exactly what ORDER BY puts after the cursor, the order of a     *)
(* plan is a strict one that is total on a table, and so each page splits  *)
(* what is left of the result at its last row.  The rows of an offset page *)
(* are those with consecutive ranks in that order.                         *)
(***************************************************************************)
EXTENDS Pagination, FiniteSetTheorems, TLAPS

Plan == Seq(ResolvedTerm)

\* One term: the rows after a cursor value are those ORDER BY puts after it.
LEMMA AfterIsTermBefore ==
    ASSUME NEW term \in ResolvedTerm,
           NEW x \in Int \cup {Null}, NEW v \in Int \cup {Null}
    PROVE  After(term, x, v) <=> TermBefore(term, v, x)
BY RegistryAssumption DEF After, TermBefore, LessSQL, ResolvedTerm, Placement, Direction

\* One term: equality with a cursor value, NULL included, is equality.
LEMMA EqualityIsEqual ==
    ASSUME NEW x \in Int \cup {Null}, NEW v \in Int \cup {Null}
    PROVE  Equality(x, v) <=> x = v
BY DEF Equality

\* The columns of a row are integers or NULL.
LEMMA ColumnValue ==
    ASSUME NEW plan \in Plan, NEW i \in DOMAIN plan, NEW r \in Row
    PROVE  /\ plan[i] \in ResolvedTerm
           /\ plan[i].field \in Fields
           /\ r[plan[i].field] \in Int \cup {Null}
<1>1. plan[i] \in ResolvedTerm
  BY DEF Plan
<1>2. plan[i].field \in Fields
  BY <1>1 DEF ResolvedTerm
<1>3. r \in [Fields -> Int \cup {Null}]
  BY DEF Row
<1> QED BY <1>1, <1>2, <1>3

\* Positions before a position of a plan are positions of it.
LEMMA EarlierPosition ==
    ASSUME NEW plan \in Plan, NEW i \in DOMAIN plan, NEW j \in 1..(i - 1)
    PROVE  j \in DOMAIN plan /\ j \in Nat /\ j < i
BY DEF Plan

\* SortPlan.boundary with the values of a row selects exactly the rows that
\* ORDER BY puts after that row: no row is lost or repeated between two pages,
\* for any columns, directions and null placements.
THEOREM BoundaryIsAfter ==
    ASSUME NEW plan \in Plan, NEW last \in Row, NEW row \in Row
    PROVE  Boundary(plan, ValuesFrom(plan, last), row) <=> Precedes(plan, last, row)
<1> DEFINE v(i) == ValuesFrom(plan, last)[i]
<1>1. \A i \in DOMAIN plan :
         /\ v(i) = last[plan[i].field]
         /\ After(plan[i], row[plan[i].field], v(i))
               <=> TermBefore(plan[i], last[plan[i].field], row[plan[i].field])
         /\ Equality(row[plan[i].field], v(i))
               <=> last[plan[i].field] = row[plan[i].field]
  <2> TAKE i \in DOMAIN plan
  <2>1. v(i) = last[plan[i].field]
    BY DEF ValuesFrom
  <2>2. /\ plan[i] \in ResolvedTerm
        /\ row[plan[i].field] \in Int \cup {Null}
        /\ last[plan[i].field] \in Int \cup {Null}
    BY ColumnValue
  <2> QED BY <2>1, <2>2, AfterIsTermBefore, EqualityIsEqual
<1>2. \A i \in DOMAIN plan : \A j \in 1..(i - 1) : j \in DOMAIN plan
  BY EarlierPosition
<1> QED BY <1>1, <1>2 DEF Boundary, Precedes

\* No row comes before itself.
LEMMA Irreflexive ==
    ASSUME NEW plan \in Plan, NEW r \in Row
    PROVE  ~Precedes(plan, r, r)
<1> SUFFICES ASSUME NEW i \in DOMAIN plan,
                    TermBefore(plan[i], r[plan[i].field], r[plan[i].field])
             PROVE  FALSE
  BY DEF Precedes
<1>1. r[plan[i].field] \in Int \cup {Null}
  BY ColumnValue
<1> QED BY <1>1 DEF TermBefore, LessSQL

\* The order of one term is transitive.
LEMMA TermTransitive ==
    ASSUME NEW term \in ResolvedTerm, NEW x \in Int \cup {Null},
           NEW y \in Int \cup {Null}, NEW z \in Int \cup {Null},
           TermBefore(term, x, y), TermBefore(term, y, z)
    PROVE  TermBefore(term, x, z)
BY RegistryAssumption DEF TermBefore, LessSQL, ResolvedTerm, Placement, Direction

\* The order of a plan is transitive.
LEMMA Transitive ==
    ASSUME NEW plan \in Plan, NEW r \in Row, NEW s \in Row, NEW t \in Row,
           Precedes(plan, r, s), Precedes(plan, s, t)
    PROVE  Precedes(plan, r, t)
<1> DEFINE R(i) == r[plan[i].field]
           S(i) == s[plan[i].field]
           T(i) == t[plan[i].field]
<1>1. PICK i \in DOMAIN plan :
         TermBefore(plan[i], R(i), S(i)) /\ \A j \in 1..(i - 1) : R(j) = S(j)
  BY DEF Precedes
<1>2. PICK k \in DOMAIN plan :
         TermBefore(plan[k], S(k), T(k)) /\ \A j \in 1..(k - 1) : S(j) = T(j)
  BY DEF Precedes
<1>3. i \in Nat /\ k \in Nat /\ i >= 1 /\ k >= 1
  BY DEF Plan
<1>4. CASE i < k
  <2>1. S(i) = T(i)
    BY <1>2, <1>3, <1>4
  <2>2. \A j \in 1..(i - 1) : R(j) = T(j)
    BY <1>1, <1>2, <1>3, <1>4
  <2> QED BY <1>1, <2>1, <2>2 DEF Precedes
<1>5. CASE k < i
  <2>1. R(k) = S(k)
    BY <1>1, <1>3, <1>5
  <2>2. \A j \in 1..(k - 1) : R(j) = T(j)
    BY <1>1, <1>2, <1>3, <1>5
  <2> QED BY <1>2, <2>1, <2>2 DEF Precedes
<1>6. CASE i = k
  <2>1. /\ plan[i] \in ResolvedTerm
        /\ R(i) \in Int \cup {Null}
        /\ S(i) \in Int \cup {Null}
        /\ T(i) \in Int \cup {Null}
    BY ColumnValue
  <2>2. TermBefore(plan[i], R(i), S(i)) /\ TermBefore(plan[i], S(i), T(i))
    BY <1>1, <1>2, <1>6
  <2>4. TermBefore(plan[i], R(i), T(i))
    <3> HIDE DEF R, S, T
    <3> QED BY <2>1, <2>2, TermTransitive
  <2>3. \A j \in 1..(i - 1) : R(j) = T(j)
    BY <1>1, <1>2, <1>6
  <2> QED BY <2>3, <2>4 DEF Precedes
<1> QED BY <1>3, <1>4, <1>5, <1>6

\* A nonempty set of natural numbers has a least element.
LEMMA LeastElement ==
    ASSUME NEW S \in SUBSET Nat, S # {}
    PROVE  \E n \in S : \A m \in S : n <= m
<1> DEFINE R == OpToRel(<, Nat)
<1>1. IsWellFoundedOn(R, Nat)
  BY NatLessThanWellFounded
<1>2. PICK n \in S : \A m \in S : ~(<<m, n>> \in R)
  <2> HIDE DEF R
  <2> QED BY <1>1, WFMin
<1>3. \A m \in S : ~(m < n)
  BY <1>2 DEF OpToRel
<1> QED BY <1>3

\* Two different values of one column are ordered by a term on it.
LEMMA TermTotal ==
    ASSUME NEW term \in ResolvedTerm, NEW x \in Int \cup {Null},
           NEW y \in Int \cup {Null}, x # y
    PROVE  TermBefore(term, x, y) \/ TermBefore(term, y, x)
BY RegistryAssumption DEF TermBefore, LessSQL, ResolvedTerm, Placement, Direction

\* A plan that ends in the tie-breaker orders any two rows that differ there.
LEMMA Total ==
    ASSUME NEW plan \in Plan, TieBreaker \in FieldsOf(plan),
           NEW r \in Row, NEW s \in Row, r[TieBreaker] # s[TieBreaker]
    PROVE  Precedes(plan, r, s) \/ Precedes(plan, s, r)
<1> DEFINE Differ == {i \in DOMAIN plan : r[plan[i].field] # s[plan[i].field]}
<1>1. Differ \in SUBSET Nat /\ Differ # {}
  BY DEF FieldsOf, Plan
<1>2. PICK i \in Differ : \A m \in Differ : i <= m
  <2> HIDE DEF Differ
  <2> QED BY <1>1, LeastElement
<1>3. \A j \in 1..(i - 1) : r[plan[j].field] = s[plan[j].field]
  <2> TAKE j \in 1..(i - 1)
  <2>1. j \in DOMAIN plan /\ j \in Nat /\ i \in Nat /\ j < i
    BY EarlierPosition, <1>1
  <2> QED BY <2>1, <1>2
<1>4. /\ plan[i] \in ResolvedTerm
      /\ r[plan[i].field] \in Int \cup {Null}
      /\ s[plan[i].field] \in Int \cup {Null}
  BY ColumnValue
<1>5. \/ TermBefore(plan[i], r[plan[i].field], s[plan[i].field])
      \/ TermBefore(plan[i], s[plan[i].field], r[plan[i].field])
  BY <1>4, TermTotal
<1> QED BY <1>3, <1>5 DEF Precedes

\* The plans of requests are plans, and end in the tie-breaker or contain it.
LEMMA ResolvedPlan ==
    ASSUME NEW terms \in Seq(SortTerm), terms # <<>>
    PROVE  Resolve(terms) \in Plan /\ TieBreaker \in FieldsOf(Resolve(terms))
<1> DEFINE resolved == [i \in DOMAIN terms |-> WithNulls(terms[i])]
           tie == [field |-> TieBreaker,
                   direction |-> IF TieDirection = Null THEN terms[Len(terms)].direction
                                                        ELSE TieDirection,
                   nulls |-> DefaultNulls[TieBreaker]]
<1>1. \A i \in DOMAIN terms : /\ WithNulls(terms[i]) \in ResolvedTerm
                              /\ WithNulls(terms[i]).field = terms[i].field
  <2> TAKE i \in DOMAIN terms
  <2>1. terms[i] \in SortTerm
    OBVIOUS
  <2> QED BY <2>1, RegistryAssumption DEF WithNulls, SortTerm, ResolvedTerm
<1>2. resolved \in Plan
  BY <1>1 DEF Plan
<1>3. tie \in ResolvedTerm
  <2>1. terms[Len(terms)] \in SortTerm
    OBVIOUS
  <2> QED BY <2>1, RegistryAssumption DEF SortTerm, ResolvedTerm
<1>4. CASE TieBreaker \in FieldsOf(terms)
  <2>1. Resolve(terms) = resolved
    BY <1>4 DEF Resolve
  <2>2. TieBreaker \in FieldsOf(resolved)
    BY <1>1, <1>4 DEF FieldsOf
  <2> QED BY <2>1, <2>2, <1>2
<1>5. CASE TieBreaker \notin FieldsOf(terms)
  <2>1. Resolve(terms) = Append(resolved, tie)
    BY <1>5 DEF Resolve
  <2> HIDE DEF resolved
  <2>2. Append(resolved, tie) \in Plan
    BY <1>2, <1>3 DEF Plan
  <2>3. /\ Len(resolved) + 1 \in DOMAIN Append(resolved, tie)
        /\ Append(resolved, tie)[Len(resolved) + 1] = tie
    BY <1>2, <1>3 DEF Plan
  <2>4. TieBreaker \in FieldsOf(Append(resolved, tie))
    BY <2>3 DEF FieldsOf
  <2> QED BY <2>1, <2>2, <2>4
<1> QED BY <1>4, <1>5

-----------------------------------------------------------------------------
(* Requests and pages.                                                      *)

\* Every request has a plan that orders the rows of a table.
LEMMA RequestPlan ==
    ASSUME NEW request \in Requests
    PROVE  /\ request.plan \in Plan
           /\ TieBreaker \in FieldsOf(request.plan)
<1>1. CASE request \in SortedRequests
  <2>1. PICK terms \in SortRequests :
           Resolvable(terms) /\ request.plan = Resolve(terms)
    BY <1>1 DEF SortedRequests
  <2>2. terms \in Seq(SortTerm) /\ terms # <<>>
    BY <2>1, PaginationAssumption DEF Resolvable
  <2> QED BY <2>1, <2>2, ResolvedPlan
<1>2. CASE request \in LegacyRequests
  <2>1. PICK c \in LegacyColumns, d \in Direction : request.plan = LegacyPlan(c, d)
    BY <1>2 DEF LegacyRequests
  <2>2. \A i \in 1..2 : request.plan[i] \in ResolvedTerm
    BY <2>1, PaginationAssumption, RegistryAssumption
       DEF LegacyPlan, ResolvedTerm, Direction, Placement
  <2>3. request.plan \in Plan
    BY <2>1, <2>2 DEF LegacyPlan, Plan
  <2>4. DOMAIN request.plan = 1..2 /\ request.plan[2].field = TieBreaker
    BY <2>1 DEF LegacyPlan
  <2> QED BY <2>3, <2>4 DEF FieldsOf
<1> QED BY <1>1, <1>2 DEF Requests

\* The row comparison of a legacy cursor is the order too, as its columns are
\* not NULL.
LEMMA LegacyBoundaryIsAfter ==
    ASSUME NEW c \in LegacyColumns, NEW d \in Direction,
           NEW last \in Row, NEW row \in Row
    PROVE  LegacyBoundary(LegacyPlan(c, d), ValuesFrom(LegacyPlan(c, d), last), row)
              <=> Precedes(LegacyPlan(c, d), last, row)
<1> DEFINE plan == LegacyPlan(c, d)
<1>1. /\ DOMAIN plan = 1..2
      /\ plan[1].field = c /\ plan[2].field = TieBreaker
      /\ plan[1].direction = d /\ plan[2].direction = d
  BY DEF LegacyPlan
<1>2. /\ ValuesFrom(plan, last)[1] = last[c]
      /\ ValuesFrom(plan, last)[2] = last[TieBreaker]
  BY <1>1 DEF ValuesFrom
<1>3. c \in Fields \ Nullable /\ TieBreaker \in Fields \ Nullable
  BY PaginationAssumption, RegistryAssumption
<1>4. /\ last[c] \in Int /\ last[TieBreaker] \in Int
      /\ row[c] \in Int /\ row[TieBreaker] \in Int
  BY <1>3 DEF Row
<1> HIDE DEF plan
<1>5. Precedes(plan, last, row) <=>
         \/ TermBefore(plan[1], last[c], row[c])
         \/ last[c] = row[c] /\ TermBefore(plan[2], last[TieBreaker], row[TieBreaker])
  BY <1>1 DEF Precedes
<1>6. \A i \in 1..2, x \in Int, y \in Int :
         TermBefore(plan[i], x, y) <=> IF d = "desc" THEN LessSQL(y, x) ELSE LessSQL(x, y)
  BY <1>1, RegistryAssumption DEF TermBefore
<1>7. Equality(row[c], last[c]) <=> last[c] = row[c]
  BY <1>4, EqualityIsEqual
<1>8. LegacyBoundary(plan, ValuesFrom(plan, last), row) <=> Precedes(plan, last, row)
  BY <1>1, <1>2, <1>4, <1>5, <1>6, <1>7 DEF LegacyBoundary
<1> QED BY <1>8 DEF plan

\* Values survive the way through a cursor.
LEMMA RoundTrip ==
    ASSUME NEW plan \in Plan, NEW r \in Rows
    PROVE  Coerce(Serialize(ValuesFrom(plan, r))) = ValuesFrom(plan, r)
<1> DEFINE values == ValuesFrom(plan, r)
<1>1. ASSUME NEW i \in DOMAIN plan
      PROVE  [json |-> values[i]] # Null
  <2>1. values[i] = r[plan[i].field]
    BY DEF ValuesFrom
  <2>2. plan[i].field \in Fields
    BY ColumnValue, PaginationAssumption
  <2> QED BY <2>1, <2>2, NullAssumption
<1>2. DOMAIN values = DOMAIN plan /\ values = [i \in DOMAIN plan |-> values[i]]
  BY DEF ValuesFrom
<1> HIDE DEF values
<1>3. \A i \in DOMAIN plan : Coerce(Serialize(values))[i] = values[i]
  BY <1>1, <1>2 DEF Coerce, Serialize
<1>4. Coerce(Serialize(values)) = [i \in DOMAIN plan |-> Coerce(Serialize(values))[i]]
  BY <1>2 DEF Coerce, Serialize
<1>5. Coerce(Serialize(values)) = values
  BY <1>2, <1>3, <1>4
<1> QED BY <1>5 DEF values

\* With the cursor of a row, a page is taken from the rows after that row.
LEMMA SelectedAfter ==
    ASSUME NEW request \in Requests, NEW last \in Rows, table \subseteq Rows,
           NEW r
    PROVE  r \in Selected(request, CursorOf(request, last)) <=>
              /\ r \in table /\ Matches(request.query, r)
              /\ Precedes(request.plan, last, r)
<1> DEFINE cursor == CursorOf(request, last)
           values == Coerce(cursor.values)
<1>1. last \in Row /\ (r \in table => r \in Row)
  BY PaginationAssumption
<1>2. request.plan \in Plan
  BY RequestPlan
<1>3. cursor # Null /\ values = ValuesFrom(request.plan, last)
  BY <1>2, NullAssumption, RoundTrip DEF CursorOf
<1>4. r \in Row =>
         (IF request.version = 2 THEN Boundary(request.plan, values, r)
                                 ELSE LegacyBoundary(request.plan, values, r))
            <=> Precedes(request.plan, last, r)
  <2>1. CASE request \in SortedRequests
    <3>1. request.version = 2
      BY <2>1 DEF SortedRequests
    <3> QED BY <3>1, <1>1, <1>2, <1>3, BoundaryIsAfter
  <2>2. CASE request \in LegacyRequests
    <3>1. PICK c \in LegacyColumns, d \in Direction : request.plan = LegacyPlan(c, d)
      BY <2>2 DEF LegacyRequests
    <3>2. request.version # 2
      BY <2>2 DEF LegacyRequests
    <3> QED BY <3>1, <3>2, <1>1, <1>3, LegacyBoundaryIsAfter
  <2> QED BY <2>1, <2>2 DEF Requests
<1> HIDE DEF cursor
<1>5. r \in Selected(request, cursor) <=>
         r \in table /\ Matches(request.query, r) /\ Precedes(request.plan, last, r)
  BY <1>1, <1>3, <1>4 DEF Selected
<1> QED BY <1>5 DEF cursor

\* A cursor is accepted only by the request that produced it.
LEMMA AcceptsOwn ==
    ASSUME NEW request \in Requests, NEW old \in Requests, NEW last \in Rows,
           request \in SortedRequests \cup {old},
           Accepts(request, CursorOf(old, last))
    PROVE  request = old
<1>1. CASE request \in SortedRequests
  <2>1. request.version = 2 /\ old.version = 2
    BY <1>1 DEF SortedRequests, Accepts, CursorOf
  <2>2. old \in SortedRequests
    BY <2>1 DEF Requests, LegacyRequests
  <2>3. Fingerprint(old.plan) = Fingerprint(request.plan) /\ old.query = request.query
    BY <2>1 DEF Accepts, CursorOf
  <2>4. old.plan \in Plan /\ request.plan \in Plan
    BY RequestPlan
  <2>5. DOMAIN old.plan = DOMAIN request.plan
    BY <2>3 DEF Fingerprint
  <2>6. \A i \in DOMAIN old.plan : old.plan[i] = request.plan[i]
    <3> TAKE i \in DOMAIN old.plan
    <3>1. old.plan[i] \in ResolvedTerm /\ request.plan[i] \in ResolvedTerm
      BY <2>4, <2>5 DEF Plan
    <3>2. /\ Fingerprint(old.plan)[i] =
                <<old.plan[i].field, old.plan[i].direction, old.plan[i].nulls>>
          /\ Fingerprint(request.plan)[i] =
                <<request.plan[i].field, request.plan[i].direction, request.plan[i].nulls>>
      BY <2>5 DEF Fingerprint
    <3>3. /\ old.plan[i].field = request.plan[i].field
          /\ old.plan[i].direction = request.plan[i].direction
          /\ old.plan[i].nulls = request.plan[i].nulls
      BY <2>3, <3>2
    <3> QED BY <3>1, <3>3 DEF ResolvedTerm
  <2>7. old.plan = request.plan
    BY <2>4, <2>5, <2>6 DEF Plan
  <2> QED BY <1>1, <2>1, <2>2, <2>3, <2>7 DEF SortedRequests
<1> QED BY <1>1

\* The rows of the table, whose tie-breaker is unique.
TableOK ==
    /\ table \subseteq Rows
    /\ \A r, s \in table : r[TieBreaker] = s[TieBreaker] => r = s

\* Of two rows of a table one comes first.
LEMMA TableOrdered ==
    ASSUME TableOK, NEW request \in Requests, NEW r \in table, NEW s \in table
    PROVE  \/ r = s
           \/ Precedes(request.plan, r, s)
           \/ Precedes(request.plan, s, r)
<1>1. r \in Row /\ s \in Row
  BY PaginationAssumption DEF TableOK
<1>2. CASE r # s
  <2>1. r[TieBreaker] # s[TieBreaker]
    BY <1>2 DEF TableOK
  <2> QED BY <1>1, <2>1, RequestPlan, Total
<1> QED BY <1>2

\* A page without next cursor holds all that was selected; the cursor of any
\* other page is the row of it that separates it from what is left.
LEMMA PageSplits ==
    ASSUME TableOK, NEW request \in Requests, NEW cursor, NEW limit \in Nat,
           NEW page \in Pages(request, cursor, limit)
    PROVE  /\ page.items \subseteq Selected(request, cursor)
           /\ page.next = Null => page.items = Selected(request, cursor)
           /\ page.next # Null => \E last \in page.items :
                 /\ page.next = CursorOf(request, last)
                 /\ \A r \in page.items : r = last \/ Precedes(request.plan, r, last)
                 /\ \A r \in Selected(request, cursor) \ page.items :
                       Precedes(request.plan, last, r)
<1> DEFINE S == Selected(request, cursor)
           plan == request.plan
<1>1. PICK fetched \in FirstRows(plan, S, limit + 1) :
         \E items \in FirstRows(plan, fetched, limit) :
            \E next \in NextCursors(request, items, fetched, limit) :
               page = [items |-> items, next |-> next]
  BY DEF Pages
<1>2. PICK items \in FirstRows(plan, fetched, limit) :
         \E next \in NextCursors(request, items, fetched, limit) :
            page = [items |-> items, next |-> next]
  BY <1>1
<1>3. /\ page.items = items
      /\ page.next \in NextCursors(request, items, fetched, limit)
  BY <1>2
<1>4. S \subseteq table
  BY DEF Selected
<1>5. fetched \subseteq S /\ items \subseteq fetched
  BY <1>1, <1>2 DEF FirstRows
<1>6. IsFiniteSet(fetched) /\ Cardinality(fetched) \in Nat
  BY <1>4, <1>5, FS_Subset, FS_CardinalityType, PaginationAssumption DEF TableOK
<1> HIDE DEF S
<1>7. CASE Cardinality(fetched) <= limit
  <2>1. fetched = S
    BY <1>1, <1>6, <1>7 DEF FirstRows
  <2>2. items = fetched
    <3>1. Cardinality(items) <= Cardinality(fetched) /\
          (Cardinality(fetched) = Cardinality(items) => fetched = items)
      BY <1>5, <1>6, FS_Subset
    <3>2. items # fetched => Cardinality(items) = limit
      BY <1>2 DEF FirstRows
    <3> QED BY <3>1, <3>2, <1>6, <1>7
  <2>3. page.next = Null
    BY <1>3, <1>6, <1>7 DEF NextCursors
  <2> QED BY <1>3, <2>1, <2>2, <2>3 DEF S
<1>8. CASE Cardinality(fetched) > limit
  <2>1. PICK last \in LastRows(plan, items) : page.next = CursorOf(request, last)
    BY <1>3, <1>8 DEF NextCursors, CursorRows
  <2>2. last \in items /\ \A r \in items : ~Precedes(plan, last, r)
    BY <2>1 DEF LastRows
  <2>3. last \in table /\ items \subseteq table
    BY <1>4, <1>5, <2>2
  <2>4. page.next # Null
    BY <2>1, <2>3, NullAssumption DEF TableOK
  <2>5. \A r \in items : r = last \/ Precedes(plan, r, last)
    BY <2>2, <2>3, TableOrdered
  <2>6. ASSUME NEW r \in S, r \notin items PROVE Precedes(plan, last, r)
    <3>1. ~Precedes(plan, r, last)
      <4>1. CASE r \in fetched
        BY <1>2, <2>2, <2>6, <4>1 DEF FirstRows
      <4>2. CASE r \notin fetched
        BY <1>1, <1>5, <2>2, <4>2 DEF FirstRows
      <4> QED BY <4>1, <4>2
    <3>2. r \in table /\ r # last
      BY <1>4, <2>2, <2>6
    <3> QED BY <2>3, <3>1, <3>2, TableOrdered
  <2> QED BY <1>3, <1>5, <2>1, <2>2, <2>4, <2>5, <2>6 DEF S
<1> QED BY <1>6, <1>7, <1>8

-----------------------------------------------------------------------------
(* The inductive invariant.                                                 *)

Status == {"idle", "open", "done", "refused"}

Walk == [status: Status,
         request: Requests \cup {Null},
         cursor: {CursorOf(q, r) : q \in Requests, r \in Rows} \cup {Null},
         items: SUBSET Rows, seen: SUBSET Rows, stable: SUBSET Rows,
         pages: Nat]

\* The shape of the walk and of the offset request.
Shape ==
    /\ walk \in Walk
    /\ walk.status \in {"open", "done"} => walk.request \in Requests
    /\ "status" \in DOMAIN offset
    /\ offset.status \in {"idle", "counted", "done"}

\* An open walk stands at a row: what was returned is not after it, and a row
\* of the result that was there all the time was returned or is after it.
Position ==
    walk.status = "open" =>
        \E last \in Rows :
            /\ walk.cursor = CursorOf(walk.request, last)
            /\ \A r \in walk.seen : r = last \/ Precedes(walk.request.plan, r, last)
            /\ \A r \in walk.stable :
                  r \in walk.seen \/ Precedes(walk.request.plan, last, r)

\* The rows that were there all the time are there, and satisfy the query.
StableRows ==
    /\ walk.stable \subseteq table
    /\ walk.status \in {"open", "done"} =>
          \A r \in walk.stable : Matches(walk.request.query, r)

CursorWhileOpen == (walk.status = "open") <=> (walk.cursor # Null)

IInv ==
    /\ TableOK
    /\ Shape
    /\ CursorWhileOpen
    /\ Position
    /\ StableRows
    /\ NothingSkipped
    /\ OneQuery

-----------------------------------------------------------------------------
\* It holds before any request.
LEMMA InitIInv ==
    ASSUME Init
    PROVE  IInv
<1>1. /\ walk.status = "idle" /\ walk.cursor = Null /\ walk.stable = {}
      /\ offset.status = "idle" /\ "status" \in DOMAIN offset
  BY DEF Init, NoWalk, NoOffset
<1>2. TableOK
  BY DEF Init, TableOK
<1>3. Shape
  BY <1>1 DEF Init, NoWalk, Shape, Walk, Status
<1> QED BY <1>1, <1>2, <1>3
        DEF IInv, CursorWhileOpen, Position, StableRows, NothingSkipped, OneQuery

\* What a page does to the invariant, the first or a later one: the rows it is
\* taken from are all that is left of the rows to return.
LEMMA PageIInv ==
    ASSUME IInv, NEW request \in Requests, NEW cursor, NEW limit \in Limits,
           NEW page \in Pages(request, cursor, limit),
           NEW seen \in SUBSET Rows, NEW stable \in SUBSET table,
           walk' = Answered(request, page, seen, stable),
           UNCHANGED <<table, offset, changes>>,
           \A r \in stable : Matches(request.query, r),
           \A r \in seen : Matches(request.query, r),
           \A r \in stable : r \in seen \/ r \in Selected(request, cursor),
           \A r \in seen, s \in Selected(request, cursor) :
               Precedes(request.plan, r, s)
    PROVE  IInv'
<1> DEFINE S == Selected(request, cursor)
<1>1. limit \in Nat
  BY PaginationAssumption
<1>2. TableOK /\ Shape
  BY DEF IInv
<1>3. /\ page.items \subseteq S
      /\ page.next = Null => page.items = S
      /\ page.next # Null => \E last \in page.items :
            /\ page.next = CursorOf(request, last)
            /\ \A r \in page.items : r = last \/ Precedes(request.plan, r, last)
            /\ \A r \in S \ page.items : Precedes(request.plan, last, r)
  BY <1>1, <1>2, PageSplits
<1>4. S \subseteq table /\ S \subseteq Rows /\ \A r \in S : Matches(request.query, r)
  BY <1>2 DEF Selected, TableOK
<1> HIDE DEF S
<1>5. /\ walk' = [status |-> IF page.next = Null THEN "done" ELSE "open",
                  request |-> request, cursor |-> page.next, items |-> page.items,
                  seen |-> seen \cup page.items, stable |-> stable,
                  pages |-> walk.pages + 1]
      /\ table' = table /\ offset' = offset
  BY DEF Answered
<1>6. TableOK'
  BY <1>2, <1>5 DEF TableOK
<1>7. Shape'
  <2>1. page.next \in {CursorOf(q, r) : q \in Requests, r \in Rows} \cup {Null}
    BY <1>3, <1>4
  <2>2. walk.pages + 1 \in Nat /\ page.items \in SUBSET Rows /\ stable \in SUBSET Rows
    BY <1>2, <1>3, <1>4 DEF Shape, Walk, TableOK
  <2> QED BY <1>2, <1>5, <2>1, <2>2 DEF Shape, Walk, Status
<1>8. CursorWhileOpen'
  BY <1>5 DEF CursorWhileOpen
<1>9. Position'
  <2> SUFFICES ASSUME page.next # Null
               PROVE  \E last \in Rows :
                  /\ page.next = CursorOf(request, last)
                  /\ \A r \in seen \cup page.items :
                        r = last \/ Precedes(request.plan, r, last)
                  /\ \A r \in stable :
                        r \in seen \cup page.items \/ Precedes(request.plan, last, r)
    BY <1>5 DEF Position
  <2>1. PICK last \in page.items :
           /\ page.next = CursorOf(request, last)
           /\ \A r \in page.items : r = last \/ Precedes(request.plan, r, last)
           /\ \A r \in S \ page.items : Precedes(request.plan, last, r)
    BY <1>3
  <2>2. last \in S /\ last \in Rows
    BY <1>3, <1>4, <2>1
  <2>3. \A r \in seen : Precedes(request.plan, r, last)
    BY <2>2 DEF S
  <2>4. \A r \in stable : r \in seen \/ r \in S
    BY DEF S
  <2> QED BY <2>1, <2>2, <2>3, <2>4
<1>10. StableRows'
  BY <1>5 DEF StableRows
<1>11. NothingSkipped'
  <2> SUFFICES ASSUME page.next = Null
               PROVE  stable \subseteq seen \cup page.items
    BY <1>5 DEF NothingSkipped
  <2>1. \A r \in stable : r \in seen \/ r \in S
    BY DEF S
  <2> QED BY <1>3, <2>1
<1>12. OneQuery'
  BY <1>3, <1>4, <1>5 DEF OneQuery
<1> QED BY <1>6, <1>7, <1>8, <1>9, <1>10, <1>11, <1>12 DEF IInv

\* The cursor of an open walk and the rows a further page is taken from: they
\* come after all that was returned, and hold all that is still missing.
LEMMA FurtherPage ==
    ASSUME IInv, walk.status = "open", NEW request \in Requests,
           request \in SortedRequests \cup {walk.request},
           Accepts(request, walk.cursor)
    PROVE  /\ request = walk.request
           /\ \A r \in walk.stable : r \in walk.seen \/ r \in Selected(request, walk.cursor)
           /\ \A r \in walk.seen, s \in Selected(request, walk.cursor) :
                 Precedes(request.plan, r, s)
<1>1. walk.request \in Requests /\ walk.seen \subseteq Rows
  BY DEF IInv, Shape, Walk
<1>2. PICK last \in Rows :
         /\ walk.cursor = CursorOf(walk.request, last)
         /\ \A r \in walk.seen : r = last \/ Precedes(walk.request.plan, r, last)
         /\ \A r \in walk.stable :
               r \in walk.seen \/ Precedes(walk.request.plan, last, r)
  BY DEF IInv, Position
<1>3. request = walk.request
  BY <1>1, <1>2, AcceptsOwn
<1>4. table \subseteq Rows
  BY DEF IInv, TableOK
<1>5. \A r : r \in Selected(request, walk.cursor) <=>
         /\ r \in table /\ Matches(request.query, r)
         /\ Precedes(request.plan, last, r)
  BY <1>2, <1>3, <1>4, SelectedAfter
<1>6. \A r \in walk.stable : r \in table /\ Matches(request.query, r)
  BY <1>3 DEF IInv, StableRows
<1>7. \A r \in walk.seen, s \in Selected(request, walk.cursor) :
         Precedes(request.plan, r, s)
  <2> TAKE r \in walk.seen, s \in Selected(request, walk.cursor)
  <2>1. Precedes(request.plan, last, s) /\ s \in table
    BY <1>5
  <2>2. r \in Row /\ s \in Row /\ last \in Row
    BY <1>1, <1>4, <2>1, PaginationAssumption
  <2>3. CASE r = last
    BY <2>1, <2>3
  <2>4. CASE Precedes(request.plan, r, last)
    BY <2>1, <2>2, <2>4, RequestPlan, Transitive
  <2> QED BY <1>2, <1>3, <2>3, <2>4
<1> QED BY <1>2, <1>3, <1>5, <1>6, <1>7

\* A change of the table takes the rows it touches out of the stable ones.
LEMMA ChangeIInv ==
    ASSUME IInv, NEW old \in SUBSET Rows, NEW new \in SUBSET Rows,
           Change(old, new), TableOK'
    PROVE  IInv'
<1>1. /\ walk.status \in Status
      /\ walk' = [walk EXCEPT !.stable = walk.stable \ old]
      /\ table' = (table \ old) \cup new
      /\ offset' = [offset EXCEPT !.moved = (offset.status = "counted") \/ offset.moved]
  BY DEF Change, IInv, Shape, Walk
<1>2. /\ walk'.stable = walk.stable \ old
      /\ walk'.status = walk.status /\ walk'.request = walk.request
      /\ walk'.cursor = walk.cursor /\ walk'.seen = walk.seen
  BY <1>1 DEF IInv, Shape
<1>3. Shape'
  <2>1. /\ walk'.status \in {"open", "done"} => walk'.request \in Requests
        /\ "status" \in DOMAIN offset'
        /\ offset'.status \in {"idle", "counted", "done"}
    BY <1>1, <1>2 DEF IInv, Shape
  <2>2. walk' \in Walk
    BY <1>1 DEF IInv, Shape, Walk
  <2> QED BY <2>1, <2>2 DEF Shape
<1>4. CursorWhileOpen'
  BY <1>2 DEF IInv, CursorWhileOpen
<1>5. Position'
  BY <1>2 DEF IInv, Position
<1>6. StableRows'
  BY <1>1, <1>2 DEF IInv, StableRows
<1>7. NothingSkipped' /\ OneQuery'
  BY <1>2 DEF IInv, NothingSkipped, OneQuery
<1> QED BY <1>3, <1>4, <1>5, <1>6, <1>7 DEF IInv

\* Every page, refusal, offset request and change of the table keeps it.
LEMMA NextIInv ==
    ASSUME IInv, [Next]_vars
    PROVE  IInv'
<1>1. ASSUME NEW request \in Requests, NEW limit \in Limits, FirstPage(request, limit)
      PROVE  IInv'
  <2> DEFINE stable == {r \in table : Matches(request.query, r)}
  <2>1. PICK page \in Pages(request, Null, limit) :
           walk' = Answered(request, page, {}, stable)
    BY <1>1 DEF FirstPage
  <2>2. \A r \in stable : Matches(request.query, r) /\ r \in Selected(request, Null)
    BY DEF Selected
  <2>3. UNCHANGED <<table, offset, changes>> /\ stable \in SUBSET table
    BY <1>1 DEF FirstPage
  <2> HIDE DEF stable
  <2> QED BY <2>1, <2>2, <2>3, PageIInv
<1>2. ASSUME NEW request \in Requests, NEW limit \in Limits, NextPage(request, limit)
      PROVE  IInv'
  <2>1. PICK page \in Pages(request, walk.cursor, limit) :
           walk' = Answered(request, page, walk.seen, walk.stable)
    BY <1>2 DEF NextPage
  <2>2. /\ walk.status = "open" /\ Accepts(request, walk.cursor)
        /\ request \in SortedRequests \cup {walk.request}
        /\ UNCHANGED <<table, offset, changes>>
    BY <1>2 DEF NextPage
  <2>3. /\ request = walk.request
        /\ \A r \in walk.stable : r \in walk.seen \/ r \in Selected(request, walk.cursor)
        /\ \A r \in walk.seen, s \in Selected(request, walk.cursor) :
              Precedes(request.plan, r, s)
    BY <2>2, FurtherPage
  <2>4. walk.seen \in SUBSET Rows /\ walk.stable \in SUBSET table
    BY DEF IInv, Shape, Walk, StableRows
  <2>5. /\ \A r \in walk.stable : Matches(request.query, r)
        /\ \A r \in walk.seen : Matches(request.query, r)
    BY <2>2, <2>3 DEF IInv, StableRows, OneQuery
  <2> QED BY <2>1, <2>2, <2>3, <2>4, <2>5, PageIInv
<1>3. ASSUME NEW request \in Requests, Refuse(request) PROVE IInv'
  <2>1. /\ walk.status = "open"
        /\ walk' = [walk EXCEPT !.status = "refused", !.cursor = Null]
        /\ table' = table /\ offset' = offset
    BY <1>3 DEF Refuse
  <2>2. /\ walk'.status = "refused" /\ walk'.cursor = Null
        /\ walk'.request = walk.request
        /\ walk'.seen = walk.seen /\ walk'.stable = walk.stable
    BY <2>1 DEF IInv, Shape
  <2>3. Shape'
    <3> DEFINE w == [walk EXCEPT !.status = "refused"]
    <3>2. w \in Walk
      BY DEF IInv, Shape, Walk, Status
    <3>3. walk' = [w EXCEPT !.cursor = Null]
      BY <2>1
    <3> HIDE DEF w
    <3>1. walk' \in Walk
      BY <3>2, <3>3 DEF Walk
    <3> QED BY <2>1, <2>2, <3>1 DEF IInv, Shape
  <2> QED BY <2>1, <2>2, <2>3 DEF IInv, TableOK, CursorWhileOpen, Position,
                                  StableRows, NothingSkipped, OneQuery
<1>4. ASSUME UNCHANGED <<table, walk>>, "status" \in DOMAIN offset',
             offset'.status \in {"idle", "counted", "done"}
      PROVE  IInv'
  BY <1>4 DEF IInv, TableOK, Shape, CursorWhileOpen, Position, StableRows,
              NothingSkipped, OneQuery
<1>5. ASSUME NEW request \in SortedRequests, NEW page \in 1..MaxPage, NEW limit \in Limits,
             NEW include_total \in BOOLEAN,
             OffsetCount(request, page, limit, include_total)
      PROVE  IInv'
  <2>1. "status" \in DOMAIN offset' /\ offset'.status = "counted"
    BY <1>5 DEF OffsetCount, IInv, Shape
  <2> QED BY <1>4, <1>5, <2>1 DEF OffsetCount
<1>6. ASSUME OffsetFetch PROVE IInv'
  <2>1. "status" \in DOMAIN offset' /\ offset'.status = "done"
    BY <1>6 DEF OffsetFetch, IInv, Shape
  <2> QED BY <1>4, <1>6, <2>1 DEF OffsetFetch
<1>7. ASSUME NEW r \in Rows, Insert(r) PROVE IInv'
  <2>1. TableOK'
    BY <1>7 DEF Insert, Change, IInv, TableOK
  <2> QED BY <1>7, <2>1, ChangeIInv DEF Insert
<1>8. ASSUME NEW r \in Rows, Remove(r) PROVE IInv'
  <2>1. TableOK'
    BY <1>8 DEF Remove, Change, IInv, TableOK
  <2> QED BY <1>8, <2>1, ChangeIInv DEF Remove
<1>9. ASSUME NEW r \in Rows, NEW s \in Rows, Update(r, s) PROVE IInv'
  <2>1. TableOK'
    BY <1>9 DEF Update, Change, IInv, TableOK
  <2> QED BY <1>9, <2>1, ChangeIInv DEF Update
<1>10. ASSUME UNCHANGED vars PROVE IInv'
  BY <1>4, <1>10 DEF vars, IInv, Shape
<1> QED BY <1>1, <1>2, <1>3, <1>5, <1>6, <1>7, <1>8, <1>9, <1>10 DEF Next

\* The invariant holds for any rows, queries, sort requests and page sizes.
THEOREM Invariance == Spec => []IInv
BY InitIInv, NextIInv, PTL DEF Spec

\* A page query always leaves the walk with a cursor exactly while it is open,
\* and changes of the table keep its key.
THEOREM TypeCorrect == Spec => []TypeOK
<1>1. IInv => TypeOK
  BY DEF IInv, TableOK, Shape, Walk, CursorWhileOpen, Status, TypeOK
<1> QED BY <1>1, Invariance, PTL

\* paginate_cursor skips no row that stays in the result during a walk.
THEOREM SkipsNothing == Spec => []NothingSkipped
<1>1. IInv => NothingSkipped
  BY DEF IInv
<1> QED BY <1>1, Invariance, PTL

\* A walk never mixes the results of two queries.
THEOREM NeverMixesQueries == Spec => []OneQuery
<1>1. IInv => OneQuery
  BY DEF IInv
<1> QED BY <1>1, Invariance, PTL

\* paginate_cursor continues after everything it has returned.
THEOREM ContinuesInOrder == Spec => PagesInOrder
<1> DEFINE A == walk.status = "open" /\ walk'.pages > walk.pages =>
                   \A r \in walk.seen, s \in walk'.items :
                       Precedes(walk'.request.plan, r, s)
<1>1. ASSUME IInv, [Next]_vars PROVE [A]_vars
  <2> SUFFICES ASSUME Next, walk.status = "open", walk'.pages > walk.pages
               PROVE  \A r \in walk.seen, s \in walk'.items :
                         Precedes(walk'.request.plan, r, s)
    BY <1>1
  <2>1. walk.pages \in Nat
    BY <1>1 DEF IInv, Shape, Walk
  <2>2. ASSUME walk'.pages = walk.pages PROVE FALSE
    BY <2>1, <2>2
  <2>3. ASSUME NEW old, NEW new, Change(old, new) PROVE FALSE
    <3>1. walk'.pages = walk.pages
      BY <1>1, <2>3 DEF Change, IInv, Shape
    <3> QED BY <2>2, <3>1
  <2>4. ASSUME NEW request \in Requests, Refuse(request) PROVE FALSE
    <3>1. walk'.pages = walk.pages
      BY <1>1, <2>4 DEF Refuse, IInv, Shape
    <3> QED BY <2>2, <3>1
  <2>5. ~OffsetFetch
    BY <2>2 DEF OffsetFetch
  <2>6. PICK request \in Requests, limit \in Limits : NextPage(request, limit)
    BY <2>2, <2>3, <2>4, <2>5 DEF Next, FirstPage, OffsetCount, Insert, Remove, Update
  <2>7. PICK page \in Pages(request, walk.cursor, limit) :
           walk' = Answered(request, page, walk.seen, walk.stable)
    BY <2>6 DEF NextPage
  <2>8. walk'.items = page.items /\ walk'.request = request
    BY <2>7 DEF Answered
  <2>9. \A r \in walk.seen, s \in Selected(request, walk.cursor) :
           Precedes(request.plan, r, s)
    BY <1>1, <2>6, FurtherPage DEF NextPage
  <2>10. page.items \subseteq Selected(request, walk.cursor)
    <3>1. limit \in Nat /\ TableOK
      BY <1>1, PaginationAssumption DEF IInv
    <3> QED BY <3>1, PageSplits
  <2> QED BY <2>8, <2>9, <2>10
<1> QED BY <1>1, Invariance, PTL DEF Spec, PagesInOrder

-----------------------------------------------------------------------------
(* Offset pages.                                                            *)

\* How many rows of S come before r.
Rank(plan, S, r) == Cardinality({s \in S : Precedes(plan, s, r)})

StrictOrder(plan, S) ==
    /\ \A r \in S : ~Precedes(plan, r, r)
    /\ \A r, s, t \in S : Precedes(plan, r, s) /\ Precedes(plan, s, t) => Precedes(plan, r, t)
    /\ \A r, s \in S : r = s \/ Precedes(plan, r, s) \/ Precedes(plan, s, r)

\* Ranks number the rows from 0.
LEMMA RanksNumber ==
    ASSUME NEW plan, NEW S, IsFiniteSet(S), StrictOrder(plan, S)
    PROVE  /\ \A r \in S : Rank(plan, S, r) \in 0..(Cardinality(S) - 1)
           /\ \A r, s \in S : Rank(plan, S, r) = Rank(plan, S, s) => r = s
           /\ \A k \in 0..(Cardinality(S) - 1) : \E r \in S : Rank(plan, S, r) = k
<1> DEFINE before(r) == {s \in S : Precedes(plan, s, r)}
           numbers == 0..(Cardinality(S) - 1)
<1>0. Cardinality(S) \in Nat
  BY FS_CardinalityType
<1>1. ASSUME NEW r \in S
      PROVE  IsFiniteSet(before(r)) /\ Cardinality(before(r)) \in numbers
  <2>1. before(r) \in SUBSET S /\ before(r) # S
    BY <1>1 DEF StrictOrder
  <2>2. /\ IsFiniteSet(before(r)) /\ Cardinality(before(r)) <= Cardinality(S)
        /\ Cardinality(S) # Cardinality(before(r))
    BY <2>1, FS_Subset
  <2>3. Cardinality(before(r)) \in Nat
    BY <2>2, FS_CardinalityType
  <2> QED BY <1>0, <2>2, <2>3
<1>2. ASSUME NEW r \in S, NEW s \in S, Precedes(plan, r, s)
      PROVE  Cardinality(before(r)) # Cardinality(before(s))
  <2>1. before(r) \in SUBSET before(s)
    BY <1>2 DEF StrictOrder
  <2>2. r \in before(s) /\ r \notin before(r)
    BY <1>2 DEF StrictOrder
  <2>3. before(s) # before(r)
    BY <2>2
  <2>4. IsFiniteSet(before(s))
    BY <1>1
  <2> QED BY <2>1, <2>3, <2>4, FS_Subset
<1>3. ASSUME NEW r \in S, NEW s \in S, Cardinality(before(r)) = Cardinality(before(s))
      PROVE  r = s
  BY <1>2, <1>3 DEF StrictOrder
<1>4. PICK rank : rank = [r \in S |-> Cardinality(before(r))]
  OBVIOUS
<1>5. rank \in Injection(S, numbers)
  <2>1. rank \in [S -> numbers]
    BY <1>1, <1>4
  <2>2. \A r, s \in S : rank[r] = rank[s] => r = s
    BY <1>3, <1>4
  <2> QED BY <2>1, <2>2 DEF Injection, IsInjective
<1>6. IsFiniteSet(numbers) /\ Cardinality(numbers) = Cardinality(S)
  <2>1. PICK last \in Int : last = Cardinality(S) - 1
    BY <1>0
  <2>2. /\ IsFiniteSet(0..last)
        /\ Cardinality(0..last) = IF 0 > last THEN 0 ELSE last - 0 + 1
    BY FS_Interval
  <2> QED BY <1>0, <2>1, <2>2
<1>7. rank \in Surjection(S, numbers)
  BY <1>5, <1>6, FS_Injection
<1>8. \A k \in numbers : \E r \in S : rank[r] = k
  BY <1>7 DEF Surjection
<1> QED BY <1>1, <1>3, <1>4, <1>8 DEF Rank

\* OFFSET and LIMIT return the full number of rows exactly if there are as many.
LEMMA SliceSize ==
    ASSUME NEW plan, NEW S, IsFiniteSet(S), StrictOrder(plan, S),
           NEW from \in Nat, NEW n \in Nat \ {0}
    PROVE  /\ Cardinality(Slice(plan, S, from, n)) \in Nat
           /\ Cardinality(Slice(plan, S, from, n)) <= n
           /\ Cardinality(Slice(plan, S, from, n)) = n <=> Cardinality(S) >= from + n
<1> DEFINE numbers == from..(from + n - 1)
<1>1. PICK T : T = Slice(plan, S, from, n)
  OBVIOUS
<1>2. T = {r \in S : Rank(plan, S, r) \in numbers}
  BY <1>1 DEF Slice, Rank
<1>3. PICK rank : rank = [r \in T |-> Rank(plan, S, r)]
  OBVIOUS
<1>4. rank \in [T -> numbers] /\ \A r, s \in T : rank[r] = rank[s] => r = s
  BY <1>2, <1>3, RanksNumber
<1>5. rank \in Injection(T, numbers)
  BY <1>4 DEF Injection, IsInjective
<1>6. IsFiniteSet(numbers) /\ Cardinality(numbers) = n
  <2>1. /\ IsFiniteSet(numbers)
        /\ Cardinality(numbers) = IF from > from + n - 1
                                  THEN 0 ELSE (from + n - 1) - from + 1
    BY FS_Interval
  <2> QED BY <2>1
<1>7. /\ IsFiniteSet(T) /\ Cardinality(T) <= n
      /\ Cardinality(T) = n <=> rank \in Surjection(T, numbers)
  BY <1>5, <1>6, FS_Injection
<1>8. Cardinality(S) \in Nat /\ Cardinality(T) \in Nat
  BY <1>7, FS_CardinalityType
<1>9. ASSUME Cardinality(S) >= from + n PROVE rank \in Surjection(T, numbers)
  <2>1. ASSUME NEW k \in numbers PROVE \E r \in T : rank[r] = k
    <3>1. k \in 0..(Cardinality(S) - 1)
      BY <1>8, <1>9, <2>1
    <3>2. PICK r \in S : Rank(plan, S, r) = k
      BY <3>1, RanksNumber
    <3> QED BY <1>2, <1>3, <2>1, <3>2
  <2> QED BY <1>4, <2>1 DEF Surjection
<1>10. ASSUME rank \in Surjection(T, numbers) PROVE Cardinality(S) >= from + n
  <2>1. from + n - 1 \in numbers
    OBVIOUS
  <2>2. PICK r \in T : rank[r] = from + n - 1
    BY <1>10, <2>1 DEF Surjection
  <2>3. r \in S /\ Rank(plan, S, r) = from + n - 1
    BY <1>2, <1>3, <2>2
  <2>4. from + n - 1 \in 0..(Cardinality(S) - 1)
    BY <2>3, RanksNumber
  <2> QED BY <1>8, <2>4
<1> QED BY <1>1, <1>7, <1>8, <1>9, <1>10

\* total_pages of OffsetPage: there is a page after this one exactly if there are
\* more rows than these pages hold.
LEMMA CeilPages ==
    ASSUME NEW total \in Nat, NEW limit \in Nat \ {0}, NEW page \in Nat
    PROVE  page < Ceil(total, limit) <=> total > page * limit
<1>1. PICK q \in Int : q = (total + limit - 1) \div limit
  OBVIOUS
<1>2. limit * q <= total + limit - 1 /\ total + limit - 1 < limit * q + limit
  BY <1>1
<1>3. ASSUME page < q PROVE total > page * limit
  <2>1. PICK k \in Nat : q = page + 1 + k
    BY <1>3
  <2>2. limit * q = page * limit + limit + limit * k /\ limit * k >= 0
    BY <2>1
  <2>3. page * limit \in Nat /\ limit * k \in Nat
    OBVIOUS
  <2> QED BY <1>2, <2>2, <2>3
<1>4. ASSUME ~(page < q) PROVE ~(total > page * limit)
  <2>1. PICK k \in Nat : page = q + k
    BY <1>4
  <2>2. page * limit = limit * q + limit * k /\ limit * k >= 0
    BY <2>1
  <2>3. page * limit \in Nat /\ limit * k \in Nat /\ limit * q \in Int
    OBVIOUS
  <2> QED BY <1>2, <2>2, <2>3
<1> QED BY <1>1, <1>3, <1>4 DEF Ceil

\* The rows of a query in the order of a request.
LEMMA MatchingOrdered ==
    ASSUME TableOK, NEW request \in Requests
    PROVE  IsFiniteSet(Matching(request)) /\ StrictOrder(request.plan, Matching(request))
<1>1. Matching(request) \subseteq table /\ table \subseteq Rows /\ Rows \subseteq Row
  BY PaginationAssumption DEF Matching, TableOK
<1>2. IsFiniteSet(Matching(request))
  BY <1>1, PaginationAssumption, FS_Subset
<1>3. \A r \in Matching(request) : ~Precedes(request.plan, r, r)
  BY <1>1, RequestPlan, Irreflexive
<1>4. \A r, s, t \in Matching(request) :
         Precedes(request.plan, r, s) /\ Precedes(request.plan, s, t)
            => Precedes(request.plan, r, t)
  BY <1>1, RequestPlan, Transitive
<1>5. \A r, s \in Matching(request) :
         r = s \/ Precedes(request.plan, r, s) \/ Precedes(request.plan, s, r)
  BY <1>1, TableOrdered
<1> QED BY <1>2, <1>3, <1>4, <1>5 DEF StrictOrder

\* The fields of an offset request.
OffsetShape ==
    /\ {"status", "request", "page", "limit", "total", "moved", "has_next"} \subseteq DOMAIN offset
    /\ offset.page \in Nat /\ offset.limit \in Nat /\ offset.moved \in BOOLEAN

\* While the request waits for its rows, the total it has counted is the number of
\* rows unless the table has changed.
OffsetOK ==
    /\ OffsetShape
    /\ offset.status = "counted" =>
         /\ offset.request \in SortedRequests /\ offset.page # 0 /\ offset.limit # 0
         /\ ~offset.moved /\ offset.total # Null =>
              offset.total = Cardinality(Matching(offset.request))

LEMMA OffsetInit == Init => OffsetOK
<1> SUFFICES ASSUME Init PROVE OffsetOK
  OBVIOUS
<1>1. offset = NoOffset
  BY DEF Init
<1> QED BY <1>1 DEF NoOffset, OffsetOK, OffsetShape

LEMMA OffsetCountOK ==
    ASSUME IInv, OffsetOK, NEW request \in SortedRequests, NEW page \in 1..MaxPage,
           NEW limit \in Limits, NEW include_total \in BOOLEAN,
           OffsetCount(request, page, limit, include_total)
    PROVE  OffsetOK'
<1>1. page \in Nat \ {0} /\ limit \in Nat \ {0}
  BY PaginationAssumption
<1>2. PICK total : total = IF include_total THEN Cardinality(Matching(request)) ELSE Null
  OBVIOUS
<1>3. total \in Nat \cup {Null} /\ (total # Null => total = Cardinality(Matching(request)))
  <2>1. request \in Requests /\ TableOK
    BY DEF Requests, IInv
  <2>2. Cardinality(Matching(request)) \in Nat
    BY <2>1, MatchingOrdered, FS_CardinalityType
  <2> QED BY <1>2, <2>2
<1>4. offset' = [offset EXCEPT !.status = "counted", !.request = request, !.page = page,
                               !.limit = limit, !.total = total]
  BY <1>2 DEF OffsetCount
<1>5. /\ OffsetShape'
      /\ offset'.request = request /\ offset'.page = page /\ offset'.limit = limit
      /\ offset'.total = total
  BY <1>1, <1>3, <1>4 DEF OffsetOK, OffsetShape
<1>6. (Matching(offset.request))' = Matching(request)
  BY <1>5 DEF OffsetCount, Matching
<1> QED BY <1>1, <1>3, <1>5, <1>6 DEF OffsetOK

LEMMA OffsetFetchOK ==
    ASSUME OffsetOK, OffsetFetch
    PROVE  OffsetOK'
<1>1. PICK has_next : offset' = [offset EXCEPT !.status = "done", !.has_next = has_next]
  BY DEF OffsetFetch
<1>2. OffsetShape' /\ offset'.status = "done"
  BY <1>1 DEF OffsetOK, OffsetShape
<1> QED BY <1>2 DEF OffsetOK

LEMMA OffsetChangeOK ==
    ASSUME OffsetOK, NEW old, NEW new, Change(old, new)
    PROVE  OffsetOK'
<1>1. PICK moved \in BOOLEAN :
         /\ offset.status = "counted" => moved
         /\ offset' = [offset EXCEPT !.moved = moved]
  BY DEF Change, OffsetOK, OffsetShape
<1>2. /\ OffsetShape' /\ offset'.moved = moved /\ offset'.status = offset.status
      /\ offset'.request = offset.request /\ offset'.page = offset.page
      /\ offset'.limit = offset.limit
  BY <1>1 DEF OffsetOK, OffsetShape
<1> QED BY <1>1, <1>2 DEF OffsetOK

LEMMA OffsetNext == IInv /\ OffsetOK /\ [Next]_vars => OffsetOK'
<1> SUFFICES ASSUME IInv, OffsetOK, [Next]_vars PROVE OffsetOK'
  OBVIOUS
<1>1. ASSUME UNCHANGED <<table, offset>> PROVE OffsetOK'
  BY <1>1 DEF OffsetOK, OffsetShape, Matching
<1>2. ASSUME NEW old, NEW new, Change(old, new) PROVE OffsetOK'
  BY <1>2, OffsetChangeOK
<1>3. CASE UNCHANGED vars
  BY <1>1, <1>3 DEF vars
<1>4. CASE Next
  <2>1. ASSUME NEW request \in Requests, NEW limit \in Limits,
               FirstPage(request, limit) \/ NextPage(request, limit)
        PROVE  OffsetOK'
    BY <1>1, <2>1 DEF FirstPage, NextPage
  <2>2. ASSUME NEW request \in Requests, Refuse(request) PROVE OffsetOK'
    BY <1>1, <2>2 DEF Refuse
  <2>3. ASSUME NEW r \in Rows, NEW s \in Rows, Insert(r) \/ Remove(r) \/ Update(r, s)
        PROVE  OffsetOK'
    BY <1>2, <2>3 DEF Insert, Remove, Update
  <2> QED BY <1>4, <2>1, <2>2, <2>3, OffsetCountOK, OffsetFetchOK DEF Next
<1> QED BY <1>3, <1>4

\* has_next_page of paginate_offset is right, with and without the total, unless the
\* table has changed between the two statements.
THEOREM OffsetTheorem == Spec => OffsetNextIsTrue
<1> DEFINE A == OffsetFetch /\ ~offset.moved =>
                  (offset'.has_next <=>
                      Cardinality(Matching(offset.request)) > offset.page * offset.limit)
<1>1. ASSUME IInv, OffsetOK PROVE A
  <2> SUFFICES ASSUME OffsetFetch, ~offset.moved
               PROVE  offset'.has_next <=>
                        Cardinality(Matching(offset.request)) > offset.page * offset.limit
    OBVIOUS
  <2>1. PICK request \in SortedRequests : request = offset.request
    BY <1>1 DEF OffsetFetch, OffsetOK
  <2>2. PICK S : S = Matching(request)
    OBVIOUS
  <2>3. IsFiniteSet(S) /\ StrictOrder(request.plan, S)
    BY <1>1, <2>1, <2>2, MatchingOrdered DEF Requests, IInv
  <2>4. PICK page \in Nat \ {0}, limit \in Nat \ {0} : page = offset.page /\ limit = offset.limit
    BY <1>1 DEF OffsetFetch, OffsetOK, OffsetShape
  <2>5. Cardinality(S) \in Nat
    BY <2>3, FS_CardinalityType
  <2>6. CASE offset.total # Null
    <3>1. offset.total = Cardinality(S)
      BY <1>1, <2>1, <2>2, <2>6 DEF OffsetFetch, OffsetOK
    <3>2. offset'.has_next <=> page < Ceil(Cardinality(S), limit)
      BY <1>1, <2>4, <2>6, <3>1 DEF OffsetFetch, OffsetOK, OffsetShape
    <3> QED BY <2>1, <2>2, <2>4, <2>5, <3>2, CeilPages
  <2>7. CASE offset.total = Null
    <3>1. PICK from \in Nat : from = (page - 1) * limit
      BY <2>4
    <3>2. offset'.has_next <=> Cardinality(Slice(request.plan, S, from, limit + 1)) > limit
      BY <1>1, <2>1, <2>2, <2>4, <2>7, <3>1
      DEF OffsetFetch, OffsetOK, OffsetShape, FetchLimit
    <3>3. PICK n \in Nat \ {0} : n = limit + 1
      BY <2>4
    <3>4. /\ Cardinality(Slice(request.plan, S, from, n)) \in Nat
          /\ Cardinality(Slice(request.plan, S, from, n)) <= n
          /\ Cardinality(Slice(request.plan, S, from, n)) = n <=> Cardinality(S) >= from + n
      BY <2>3, SliceSize
    <3>5. from + limit = page * limit
      BY <2>4, <3>1
    <3>6. page * limit \in Nat
      BY <2>4
    <3>7. offset'.has_next <=> Cardinality(S) > page * limit
      BY <2>4, <2>5, <3>2, <3>3, <3>4, <3>5, <3>6
    <3> QED BY <2>1, <2>2, <2>4, <3>7
  <2> QED BY <2>6, <2>7
<1>2. Spec => []OffsetOK
  BY Invariance, OffsetInit, OffsetNext, PTL DEF Spec
<1>3. IInv /\ OffsetOK => [A]_vars
  BY <1>1
<1> QED BY <1>2, <1>3, Invariance, PTL DEF OffsetNextIsTrue
=============================================================================
