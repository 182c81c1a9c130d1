------------------------------ MODULE Sorting ------------------------------
(***************************************************************************)
(* Sort plans of database/sorting.py: how a registry resolves requested    *)
(* terms, the ORDER BY of a plan, and the keyset boundary, the WHERE       *)
(* clause for the rows after a cursor.  A comparison with NULL is never    *)
(* true, as in a WHERE clause.                                             *)
(***************************************************************************)
EXTENDS Integers, Sequences

CONSTANTS
    Fields,         \* sortable columns
    Nullable,       \* those that may be NULL
    TieBreaker,     \* the unique column of the registry
    TieDirection,   \* its direction, or Null if it was given as a bare name
    DefaultNulls,   \* default_nulls of each field
    Null            \* SQL NULL, and None for what is left open

Direction == {"asc", "desc"}

Placement == {"first", "last"}

\* What SortRegistry.__init__ enforces.
ASSUME RegistryAssumption ==
    /\ Nullable \subseteq Fields
    /\ TieBreaker \in Fields \ Nullable
    /\ TieDirection \in Direction \cup {Null}
    /\ DefaultNulls \in [Fields -> Placement]
    /\ Null \notin Int /\ Null \notin Direction /\ Null \notin Placement

Row == {r \in [Fields -> Int \cup {Null}] : \A f \in Fields \ Nullable : r[f] # Null}

\* Terms as requested, and terms of a plan.
SortTerm == [field: Fields, direction: Direction, nulls: Placement \cup {Null}]

ResolvedTerm == [field: Fields, direction: Direction, nulls: Placement]

FieldsOf(terms) == {terms[i].field : i \in DOMAIN terms}

\* resolve raises for anything else; no terms at all stand for the default.
Resolvable(terms) ==
    /\ terms # <<>>
    /\ \A i, j \in DOMAIN terms : terms[i].field = terms[j].field => i = j

WithNulls(term) ==
    [term EXCEPT !.nulls = IF @ = Null THEN DefaultNulls[term.field] ELSE @]

\* Mutant: the tie-breaker is not appended.
Resolve_NoTieBreaker(terms) == [i \in DOMAIN terms |-> WithNulls(terms[i])]

\* SortRegistry.resolve: null placements are filled in and the tie-breaker is
\* appended; a bare one takes the direction of the last term.  Where NULLs of
\* the tie-breaker would go does not matter: it has none.
Resolve(terms) ==
    LET resolved == [i \in DOMAIN terms |-> WithNulls(terms[i])]
        tie == [field |-> TieBreaker,
                direction |-> IF TieDirection = Null THEN terms[Len(terms)].direction
                                                     ELSE TieDirection,
                nulls |-> DefaultNulls[TieBreaker]]
    IN  IF TieBreaker \in FieldsOf(terms) THEN resolved ELSE Append(resolved, tie)

\* Mutant: null placement is left out of the hash.
Fingerprint_NoNulls(plan) ==
    [i \in DOMAIN plan |-> <<plan[i].field, plan[i].direction>>]

\* The hashed payload: field, direction and null placement of every term.
\* Hashes of different payloads are taken to differ.
Fingerprint(plan) ==
    [i \in DOMAIN plan |-> <<plan[i].field, plan[i].direction, plan[i].nulls>>]

\* values_from
ValuesFrom(plan, row) == [i \in DOMAIN plan |-> row[plan[i].field]]

-----------------------------------------------------------------------------
(* The keyset boundary.                                                     *)

LessSQL(x, y) == x # Null /\ y # Null /\ x < y

\* ResolvedSortTerm.equality
Equality(x, v) == IF v = Null THEN x = Null ELSE x # Null /\ x = v

\* Mutant: NULLs after the cursor value are forgotten.
After_NoNullsLast(term, x, v) ==
    IF v = Null THEN term.nulls = "first" /\ x # Null
    ELSE IF term.direction = "desc" THEN LessSQL(x, v) ELSE LessSQL(v, x)

\* ResolvedSortTerm.after
After(term, x, v) ==
    IF v = Null THEN term.nulls = "first" /\ x # Null
    ELSE \/ term.nulls = "last" /\ x = Null
         \/ IF term.direction = "desc" THEN LessSQL(x, v) ELSE LessSQL(v, x)

\* SortPlan.boundary
Boundary(plan, values, row) ==
    \E i \in DOMAIN plan :
        /\ After(plan[i], row[plan[i].field], values[i])
        /\ \A j \in 1..(i - 1) : Equality(row[plan[j].field], values[j])

-----------------------------------------------------------------------------
(* The order PostgreSQL sorts by.                                           *)

\* x comes before y under ORDER BY of one term.
TermBefore(term, x, y) ==
    \/ x = Null /\ y # Null /\ term.nulls = "first"
    \/ x # Null /\ y = Null /\ term.nulls = "last"
    \/ IF term.direction = "desc" THEN LessSQL(y, x) ELSE LessSQL(x, y)

\* Row r comes before row s.
Precedes(plan, r, s) ==
    \E i \in DOMAIN plan :
        /\ TermBefore(plan[i], r[plan[i].field], s[plan[i].field])
        /\ \A j \in 1..(i - 1) : r[plan[j].field] = s[plan[j].field]
=============================================================================
