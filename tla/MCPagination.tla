---------------------------- MODULE MCPagination ----------------------------
(* Pagination for TLC: rows with a rank that repeats and may be NULL, the   *)
(* same as a level that may not, and a unique id; the query "low" leaves    *)
(* out rows of rank 2.                                                      *)
EXTENDS Pagination

CONSTANTS Ids, Ranks

MCFields == {"rank", "level", "id"}

Level(rank) == IF rank = Null THEN 1 ELSE rank

MCRows == {[rank |-> rank, level |-> Level(rank), id |-> i] : rank \in Ranks, i \in Ids}

MCMatches(query, r) == query = "all" \/ r["rank"] # 2

MCDefaultNulls == [f \in MCFields |-> "last"]

\* Rank alone, in either direction, with NULLs first, last or by default.
MCSortRequests ==
    {<<[field |-> "rank", direction |-> d, nulls |-> n]>> :
        d \in Direction, n \in Placement \cup {Null}}

\* Rank, then id the other way round; and a request that is refused.
MCTwoTerms ==
    {<<[field |-> "rank", direction |-> "asc", nulls |-> "first"],
       [field |-> "id", direction |-> "desc", nulls |-> Null]>>,
     <<[field |-> "rank", direction |-> "asc", nulls |-> Null],
       [field |-> "rank", direction |-> "desc", nulls |-> Null]>>}

MCAllRequests == MCSortRequests \cup MCTwoTerms
=============================================================================
