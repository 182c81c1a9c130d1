---------------------------- MODULE TokenBucket ----------------------------
(***************************************************************************)
(* What a rate limit promises: a bucket that fills continuously up to its  *)
(* capacity, and lets a request pass exactly when it holds the cost.       *)
(***************************************************************************)
EXTENDS Naturals

CONSTANTS
    Full,       \* capacity, in units
    Refill,     \* units per unit of time
    Costs       \* costs of requests, in units

VARIABLES
    level,      \* units in the bucket now
    allowed     \* was the last request let through

bucketVars == <<level, allowed>>

Init == level = Full /\ allowed = TRUE

Request(cost) ==
    /\ allowed' = (level >= cost)
    /\ level' = IF level >= cost THEN level - cost ELSE level

TimePasses ==
    /\ level' = IF level + Refill < Full THEN level + Refill ELSE Full
    /\ UNCHANGED allowed

Next == TimePasses \/ \E cost \in Costs : Request(cost)

Spec == Init /\ [][Next]_bucketVars
=============================================================================
