----------------------------- MODULE RateLimit -----------------------------
(***************************************************************************)
(* The rate limiter of redis/rate_limit.py: one Lua script that refills    *)
(* the bucket lazily from Redis server time, decides, stores the bucket    *)
(* and gives the key a TTL; an idle key disappears.  Amounts are kept in   *)
(* units of a token so that the refill per millisecond is a whole number.  *)
(* A script the client re-sends because its answer was lost is, for the    *)
(* bucket, one more check.                                                 *)
(***************************************************************************)
EXTENDS Naturals, Sequences, FiniteSets

CONSTANTS
    Units,      \* units of a token
    Capacity,   \* capacity, in tokens
    Refill,     \* refill_rate_per_second / 1000, in units per millisecond
    Costs,      \* costs callers ask for, in tokens
    MinTTL,     \* the floor of the TTL, 1000 ms
    MaxChecks,  \* bound: requests let through
    MaxNow      \* bound: Redis server time

\* _validate
ASSUME RateAssumption ==
    /\ Units \in Nat \ {0} /\ Capacity \in Nat \ {0} /\ Refill \in Nat \ {0}
    /\ Costs \subseteq 1..Capacity
    /\ MinTTL \in Nat \ {0} /\ MaxChecks \in Nat /\ MaxNow \in Nat

VARIABLES
    bucket,     \* hash of the key: tokens, updated_at, and its expiry
    now,        \* Redis TIME in milliseconds
    decision,   \* the last answer
    spent       \* requests let through: their times, and the total of the costs
                \* before and after each

limitVars == <<bucket, now, decision, spent>>

Full == Capacity * Units

Least(a, b) == IF a < b THEN a ELSE b

NoBucket == [tokens |-> 0, updated_at |-> 0, expires |-> 0]

\* Mutants: the TTL is shorter than the time to fill up; the wait is rounded
\* down.
TTL_Short == 1

RetryAfter_Floor(cost, tokens) == (cost - tokens) \div Refill

\* max(1000, int(capacity / refill_rate_per_second * 2000))
TTL == LET twice == (2 * Full) \div Refill IN IF twice > MinTTL THEN twice ELSE MinTTL

\* What was let through so far.
Total == IF spent = <<>> THEN 0 ELSE spent[Len(spent)].after

\* The tokens the script works with; a missing key means a full bucket.
Refilled ==
    IF now < bucket.expires
    THEN Least(Full, bucket.tokens + (now - bucket.updated_at) * Refill)
    ELSE Full

\* math.ceil((requested - tokens) / refill_per_ms)
RetryAfter(cost, tokens) == (cost - tokens + Refill - 1) \div Refill

-----------------------------------------------------------------------------
LimitInit ==
    /\ bucket = NoBucket
    /\ now = 0
    /\ decision = [allowed |-> TRUE, cost |-> 0, remaining |-> Capacity,
                   retry_after |-> 0, at |-> 0]
    /\ spent = <<>>

\* check: the whole script.
Check(tokens) ==
    LET cost  == tokens * Units
        ok    == Refilled >= cost
        left  == IF ok THEN Refilled - cost ELSE Refilled
    IN  /\ bucket' = [tokens |-> left, updated_at |-> now, expires |-> now + TTL]
        /\ decision' = [allowed |-> ok, cost |-> cost, remaining |-> left \div Units,
                        retry_after |-> IF ok THEN 0 ELSE RetryAfter(cost, Refilled),
                        at |-> now]
        /\ spent' = IF ok THEN Append(spent, [at |-> now, before |-> Total,
                                              after |-> Total + cost]) ELSE spent
        /\ UNCHANGED now

LimitTick ==
    /\ now < MaxNow
    /\ now' = now + 1
    /\ UNCHANGED <<bucket, decision, spent>>

LimitNext ==
    \/ \E tokens \in Costs : Len(spent) < MaxChecks /\ Check(tokens)
    \/ LimitTick

LimitSpec == LimitInit /\ [][LimitNext]_limitVars

-----------------------------------------------------------------------------
(* Properties.                                                              *)

\* The bucket never holds more than the capacity and is always stored with a TTL.
LimitTypeOK ==
    /\ bucket \in [tokens: 0..Full, updated_at: Nat, expires: Nat]
    /\ now \in Nat
    /\ decision \in [allowed: BOOLEAN, cost: Nat, remaining: 0..Capacity,
                     retry_after: Nat, at: Nat]
    /\ spent \in Seq([at: Nat, before: Nat, after: Nat])

\* The limit itself: over any stretch of time no more passes than the capacity
\* plus what was refilled meanwhile, also across expiries of the key.
NeverOverLimit ==
    \A i, j \in DOMAIN spent : i <= j =>
        spent[j].after - spent[i].before <= Full + (spent[j].at - spent[i].at) * Refill

\* retry_after_ms is right: a request refused now passes after that time if
\* nobody else asks, and not a millisecond earlier.
RetryAfterIsExact ==
    ~decision.allowed =>
        /\ Least(Full, bucket.tokens + decision.retry_after * Refill) >= decision.cost
        /\ bucket.tokens + (decision.retry_after - 1) * Refill < decision.cost

\* The lazy bucket with its TTL is the ideal one: deleting an idle key, which
\* brings a full bucket back, is never noticed.
Ideal == INSTANCE TokenBucket WITH
    Costs <- {tokens * Units : tokens \in Costs},
    level <- Refilled,
    allowed <- decision.allowed

ImplementsTokenBucket == Ideal!Spec
=============================================================================
