------------------------------- MODULE Cache -------------------------------
(***************************************************************************)
(* The JSON cache of redis/cache.py: entries with jittered TTLs, tag sets  *)
(* that name the entries to drop together, and get_or_set, which loads a   *)
(* missing entry under the lock of RedisLock.  Every call of get_or_set    *)
(* makes a lock object of its own, so calls are named by their objects.    *)
(***************************************************************************)
EXTENDS RedisLock

CONSTANTS
    Keys,       \* cache keys
    Hot,        \* the key get_or_set is called for
    Tags,       \* tags
    TTLs,       \* ttl_seconds callers may give
    Jitter,     \* jitter_ratio in percent
    TagSlack    \* what a tag set lives longer than its entries, 60 s

ASSUME CacheAssumption ==
    /\ Hot \in Keys
    /\ TTLs \subseteq Nat \ {0} /\ Jitter \in 0..50 /\ TagSlack \in Nat \ {0}
    /\ None \notin Nat

VARIABLES
    entries,    \* entries[k]: tags it was set with, expiry, and whether it was
                \* stored by a call whose lock was still good
    tagSets,    \* tagSets[t]: members and expiry of the set of tag t
    stage       \* how far each call of get_or_set is

cacheVars == <<entries, tagSets, stage>>
vars == <<lockVars, cacheVars>>

NoEntry == [tags |-> {}, expires |-> 0, guarded |-> FALSE]

\* A key without TTL has no expiry; expires = 0 also says that it is absent.
NoTagSet == [members |-> {}, expires |-> 0]

\* The key of the entry or the tag set exists.
Live(x) == x.expires # 0

\* It is still there when the clock has moved on.
Lasts(x) == x.expires = None \/ clock' < x.expires

Stages == {"start", "missed", "locking", "loading", "loaded", "leaving", "left"}

-----------------------------------------------------------------------------
(* set, delete and invalidate_tag, as what they leave behind.               *)

\* _ttl: moved by up to jitter_ratio either way, at least 1.
JitteredTTLs(base) ==
    LET spread == (base * Jitter) \div 100
    IN  {IF moved > 1 THEN moved ELSE 1 : moved \in (base - spread)..(base + spread)}

\* Mutants: EXPIRE NX, or EXPIRE GT, is missing.
ExpireNX_Missing(set, at) == set

ExpireGT_Missing(set, at) == set

\* EXPIRE key ttl NX: only a key without TTL.
ExpireNX(set, at) == IF set.expires = None THEN [set EXCEPT !.expires = at] ELSE set

\* EXPIRE key ttl GT: only a longer TTL; no TTL counts as infinite.
ExpireGT(set, at) ==
    IF set.expires # None /\ at > set.expires THEN [set EXCEPT !.expires = at] ELSE set

\* SADD, which creates the set without TTL if it is not there.
Added(set, k) ==
    IF Live(set) THEN [set EXCEPT !.members = @ \cup {k}]
                 ELSE [members |-> {k}, expires |-> None]

\* The MULTI pipeline of set for a TTL already jittered.
SetEntry(k, T, time, guarded) ==
    /\ entries' = [entries EXCEPT ![k] = [tags |-> T, expires |-> clock + time,
                                         guarded |-> guarded]]
    /\ tagSets' = [t \in Tags |->
          IF t \in T
          THEN LET at == clock + time + TagSlack
               IN  ExpireGT(ExpireNX(Added(tagSets[t], k), at), at)
          ELSE tagSets[t]]

-----------------------------------------------------------------------------
Init ==
    /\ LockInit
    /\ entries = [k \in Keys |-> NoEntry]
    /\ tagSets = [t \in Tags |-> NoTagSet]
    /\ stage = [o \in Objects |-> "start"]

Set(k, T, time) ==
    /\ SetEntry(k, T, time, FALSE)
    /\ UNCHANGED <<lockVars, stage>>

Delete(k) ==
    /\ Live(entries[k])
    /\ entries' = [entries EXCEPT ![k] = NoEntry]
    /\ UNCHANGED <<lockVars, tagSets, stage>>

\* Mutant: the script stops after the first member.
Doomed_One(t) == IF Live(tagSets[t]) /\ tagSets[t].members # {}
                 THEN {CHOOSE k \in tagSets[t].members : TRUE} ELSE {}

\* SMEMBERS of the tag set.
Doomed(t) == IF Live(tagSets[t]) THEN tagSets[t].members ELSE {}

\* _INVALIDATE_TAG_SCRIPT
InvalidateTag(t) ==
    /\ Live(tagSets[t])
    /\ entries' = [k \in Keys |-> IF k \in Doomed(t) THEN NoEntry ELSE entries[k]]
    /\ tagSets' = [tagSets EXCEPT ![t] = NoTagSet]
    /\ UNCHANGED <<lockVars, stage>>

-----------------------------------------------------------------------------
(* get_or_set, for the key Hot.                                             *)

To(o, s) == stage' = [stage EXCEPT ![o] = s]

\* The first get.
Get(o) ==
    /\ stage[o] = "start"
    /\ To(o, IF Live(entries[Hot]) THEN "left" ELSE "missed")
    /\ UNCHANGED <<lockVars, entries, tagSets>>

\* with lock: acquire, whose rounds are those of RedisLock; when they end with
\* acquired = False LockNotAcquiredError leaves get_or_set.
Lock(o) ==
    /\ stage[o] = "missed"
    /\ Acquire(o) /\ To(o, "locking")
    /\ UNCHANGED <<entries, tagSets>>

LockRound(o) ==
    /\ SetAnswered(o) \/ Poll(o) \/ ReleaseAnswered(o)
       \/ Timeout(o, TRUE) \/ Timeout(o, FALSE)
    /\ UNCHANGED cacheVars

\* Mutant: the entry is not looked up again under the lock.
Recheck_Skipped(o) ==
    /\ stage[o] = "locking" /\ pc[o] = "idle" /\ acquired[o]
    /\ To(o, "loading")
    /\ UNCHANGED <<lockVars, entries, tagSets>>

\* The second get, under the lock.
Recheck(o) ==
    /\ stage[o] = "locking" /\ pc[o] = "idle" /\ acquired[o]
    /\ To(o, IF Live(entries[Hot]) THEN "leaving" ELSE "loading")
    /\ UNCHANGED <<lockVars, entries, tagSets>>

\* The loader returns, or raises.
Loaded(o) ==
    /\ stage[o] = "loading"
    /\ To(o, "loaded") \/ To(o, "leaving")
    /\ UNCHANGED <<lockVars, entries, tagSets>>

Store(o, time) ==
    /\ stage[o] = "loaded"
    /\ SetEntry(Hot, Tags, time, clock < until[o])
    /\ To(o, "leaving")
    /\ UNCHANGED lockVars

Leave(o) ==
    /\ stage[o] = "leaving"
    /\ Release(o) /\ To(o, "left")
    /\ UNCHANGED <<entries, tagSets>>

Die(o) ==
    /\ stage[o] \notin {"start", "left"}
    /\ Crash(o) /\ To(o, "left")
    /\ UNCHANGED <<entries, tagSets>>

GetOrSet(o) ==
    \/ Get(o) \/ Lock(o) \/ LockRound(o) \/ Recheck(o) \/ Loaded(o)
    \/ \E base \in TTLs : \E jittered \in JitteredTTLs(base) : Store(o, jittered)
    \/ Leave(o) \/ Die(o)

\* Redis drops the entries and tag sets that expire.
Expire ==
    /\ entries' = [k \in Keys |-> IF Lasts(entries[k]) THEN entries[k] ELSE NoEntry]
    /\ tagSets' = [t \in Tags |-> IF Lasts(tagSets[t]) THEN tagSets[t] ELSE NoTagSet]
    /\ UNCHANGED stage

Next ==
    \/ \E k \in Keys, T \in SUBSET Tags, base \in TTLs :
          \E jittered \in JitteredTTLs(base) : Set(k, T, jittered)
    \/ \E k \in Keys : Delete(k)
    \/ \E t \in Tags : InvalidateTag(t)
    \/ \E o \in Objects : GetOrSet(o)
    \/ (\E c \in late : RunLate(c)) /\ UNCHANGED cacheVars
    \/ LockTick /\ Expire

Spec == Init /\ [][Next]_vars

-----------------------------------------------------------------------------
(* Properties.                                                              *)

\* Entries, tag sets and calls keep their shape; no entry is without TTL.
TypeOK ==
    /\ LockTypeOK
    /\ entries \in [Keys -> [tags: SUBSET Tags, expires: Nat, guarded: BOOLEAN]]
    /\ tagSets \in [Tags -> [members: SUBSET Keys, expires: Nat \cup {None}]]
    /\ stage \in [Objects -> Stages]

\* invalidate_tag can reach every entry: a live entry is in the set of each of
\* its tags, and the set, which has a TTL of its own and so does not stay for
\* ever, outlives it whatever TTLs the other members had.
TagCovers ==
    \A k \in Keys : Live(entries[k]) =>
        \A t \in entries[k].tags :
            /\ Live(tagSets[t])
            /\ k \in tagSets[t].members
            /\ tagSets[t].expires # None
            /\ entries[k].expires < tagSets[t].expires

\* Stampede protection: two calls run the loader at once only if one of them
\* outlived the TTL of its lock.
SingleLoader ==
    \A o1, o2 \in Objects :
        stage[o1] = "loading" /\ stage[o2] = "loading" /\ o1 # o2
            => clock >= until[o1] \/ clock >= until[o2]

\* A call that had to wait for the lock uses what the call before it stored:
\* under a good lock the loader never runs beside an entry that was stored
\* under a good lock.
NoRedundantLoad ==
    \A o \in Objects :
        stage[o] = "loading" /\ clock < until[o] /\ Live(entries[Hot])
            => ~entries[Hot].guarded

\* invalidate_tag leaves no live entry that was set with the tag.
InvalidateClears ==
    [][\A t \in Tags : InvalidateTag(t) =>
          \A k \in Keys : Live(entries'[k]) => t \notin entries'[k].tags]_vars
=============================================================================
