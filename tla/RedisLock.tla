----------------------------- MODULE RedisLock -----------------------------
(***************************************************************************)
(* The distributed lock of redis/locks.py on one key.  Every lock object   *)
(* has one token for its whole life.  acquire polls SET NX PX until its    *)
(* deadline, extend and release compare the token in a script.  The client *)
(* re-sends a command whose answer timed out (redis/runtime.py): the first *)
(* send may have run and lost its answer, or may run late, or never.       *)
(***************************************************************************)
EXTENDS Naturals, FiniteSets

CONSTANTS
    Objects,        \* lock objects; each stands for its token as well
    None,
    LockTTL,        \* ttl_ms
    ExtendTTLs,     \* ttl_ms values given to extend
    Wait,           \* blocking_timeout_seconds
    MaxSends,       \* redis_retry_attempts + 1
    ReuseAtOnce,    \* may a caller acquire or extend again while a command of
                    \* the same object that timed out may still cut the lease?
    MaxUses,        \* bound: acquire calls on one object
    MaxFaults,      \* bound: timeouts and crashes
    MaxClock        \* bound: time

ASSUME LockAssumption ==
    /\ LockTTL \in Nat \ {0} /\ ExtendTTLs \subseteq Nat \ {0} /\ Wait \in Nat
    /\ MaxSends \in Nat \ {0} /\ ReuseAtOnce \in BOOLEAN
    /\ MaxUses \in Nat /\ MaxFaults \in Nat /\ MaxClock \in Nat
    /\ None \notin Objects

VARIABLES
    key,        \* the Redis key: token and expiry
    pc,         \* the method each object is in
    acquired,   \* the attribute of that name
    ttl,        \* TTL the command in progress carries
    deadline,   \* when its acquire gives up
    sentAt,     \* when the command in progress was first sent
    until,      \* how long the caller may rely on the lock
    uses,       \* acquire calls so far
    sends,      \* sends of the command in progress
    late,       \* timed-out commands that may still run
    faults,     \* timeouts and crashes so far
    clock

lockVars == <<key, pc, acquired, ttl, deadline, sentAt, until, uses, sends, late,
              faults, clock>>

\* Methods that wait for Redis.
Commands == {"set", "extend", "release"}

Command == [op: Commands, object: Objects, ttl: Nat]

NoKey == [token |-> None, expires |-> 0]

\* GET of the key; a key that expires is gone (LockTick).
Owner == key.token

-----------------------------------------------------------------------------
(* The commands, as the key they leave behind.                              *)

\* Mutants: SET without NX; a release that does not compare tokens.
NX_Missing == TRUE

AfterRelease_AnyOwner(c) == NoKey

\* The condition of SET NX, and its answer.
NX == Owner = None

\* SET key token NX PX ttl_ms
AfterSet(c) ==
    IF NX THEN [token |-> c.object, expires |-> clock + c.ttl] ELSE key

\* _EXTEND_SCRIPT
AfterExtend(c) ==
    IF Owner = c.object THEN [key EXCEPT !.expires = clock + c.ttl] ELSE key

\* _RELEASE_SCRIPT
AfterRelease(c) == IF Owner = c.object THEN NoKey ELSE key

After(c) ==
    CASE c.op = "set"     -> AfterSet(c)
      [] c.op = "extend"  -> AfterExtend(c)
      [] c.op = "release" -> AfterRelease(c)

-----------------------------------------------------------------------------
LockInit ==
    /\ key = NoKey
    /\ pc = [o \in Objects |-> "idle"]
    /\ acquired = [o \in Objects |-> FALSE]
    /\ ttl = [o \in Objects |-> 0]
    /\ deadline = [o \in Objects |-> 0]
    /\ sentAt = [o \in Objects |-> 0]
    /\ until = [o \in Objects |-> 0]
    /\ uses = [o \in Objects |-> 0]
    /\ sends = [o \in Objects |-> 0]
    /\ late = {}
    /\ faults = 0 /\ clock = 0

\* First send of a command.
Call(o, op, t) ==
    /\ pc' = [pc EXCEPT ![o] = op]
    /\ ttl' = [ttl EXCEPT ![o] = t]
    /\ sentAt' = [sentAt EXCEPT ![o] = clock]
    /\ sends' = [sends EXCEPT ![o] = 1]

\* The method ends, and its local variables with it.
Return(o) ==
    /\ pc' = [pc EXCEPT ![o] = "idle"]
    /\ ttl' = [ttl EXCEPT ![o] = 0]
    /\ deadline' = [deadline EXCEPT ![o] = 0]
    /\ sentAt' = [sentAt EXCEPT ![o] = 0]
    /\ sends' = [sends EXCEPT ![o] = 0]

\* The command object o waits for.
Sent(o) == [op |-> pc[o], object |-> o, ttl |-> ttl[o]]

\* No command under way can cut a lease of t short.
Reusable(o, t) ==
    ReuseAtOnce \/ \A c \in late :
        c.object = o => c.op = "set" \/ (c.op = "extend" /\ c.ttl >= t)

\* acquire; also on an object that is acquired already (a nested with).
Acquire(o) ==
    /\ pc[o] = "idle" /\ uses[o] < MaxUses
    /\ clock + Wait <= MaxClock
    /\ Reusable(o, LockTTL)
    /\ uses' = [uses EXCEPT ![o] = @ + 1]
    /\ deadline' = [deadline EXCEPT ![o] = clock + Wait]
    /\ Call(o, "set", LockTTL)
    /\ UNCHANGED <<key, acquired, until, late, faults, clock>>

\* Mutant: the deadline is not looked at.
GivesUp_Never(o) == FALSE

\* The deadline of acquire has passed.
GivesUp(o) == clock >= deadline[o]

\* SET is answered: acquired, or another round, or the deadline has passed.
SetAnswered(o) ==
    /\ pc[o] = "set"
    /\ key' = AfterSet(Sent(o))
    /\ acquired' = [acquired EXCEPT ![o] = NX]
    /\ until' = [until EXCEPT ![o] = IF NX THEN sentAt[o] + LockTTL ELSE @]
    /\ IF NX \/ GivesUp(o)
       THEN Return(o)
       ELSE pc' = [pc EXCEPT ![o] = "sleep"] /\ UNCHANGED <<ttl, deadline, sentAt, sends>>
    /\ UNCHANGED <<uses, late, faults, clock>>

\* The poll interval is over.
Poll(o) ==
    /\ pc[o] = "sleep" /\ sentAt[o] < clock
    /\ Call(o, "set", LockTTL)
    /\ UNCHANGED <<key, acquired, deadline, until, uses, late, faults, clock>>

\* extend; a caller that asks for less stops relying on more at once.
Extend(o, t) ==
    /\ pc[o] = "idle" /\ acquired[o] /\ Reusable(o, t)
    /\ Call(o, "extend", t)
    /\ until' = [until EXCEPT ![o] = IF clock + t < @ THEN clock + t ELSE @]
    /\ UNCHANGED <<key, acquired, deadline, uses, late, faults, clock>>

\* The caller relies on the extension only if it is told True.
ExtendAnswered(o) ==
    /\ pc[o] = "extend"
    /\ key' = AfterExtend(Sent(o))
    /\ until' = [until EXCEPT ![o] = IF Owner = o THEN sentAt[o] + ttl[o] ELSE @]
    /\ Return(o)
    /\ UNCHANGED <<acquired, uses, late, faults, clock>>

\* release, the end of the with block: the caller relies on nothing any more.
Release(o) ==
    /\ pc[o] = "idle" /\ acquired[o]
    /\ Call(o, "release", 0)
    /\ until' = [until EXCEPT ![o] = 0]
    /\ UNCHANGED <<key, acquired, deadline, uses, late, faults, clock>>

ReleaseAnswered(o) ==
    /\ pc[o] = "release"
    /\ key' = AfterRelease(Sent(o))
    /\ acquired' = [acquired EXCEPT ![o] = FALSE]
    /\ Return(o)
    /\ UNCHANGED <<until, uses, late, faults, clock>>

\* release on an object that does not think it is acquired (a nested acquire
\* failed): nothing is sent, the key stays until it expires.
ReleaseNotHeld(o) ==
    /\ pc[o] = "idle" /\ ~acquired[o] /\ until[o] # 0
    /\ until' = [until EXCEPT ![o] = 0]
    /\ UNCHANGED <<key, pc, acquired, ttl, deadline, sentAt, uses, sends, late, faults, clock>>

\* No answer in time: the command ran or is still under way; it is sent again,
\* or the error is raised, which leaves "acquired" as it was.
Timeout(o, ran) ==
    /\ pc[o] \in Commands /\ faults < MaxFaults
    /\ faults' = faults + 1
    /\ IF ran THEN key' = After(Sent(o)) /\ UNCHANGED late
              ELSE late' = late \cup {Sent(o)} /\ UNCHANGED key
    /\ IF sends[o] < MaxSends
       THEN sends' = [sends EXCEPT ![o] = @ + 1] /\ UNCHANGED <<pc, ttl, deadline, sentAt>>
       ELSE Return(o)
    /\ UNCHANGED <<acquired, until, uses, clock>>

\* A command the client has given up on runs after all.
RunLate(c) ==
    /\ c \in late
    /\ late' = late \ {c}
    /\ key' = After(c)
    /\ UNCHANGED <<pc, acquired, ttl, deadline, sentAt, until, uses, sends, faults, clock>>

\* The process dies, or its task is cancelled at an await: the object is gone.
Crash(o) ==
    /\ pc[o] # "idle" \/ acquired[o]
    /\ faults < MaxFaults /\ faults' = faults + 1
    /\ Return(o)
    /\ acquired' = [acquired EXCEPT ![o] = FALSE]
    /\ until' = [until EXCEPT ![o] = 0]
    /\ uses' = [uses EXCEPT ![o] = MaxUses]
    /\ late' = IF pc[o] \in Commands THEN late \cup {Sent(o)} ELSE late
    /\ UNCHANGED <<key, clock>>

\* Time passes; Redis drops a key that expires, and nobody relies on a lock
\* whose time is over.
LockTick ==
    /\ clock < MaxClock
    /\ clock' = clock + 1
    /\ key' = IF clock' < key.expires THEN key ELSE NoKey
    /\ until' = [o \in Objects |-> IF clock' < until[o] THEN until[o] ELSE 0]
    /\ UNCHANGED <<pc, acquired, ttl, deadline, sentAt, uses, sends, late, faults>>

LockStep(o) ==
    \/ Acquire(o) \/ SetAnswered(o) \/ Poll(o)
    \/ (\E t \in ExtendTTLs : Extend(o, t)) \/ ExtendAnswered(o)
    \/ Release(o) \/ ReleaseAnswered(o) \/ ReleaseNotHeld(o)
    \/ Timeout(o, TRUE) \/ Timeout(o, FALSE)
    \/ Crash(o)

LockNext ==
    \/ \E o \in Objects : LockStep(o)
    \/ \E c \in late : RunLate(c)
    \/ LockTick

LockSpec == LockInit /\ [][LockNext]_lockVars

\* Answers come, sleeping tasks are woken and time passes.
LockFairSpec ==
    /\ LockSpec
    /\ \A o \in Objects : WF_lockVars(SetAnswered(o) \/ Poll(o))
    /\ WF_lockVars(LockTick)

-----------------------------------------------------------------------------
(* Properties.                                                              *)

\* Objects and the key keep their shape.
LockTypeOK ==
    /\ key \in [token: Objects \cup {None}, expires: Nat]
    /\ pc \in [Objects -> Commands \cup {"idle", "sleep"}]
    /\ acquired \in [Objects -> BOOLEAN] /\ ttl \in [Objects -> Nat]
    /\ until \in [Objects -> Nat]
    /\ late \subseteq Command

\* From a successful acquire or extend until its TTL after it was sent, or until
\* it calls release, the caller really has the lock: no late, repeated or
\* foreign command takes it away, so no two callers rely on it at once.
HolderOwnsKey ==
    \A o \in Objects : clock < until[o] => Owner = o

\* An acquire ends: with the lock, with the deadline, or with an error.
AcquireEnds ==
    \A o \in Objects : pc[o] \in {"set", "sleep"} ~> pc[o] = "idle"
=============================================================================
