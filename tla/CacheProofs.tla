----------------------------- MODULE CacheProofs -----------------------------
(***************************************************************************)
(* The lock and the cache for any number of objects, keys, tags, sends and *)
(* faults, and any TTLs: who relies on the lock owns its key, so one call  *)
(* loads at a time and never beside an entry stored under the lock; and a  *)
(* tag reaches every live entry that was set with it.                      *)
(***************************************************************************)
EXTENDS Cache, TLAPS

-----------------------------------------------------------------------------
(* The inductive invariant of the lock.                                     *)

LockTypes ==
    /\ key \in [token: Objects \cup {None}, expires: Nat]
    /\ pc \in [Objects -> Commands \cup {"idle", "sleep"}]
    /\ acquired \in [Objects -> BOOLEAN]
    /\ ttl \in [Objects -> Nat]
    /\ sentAt \in [Objects -> Nat]
    /\ until \in [Objects -> Nat]
    /\ late \subseteq Command
    /\ clock \in Nat
    /\ \A o \in Objects : sentAt[o] <= clock

\* The command does not end or shorten the time its object relies on.
Harmless(c) ==
    clock < until[c.object] =>
        c.op = "set" \/ (c.op = "extend" /\ until[c.object] <= clock + c.ttl)

\* None of the object's commands still under way can cut a lease of t short.
NoCut(o, t) ==
    \A c \in late : c.object = o => c.op = "set" \/ (c.op = "extend" /\ c.ttl >= t)

\* Who relies on the lock has the key, for at least that long.
KeyHeld ==
    \A o \in Objects : clock < until[o] => key.token = o /\ until[o] <= key.expires

CommandsHarmless ==
    /\ \A c \in late : Harmless(c)
    /\ \A o \in Objects : pc[o] \in Commands => Harmless(Sent(o))

\* A method that will make its caller rely on the lock was called with nothing
\* under way that could take it away again.
MethodsSafe ==
    \A o \in Objects :
        /\ pc[o] \in {"set", "sleep"} => ttl[o] = LockTTL
        /\ pc[o] \in {"set", "sleep", "extend"} => NoCut(o, ttl[o])

LockOK == LockTypes /\ KeyHeld /\ CommandsHarmless /\ MethodsSafe

-----------------------------------------------------------------------------
(* The commands.                                                            *)

\* A command in progress and its fields.
LEMMA SentFields ==
    ASSUME LockTypes, NEW o \in Objects
    PROVE  /\ Sent(o).op = pc[o] /\ Sent(o).object = o /\ Sent(o).ttl = ttl[o]
           /\ pc[o] \in Commands => Sent(o) \in Command
BY DEF LockTypes, Sent, Command

\* The key after a command: still a key, and a lease is kept if the command is
\* harmless.
LEMMA AfterCommand ==
    ASSUME LockTypes, KeyHeld, NEW c \in Command, Harmless(c)
    PROVE  /\ After(c) \in [token: Objects \cup {None}, expires: Nat]
           /\ \A o \in Objects : clock < until[o]
                 => After(c).token = o /\ until[o] <= After(c).expires
<1>1. /\ c.op \in Commands /\ c.object \in Objects /\ c.ttl \in Nat
      /\ key \in [token: Objects \cup {None}, expires: Nat] /\ clock \in Nat
      /\ clock + c.ttl \in Nat
  BY DEF Command, LockTypes
<1>2. \A o \in Objects : o # None /\ until[o] \in Nat
  BY LockAssumption DEF LockTypes
<1>3. CASE c.op = "set"
  <2>1. After(c) = IF key.token = None THEN [token |-> c.object, expires |-> clock + c.ttl]
                   ELSE key
    BY <1>3 DEF After, AfterSet, NX, Owner
  <2>2. CASE key.token = None
    <3>1. \A o \in Objects : ~(clock < until[o])
      BY <1>2, <2>2 DEF KeyHeld
    <3> QED BY <1>1, <2>1, <2>2, <3>1
  <2>3. CASE key.token # None
    BY <1>1, <2>1, <2>3 DEF KeyHeld
  <2> QED BY <2>2, <2>3
<1>4. CASE c.op = "extend"
  <2>1. After(c) = IF key.token = c.object THEN [key EXCEPT !.expires = clock + c.ttl]
                   ELSE key
    BY <1>4 DEF After, AfterExtend, Owner
  <2>2. CASE key.token = c.object
    <3>1. PICK new : new = [key EXCEPT !.expires = clock + c.ttl]
      OBVIOUS
    <3>2. /\ new \in [token: Objects \cup {None}, expires: Nat]
          /\ new.token = c.object /\ new.expires = clock + c.ttl
      BY <1>1, <2>2, <3>1
    <3>3. \A o \in Objects : clock < until[o] => o = c.object /\ until[o] <= clock + c.ttl
      BY <1>4, <2>2 DEF KeyHeld, Harmless
    <3> QED BY <2>1, <2>2, <3>1, <3>2, <3>3
  <2>3. CASE key.token # c.object
    BY <1>1, <2>1, <2>3 DEF KeyHeld
  <2> QED BY <2>2, <2>3
<1>5. CASE c.op = "release"
  <2>1. After(c) = IF key.token = c.object THEN NoKey ELSE key
    BY <1>5 DEF After, AfterRelease, Owner
  <2>2. CASE key.token = c.object
    <3>1. \A o \in Objects : ~(clock < until[o])
      BY <1>5, <2>2 DEF KeyHeld, Harmless
    <3>2. NoKey \in [token: Objects \cup {None}, expires: Nat]
      BY DEF NoKey
    <3> QED BY <2>1, <2>2, <3>1, <3>2
  <2>3. CASE key.token # c.object
    BY <1>1, <2>1, <2>3 DEF KeyHeld
  <2> QED BY <2>2, <2>3
<1> QED BY <1>1, <1>3, <1>4, <1>5 DEF Commands

-----------------------------------------------------------------------------
(* The actions of the lock, one by one.                                     *)

\* What a step of one object has to keep, the others being left alone.
LEMMA ObjectStep ==
    ASSUME LockOK, NEW o \in Objects, LockTypes', KeyHeld', clock' = clock,
           \A q \in Objects : q # o =>
               pc'[q] = pc[q] /\ ttl'[q] = ttl[q] /\ until'[q] = until[q],
           \A c \in late' : c \in late \/ c.object = o,
           \A c \in late' : c.object = o => Harmless(c)',
           pc'[o] \in Commands => Harmless(Sent(o))',
           pc'[o] \in {"set", "sleep"} => ttl'[o] = LockTTL,
           pc'[o] \in {"set", "sleep", "extend"} => NoCut(o, ttl[o])'
    PROVE  LockOK'
<1>1. late' \subseteq Command
  BY DEF LockTypes
<1>2. ASSUME NEW c \in Command, c.object # o, Harmless(c) PROVE Harmless(c)'
  BY <1>2 DEF Harmless, Command
<1>3. CommandsHarmless'
  <2>1. \A c \in late' : Harmless(c)'
    BY <1>1, <1>2 DEF LockOK, CommandsHarmless
  <2>2. ASSUME NEW q \in Objects, pc'[q] \in Commands PROVE Harmless(Sent(q))'
    <3>1. CASE q = o
      BY <2>2, <3>1
    <3>2. CASE q # o
      <4>1. Sent(q)' = Sent(q) /\ Sent(q).object = q
        BY <3>2 DEF Sent
      <4>2. Harmless(Sent(q)) /\ Sent(q) \in Command
        BY <2>2, <3>2, SentFields DEF LockOK, CommandsHarmless
      <4> QED BY <1>2, <3>2, <4>1, <4>2
    <3> QED BY <3>1, <3>2
  <2> QED BY <2>1, <2>2 DEF CommandsHarmless
<1>4. MethodsSafe'
  <2> SUFFICES ASSUME NEW q \in Objects
               PROVE  /\ pc'[q] \in {"set", "sleep"} => ttl'[q] = LockTTL
                      /\ pc'[q] \in {"set", "sleep", "extend"} => NoCut(q, ttl[q])'
    BY DEF MethodsSafe
  <2>1. CASE q = o
    BY <2>1
  <2>2. CASE q # o
    <3>1. \A t : NoCut(q, t) => NoCut(q, t)'
      BY <2>2 DEF NoCut
    <3> QED BY <2>2, <3>1 DEF LockOK, MethodsSafe, NoCut
  <2> QED BY <2>1, <2>2
<1> QED BY <1>3, <1>4 DEF LockOK

\* A method ends.
LEMMA ReturnStep ==
    ASSUME LockOK, NEW o \in Objects, Return(o), clock' = clock
    PROVE  /\ pc' \in [Objects -> Commands \cup {"idle", "sleep"}]
           /\ ttl' \in [Objects -> Nat] /\ sentAt' \in [Objects -> Nat]
           /\ \A q \in Objects : sentAt'[q] <= clock'
           /\ pc'[o] = "idle"
           /\ \A q \in Objects : q # o => pc'[q] = pc[q] /\ ttl'[q] = ttl[q]
BY DEF Return, LockOK, LockTypes

\* A command is sent for the first time.
LEMMA CallStep ==
    ASSUME LockOK, NEW o \in Objects, NEW op \in Commands, NEW t \in Nat, Call(o, op, t),
           clock' = clock
    PROVE  /\ pc' \in [Objects -> Commands \cup {"idle", "sleep"}]
           /\ ttl' \in [Objects -> Nat] /\ sentAt' \in [Objects -> Nat]
           /\ \A q \in Objects : sentAt'[q] <= clock'
           /\ pc'[o] = op /\ ttl'[o] = t
           /\ \A q \in Objects : q # o => pc'[q] = pc[q] /\ ttl'[q] = ttl[q]
           /\ Sent(o)' = [op |-> op, object |-> o, ttl |-> t]
BY DEF Call, LockOK, LockTypes, Sent

\* Relying on the lock for a shorter time is always safe.
LEMMA ShorterLease ==
    ASSUME LockOK, key' = key, clock' = clock, until' \in [Objects -> Nat],
           \A q \in Objects : until'[q] <= until[q]
    PROVE  /\ KeyHeld'
           /\ \A c \in Command : Harmless(c) => Harmless(c)'
<1>1. \A q \in Objects : until[q] \in Nat /\ until'[q] \in Nat
  BY DEF LockOK, LockTypes
<1>2. clock \in Nat /\ key.expires \in Nat
  BY DEF LockOK, LockTypes
<1>3. KeyHeld'
  BY <1>1, <1>2 DEF LockOK, KeyHeld
<1>4. ASSUME NEW c \in Command, Harmless(c) PROVE Harmless(c)'
  <2>1. c.object \in Objects /\ c.ttl \in Nat
    BY DEF Command
  <2> QED BY <1>1, <1>2, <1>4, <2>1 DEF Harmless
<1> QED BY <1>3, <1>4

\* acquire is called with nothing under way that could cut the lease.
LEMMA AcquireOK ==
    ASSUME LockOK, NEW o \in Objects, Acquire(o), NoCut(o, LockTTL) PROVE LockOK'
<1>1. /\ Call(o, "set", LockTTL) /\ "set" \in Commands /\ LockTTL \in Nat
      /\ UNCHANGED <<key, acquired, until, late, clock>>
  BY LockAssumption DEF Acquire, Commands
<1>2. /\ pc' \in [Objects -> Commands \cup {"idle", "sleep"}]
      /\ ttl' \in [Objects -> Nat] /\ sentAt' \in [Objects -> Nat]
      /\ \A q \in Objects : sentAt'[q] <= clock'
      /\ pc'[o] = "set" /\ ttl'[o] = LockTTL
      /\ \A q \in Objects : q # o => pc'[q] = pc[q] /\ ttl'[q] = ttl[q]
      /\ Sent(o)' = [op |-> "set", object |-> o, ttl |-> LockTTL]
  BY <1>1, CallStep
<1>3. LockTypes'
  BY <1>1, <1>2 DEF LockOK, LockTypes
<1>4. KeyHeld'
  BY <1>1 DEF LockOK, KeyHeld
<1>5. \A c \in late' : Harmless(c)'
  BY <1>1 DEF LockOK, CommandsHarmless, Harmless
<1>6. Harmless(Sent(o))'
  BY <1>2 DEF Harmless
<1>7. NoCut(o, ttl[o])'
  BY <1>1, <1>2 DEF NoCut
<1> QED BY <1>1, <1>2, <1>3, <1>4, <1>5, <1>6, <1>7, ObjectStep

\* Another round of acquire.
LEMMA PollOK == ASSUME LockOK, NEW o \in Objects, Poll(o) PROVE LockOK'
<1>1. /\ Call(o, "set", LockTTL) /\ "set" \in Commands /\ LockTTL \in Nat
      /\ pc[o] = "sleep"
      /\ UNCHANGED <<key, acquired, until, late, clock>>
  BY LockAssumption DEF Poll, Commands
<1>2. /\ pc' \in [Objects -> Commands \cup {"idle", "sleep"}]
      /\ ttl' \in [Objects -> Nat] /\ sentAt' \in [Objects -> Nat]
      /\ \A q \in Objects : sentAt'[q] <= clock'
      /\ pc'[o] = "set" /\ ttl'[o] = LockTTL
      /\ \A q \in Objects : q # o => pc'[q] = pc[q] /\ ttl'[q] = ttl[q]
      /\ Sent(o)' = [op |-> "set", object |-> o, ttl |-> LockTTL]
  BY <1>1, CallStep
<1>3. LockTypes'
  BY <1>1, <1>2 DEF LockOK, LockTypes
<1>4. KeyHeld'
  BY <1>1 DEF LockOK, KeyHeld
<1>5. \A c \in late' : Harmless(c)'
  BY <1>1 DEF LockOK, CommandsHarmless, Harmless
<1>6. Harmless(Sent(o))'
  BY <1>2 DEF Harmless
<1>7. NoCut(o, ttl[o])'
  <2>1. NoCut(o, LockTTL)
    BY <1>1 DEF LockOK, MethodsSafe
  <2> QED BY <1>1, <1>2, <2>1 DEF NoCut
<1> QED BY <1>1, <1>2, <1>3, <1>4, <1>5, <1>6, <1>7, ObjectStep

\* SET is answered: a caller that got the key has it for the TTL.
LEMMA SetAnsweredOK == ASSUME LockOK, NEW o \in Objects, SetAnswered(o) PROVE LockOK'
<1>1. /\ pc[o] = "set" /\ key' = AfterSet(Sent(o))
      /\ acquired' = [acquired EXCEPT ![o] = NX]
      /\ until' = [until EXCEPT ![o] = IF NX THEN sentAt[o] + LockTTL ELSE @]
      /\ \/ Return(o)
         \/ ~NX /\ pc' = [pc EXCEPT ![o] = "sleep"] /\ UNCHANGED <<ttl, sentAt>>
      /\ late' = late /\ clock' = clock
  BY DEF SetAnswered
<1>2. /\ ttl[o] = LockTTL /\ NoCut(o, LockTTL) /\ LockTTL \in Nat /\ clock \in Nat
      /\ sentAt[o] \in Nat /\ sentAt[o] <= clock /\ LockTTL # 0
  BY <1>1, LockAssumption DEF LockOK, LockTypes, MethodsSafe
<1>3. /\ pc' \in [Objects -> Commands \cup {"idle", "sleep"}]
      /\ ttl' \in [Objects -> Nat] /\ sentAt' \in [Objects -> Nat]
      /\ \A q \in Objects : sentAt'[q] <= clock'
      /\ pc'[o] = "idle" \/ (pc'[o] = "sleep" /\ ttl'[o] = LockTTL)
      /\ \A q \in Objects : q # o => pc'[q] = pc[q] /\ ttl'[q] = ttl[q]
  <2>1. CASE Return(o)
    BY <1>1, <2>1, ReturnStep
  <2>2. CASE pc' = [pc EXCEPT ![o] = "sleep"] /\ UNCHANGED <<ttl, sentAt>>
    BY <1>1, <1>2, <2>2 DEF LockOK, LockTypes
  <2> QED BY <1>1, <2>1, <2>2
<1>4. pc'[o] \notin Commands /\ pc'[o] # "set" /\ pc'[o] # "extend"
  BY <1>3 DEF Commands
<1>5. pc'[o] \in {"set", "sleep", "extend"} => NoCut(o, ttl[o])'
  BY <1>1, <1>2, <1>3 DEF NoCut
<1>6. acquired' \in [Objects -> BOOLEAN]
  <2>1. NX \in BOOLEAN
    BY DEF NX
  <2> QED BY <1>1, <2>1 DEF LockOK, LockTypes
<1>7. CASE NX
  <2>1. key.token = None /\ \A q \in Objects : ~(clock < until[q])
    BY <1>7, LockAssumption DEF LockOK, KeyHeld, NX, Owner
  <2>2. key' = [token |-> o, expires |-> clock + LockTTL]
    BY <1>1, <1>2, <1>7, SentFields DEF AfterSet, LockOK
  <2>3. /\ until' \in [Objects -> Nat] /\ until'[o] = sentAt[o] + LockTTL
        /\ \A q \in Objects : q # o => until'[q] = until[q]
    BY <1>1, <1>2, <1>7 DEF LockOK, LockTypes
  <2>4. LockTypes'
    BY <1>1, <1>2, <1>3, <1>6, <2>2, <2>3 DEF LockOK, LockTypes
  <2>5. KeyHeld'
    BY <1>1, <1>2, <2>1, <2>2, <2>3 DEF KeyHeld
  <2>6. ASSUME NEW c \in late', c.object = o PROVE Harmless(c)'
    <3>1. c.ttl \in Nat /\ (c.op = "set" \/ (c.op = "extend" /\ c.ttl >= LockTTL))
      BY <1>1, <1>2, <2>4, <2>6 DEF LockTypes, Command, NoCut
    <3> QED BY <1>1, <1>2, <2>3, <2>6, <3>1 DEF Harmless
  <2> QED BY <1>1, <1>3, <1>4, <1>5, <2>3, <2>4, <2>5, <2>6, ObjectStep
<1>8. CASE ~NX
  <2>1. key' = key /\ until' = until
    BY <1>1, <1>8 DEF AfterSet, LockOK, LockTypes
  <2>2. LockTypes' /\ KeyHeld'
    BY <1>1, <1>3, <1>6, <2>1 DEF LockOK, LockTypes, KeyHeld
  <2>3. \A c \in late' : Harmless(c)'
    BY <1>1, <2>1 DEF LockOK, CommandsHarmless, Harmless
  <2> QED BY <1>1, <1>3, <1>4, <1>5, <2>1, <2>2, <2>3, ObjectStep
<1> QED BY <1>7, <1>8

\* extend is called with nothing under way that could cut the new lease.
LEMMA ExtendOK ==
    ASSUME LockOK, NEW o \in Objects, NEW t \in Nat, Extend(o, t), NoCut(o, t) PROVE LockOK'
<1>1. /\ Call(o, "extend", t) /\ "extend" \in Commands
      /\ until' = [until EXCEPT ![o] = IF clock + t < @ THEN clock + t ELSE @]
      /\ UNCHANGED <<key, acquired, late, clock>>
  BY DEF Extend, Commands
<1>2. /\ pc' \in [Objects -> Commands \cup {"idle", "sleep"}]
      /\ ttl' \in [Objects -> Nat] /\ sentAt' \in [Objects -> Nat]
      /\ \A q \in Objects : sentAt'[q] <= clock'
      /\ pc'[o] = "extend" /\ ttl'[o] = t
      /\ \A q \in Objects : q # o => pc'[q] = pc[q] /\ ttl'[q] = ttl[q]
      /\ Sent(o)' = [op |-> "extend", object |-> o, ttl |-> t]
  BY <1>1, CallStep
<1>3. clock \in Nat /\ clock + t \in Nat /\ \A q \in Objects : until[q] \in Nat
  BY DEF LockOK, LockTypes
<1>4. /\ until' \in [Objects -> Nat] /\ until'[o] <= clock + t
      /\ \A q \in Objects : until'[q] <= until[q] /\ (q # o => until'[q] = until[q])
  BY <1>1, <1>3 DEF LockOK, LockTypes
<1>5. LockTypes'
  BY <1>1, <1>2, <1>4 DEF LockOK, LockTypes
<1>6. KeyHeld' /\ \A c \in late' : Harmless(c)'
  BY <1>1, <1>4, ShorterLease DEF LockOK, LockTypes, CommandsHarmless
<1>7. Harmless(Sent(o))'
  BY <1>1, <1>2, <1>4 DEF Harmless
<1>8. NoCut(o, ttl[o])'
  BY <1>1, <1>2 DEF NoCut
<1> QED BY <1>1, <1>2, <1>4, <1>5, <1>6, <1>7, <1>8, ObjectStep

\* A caller that was told the lease is extended has it for the new TTL.
LEMMA ExtendAnsweredOK == ASSUME LockOK, NEW o \in Objects, ExtendAnswered(o) PROVE LockOK'
<1>1. /\ pc[o] = "extend" /\ key' = AfterExtend(Sent(o)) /\ Return(o)
      /\ until' = [until EXCEPT ![o] = IF key.token = o THEN sentAt[o] + ttl[o] ELSE @]
      /\ UNCHANGED <<acquired, late, clock>>
  BY DEF ExtendAnswered, Owner
<1>2. /\ NoCut(o, ttl[o]) /\ ttl[o] \in Nat /\ clock \in Nat
      /\ sentAt[o] \in Nat /\ sentAt[o] <= clock
  BY <1>1 DEF LockOK, LockTypes, MethodsSafe
<1>3. /\ pc' \in [Objects -> Commands \cup {"idle", "sleep"}]
      /\ ttl' \in [Objects -> Nat] /\ sentAt' \in [Objects -> Nat]
      /\ \A q \in Objects : sentAt'[q] <= clock'
      /\ pc'[o] = "idle"
      /\ \A q \in Objects : q # o => pc'[q] = pc[q] /\ ttl'[q] = ttl[q]
  BY <1>1, ReturnStep
<1>4. pc'[o] \notin Commands /\ pc'[o] \notin {"set", "sleep", "extend"}
  BY <1>3 DEF Commands
<1>5. key' = IF key.token = o THEN [key EXCEPT !.expires = clock + ttl[o]] ELSE key
  BY <1>1, SentFields DEF AfterExtend, Owner, LockOK
<1>6. CASE key.token = o
  <2>1. /\ key' \in [token: Objects \cup {None}, expires: Nat]
        /\ key'.token = o /\ key'.expires = clock + ttl[o]
    <3>1. key \in [token: Objects \cup {None}, expires: Nat] /\ clock + ttl[o] \in Nat
      BY <1>2 DEF LockOK, LockTypes
    <3>2. key' = [key EXCEPT !.expires = clock + ttl[o]]
      BY <1>5, <1>6
    <3> QED BY <1>6, <3>1, <3>2
  <2>2. /\ until' \in [Objects -> Nat] /\ until'[o] = sentAt[o] + ttl[o]
        /\ \A q \in Objects : q # o => until'[q] = until[q]
    BY <1>1, <1>2, <1>6 DEF LockOK, LockTypes
  <2>3. LockTypes'
    BY <1>1, <1>3, <2>1, <2>2 DEF LockOK, LockTypes
  <2>4. KeyHeld'
    <3>1. \A q \in Objects : q # o => ~(clock < until[q])
      BY <1>6 DEF LockOK, KeyHeld
    <3> QED BY <1>1, <1>2, <2>1, <2>2, <3>1 DEF KeyHeld
  <2>5. ASSUME NEW c \in late', c.object = o PROVE Harmless(c)'
    <3>1. c.ttl \in Nat /\ (c.op = "set" \/ (c.op = "extend" /\ c.ttl >= ttl[o]))
      BY <1>1, <1>2, <2>3, <2>5 DEF LockTypes, Command, NoCut
    <3> QED BY <1>1, <1>2, <2>2, <2>5, <3>1 DEF Harmless
  <2> QED BY <1>1, <1>3, <1>4, <2>2, <2>3, <2>4, <2>5, ObjectStep
<1>7. CASE key.token # o
  <2>1. key' = key /\ until' = until
    BY <1>1, <1>5, <1>7 DEF LockOK, LockTypes
  <2>2. LockTypes' /\ KeyHeld'
    BY <1>1, <1>3, <2>1 DEF LockOK, LockTypes, KeyHeld
  <2>3. \A c \in late' : Harmless(c)'
    BY <1>1, <2>1 DEF LockOK, CommandsHarmless, Harmless
  <2> QED BY <1>1, <1>3, <1>4, <2>1, <2>2, <2>3, ObjectStep
<1> QED BY <1>6, <1>7

\* release is called.
LEMMA ReleaseOK == ASSUME LockOK, NEW o \in Objects, Release(o) PROVE LockOK'
<1>1. /\ Call(o, "release", 0) /\ "release" \in Commands /\ 0 \in Nat
      /\ until' = [until EXCEPT ![o] = 0]
      /\ UNCHANGED <<key, acquired, late, clock>>
  BY DEF Release, Commands
<1>2. /\ pc' \in [Objects -> Commands \cup {"idle", "sleep"}]
      /\ ttl' \in [Objects -> Nat] /\ sentAt' \in [Objects -> Nat]
      /\ \A q \in Objects : sentAt'[q] <= clock'
      /\ pc'[o] = "release"
      /\ \A q \in Objects : q # o => pc'[q] = pc[q] /\ ttl'[q] = ttl[q]
      /\ Sent(o)' = [op |-> "release", object |-> o, ttl |-> 0]
  BY <1>1, CallStep
<1>3. /\ until' \in [Objects -> Nat] /\ until'[o] = 0
      /\ \A q \in Objects : until'[q] <= until[q] /\ (q # o => until'[q] = until[q])
  BY <1>1 DEF LockOK, LockTypes
<1>4. LockTypes'
  BY <1>1, <1>2, <1>3 DEF LockOK, LockTypes
<1>5. KeyHeld' /\ \A c \in late' : Harmless(c)'
  BY <1>1, <1>3, ShorterLease DEF LockOK, LockTypes, CommandsHarmless
<1>6. Harmless(Sent(o))'
  BY <1>2, <1>3, <1>4 DEF Harmless, LockTypes
<1> QED BY <1>1, <1>2, <1>3, <1>4, <1>5, <1>6, ObjectStep

\* release is answered; its caller relied on nothing since it called.
LEMMA ReleaseAnsweredOK == ASSUME LockOK, NEW o \in Objects, ReleaseAnswered(o) PROVE LockOK'
<1>1. /\ pc[o] = "release" /\ key' = AfterRelease(Sent(o)) /\ Return(o)
      /\ acquired' = [acquired EXCEPT ![o] = FALSE]
      /\ UNCHANGED <<until, late, clock>>
  BY DEF ReleaseAnswered
<1>2. /\ pc' \in [Objects -> Commands \cup {"idle", "sleep"}]
      /\ ttl' \in [Objects -> Nat] /\ sentAt' \in [Objects -> Nat]
      /\ \A q \in Objects : sentAt'[q] <= clock'
      /\ pc'[o] = "idle"
      /\ \A q \in Objects : q # o => pc'[q] = pc[q] /\ ttl'[q] = ttl[q]
  BY <1>1, ReturnStep
<1>3. Sent(o) \in Command /\ Harmless(Sent(o)) /\ After(Sent(o)) = AfterRelease(Sent(o))
  BY <1>1, SentFields DEF LockOK, CommandsHarmless, Commands, After
<1>4. /\ key' \in [token: Objects \cup {None}, expires: Nat]
      /\ \A q \in Objects : clock < until[q] => key'.token = q /\ until[q] <= key'.expires
  BY <1>1, <1>3, AfterCommand DEF LockOK
<1>5. LockTypes' /\ KeyHeld'
  BY <1>1, <1>2, <1>4 DEF LockOK, LockTypes, KeyHeld
<1>6. \A c \in late' : Harmless(c)'
  BY <1>1 DEF LockOK, CommandsHarmless, Harmless
<1>7. pc'[o] \notin Commands /\ pc'[o] \notin {"set", "sleep", "extend"}
  BY <1>2 DEF Commands
<1> QED BY <1>1, <1>2, <1>5, <1>6, <1>7, ObjectStep

\* release without a lock.
LEMMA ReleaseNotHeldOK == ASSUME LockOK, NEW o \in Objects, ReleaseNotHeld(o) PROVE LockOK'
<1>1. /\ pc[o] = "idle" /\ until' = [until EXCEPT ![o] = 0]
      /\ UNCHANGED <<key, pc, acquired, ttl, sentAt, late, clock>>
  BY DEF ReleaseNotHeld
<1>2. /\ until' \in [Objects -> Nat] /\ until'[o] = 0
      /\ \A q \in Objects : until'[q] <= until[q] /\ (q # o => until'[q] = until[q])
  BY <1>1 DEF LockOK, LockTypes
<1>3. LockTypes'
  BY <1>1, <1>2 DEF LockOK, LockTypes
<1>4. KeyHeld' /\ \A c \in late' : Harmless(c)'
  BY <1>1, <1>2, ShorterLease DEF LockOK, LockTypes, CommandsHarmless
<1>5. pc'[o] \notin Commands /\ pc'[o] \notin {"set", "sleep", "extend"}
  BY <1>1 DEF Commands
<1> QED BY <1>1, <1>2, <1>3, <1>4, <1>5, ObjectStep

\* The answer is lost, or the command is left under way, and perhaps sent again.
LEMMA LockTimeoutOK ==
    ASSUME LockOK, NEW o \in Objects, NEW ran \in BOOLEAN, Timeout(o, ran) PROVE LockOK'
<1> DEFINE c == Sent(o)
<1>1. /\ pc[o] \in Commands
      /\ (key' = After(c) /\ late' = late) \/ (key' = key /\ late' = late \cup {c})
      /\ UNCHANGED <<pc, ttl, sentAt>> \/ Return(o)
      /\ UNCHANGED <<acquired, until, clock>>
  BY DEF Timeout
<1>2. c \in Command /\ Harmless(c) /\ c.op = pc[o] /\ c.object = o /\ c.ttl = ttl[o]
  BY <1>1, SentFields DEF LockOK, CommandsHarmless
<1> HIDE DEF c
<1>3. /\ pc' \in [Objects -> Commands \cup {"idle", "sleep"}]
      /\ ttl' \in [Objects -> Nat] /\ sentAt' \in [Objects -> Nat]
      /\ \A q \in Objects : sentAt'[q] <= clock'
      /\ (pc'[o] = pc[o] /\ ttl'[o] = ttl[o]) \/ pc'[o] = "idle"
      /\ \A q \in Objects : q # o => pc'[q] = pc[q] /\ ttl'[q] = ttl[q]
  <2>1. CASE UNCHANGED <<pc, ttl, sentAt>>
    BY <1>1, <2>1 DEF LockOK, LockTypes
  <2>2. CASE Return(o)
    BY <1>1, <2>2, ReturnStep
  <2> QED BY <1>1, <2>1, <2>2
<1>4. /\ key' \in [token: Objects \cup {None}, expires: Nat]
      /\ \A q \in Objects : clock < until[q] => key'.token = q /\ until[q] <= key'.expires
  <2>1. CASE key' = key
    BY <2>1 DEF LockOK, LockTypes, KeyHeld
  <2>2. CASE key' = After(c)
    BY <1>2, <2>2, AfterCommand DEF LockOK
  <2> QED BY <1>1, <2>1, <2>2
<1>5. LockTypes' /\ KeyHeld'
  BY <1>1, <1>2, <1>3, <1>4 DEF LockOK, LockTypes, KeyHeld
<1>6. \A d : Harmless(d) => Harmless(d)'
  BY <1>1 DEF Harmless
<1>7. \A d \in late' : d \in late \/ d = c
  BY <1>1
<1>8. \A d \in late' : Harmless(d)'
  BY <1>2, <1>6, <1>7 DEF LockOK, CommandsHarmless
<1>9. CASE pc'[o] = "idle"
  <2>1. pc'[o] \notin Commands /\ pc'[o] \notin {"set", "sleep", "extend"}
    BY <1>9 DEF Commands
  <2> QED BY <1>1, <1>2, <1>3, <1>5, <1>7, <1>8, <2>1, ObjectStep
<1>10. CASE pc'[o] = pc[o] /\ ttl'[o] = ttl[o]
  <2>1. Harmless(Sent(o))'
    <3>1. Sent(o)' = c
      BY <1>10 DEF Sent, c
    <3> QED BY <1>2, <1>6, <3>1
  <2>2. ASSUME pc'[o] \in {"set", "sleep", "extend"} PROVE NoCut(o, ttl[o])'
    <3>1. NoCut(o, ttl[o]) /\ ttl[o] \in Nat
      BY <1>10, <2>2 DEF LockOK, MethodsSafe, LockTypes
    <3>2. c.op \in {"set", "extend"} /\ c.ttl >= ttl[o]
      BY <1>1, <1>2, <1>10, <2>2, <3>1 DEF Commands
    <3> QED BY <1>7, <1>10, <3>1, <3>2 DEF NoCut
  <2>3. pc'[o] \in {"set", "sleep"} => ttl'[o] = LockTTL
    BY <1>10 DEF LockOK, MethodsSafe
  <2> QED BY <1>1, <1>2, <1>3, <1>5, <1>7, <1>8, <2>1, <2>2, <2>3, ObjectStep
<1> QED BY <1>3, <1>9, <1>10

\* The process dies; what it sent may still run.
LEMMA LockCrashOK == ASSUME LockOK, NEW o \in Objects, Crash(o) PROVE LockOK'
<1> DEFINE c == Sent(o)
<1>1. /\ Return(o) /\ acquired' = [acquired EXCEPT ![o] = FALSE]
      /\ until' = [until EXCEPT ![o] = 0]
      /\ late' = IF pc[o] \in Commands THEN late \cup {c} ELSE late
      /\ UNCHANGED <<key, clock>>
  BY DEF Crash
<1>2. c.object = o /\ (pc[o] \in Commands => c \in Command)
  BY SentFields DEF LockOK
<1> HIDE DEF c
<1>3. /\ pc' \in [Objects -> Commands \cup {"idle", "sleep"}]
      /\ ttl' \in [Objects -> Nat] /\ sentAt' \in [Objects -> Nat]
      /\ \A q \in Objects : sentAt'[q] <= clock'
      /\ pc'[o] = "idle"
      /\ \A q \in Objects : q # o => pc'[q] = pc[q] /\ ttl'[q] = ttl[q]
  BY <1>1, ReturnStep
<1>4. /\ until' \in [Objects -> Nat] /\ until'[o] = 0
      /\ \A q \in Objects : until'[q] <= until[q] /\ (q # o => until'[q] = until[q])
  BY <1>1 DEF LockOK, LockTypes
<1>5. late' \subseteq Command /\ \A d \in late' : d \in late \/ d.object = o
  BY <1>1, <1>2 DEF LockOK, LockTypes
<1>6. LockTypes'
  BY <1>1, <1>3, <1>4, <1>5 DEF LockOK, LockTypes
<1>7. KeyHeld'
  BY <1>1, <1>4, ShorterLease
<1>8. \A d \in late' : d.object = o => Harmless(d)'
  BY <1>4, <1>6 DEF Harmless, LockTypes
<1>9. pc'[o] \notin Commands /\ pc'[o] \notin {"set", "sleep", "extend"}
  BY <1>3 DEF Commands
<1> QED BY <1>1, <1>3, <1>4, <1>5, <1>6, <1>7, <1>8, <1>9, ObjectStep

\* A command its client has given up on runs.
LEMMA RunLateOK == ASSUME LockOK, NEW c \in late, RunLate(c) PROVE LockOK'
<1>1. /\ late' = late \ {c} /\ key' = After(c)
      /\ UNCHANGED <<pc, acquired, ttl, sentAt, until, clock>>
  BY DEF RunLate
<1>2. c \in Command /\ Harmless(c)
  BY DEF LockOK, LockTypes, CommandsHarmless
<1>3. /\ key' \in [token: Objects \cup {None}, expires: Nat]
      /\ \A q \in Objects : clock < until[q] => key'.token = q /\ until[q] <= key'.expires
  BY <1>1, <1>2, AfterCommand DEF LockOK
<1>4. LockTypes' /\ KeyHeld'
  BY <1>1, <1>3 DEF LockOK, LockTypes, KeyHeld
<1>5. CommandsHarmless'
  BY <1>1 DEF LockOK, CommandsHarmless, Harmless, Sent
<1>6. MethodsSafe'
  BY <1>1 DEF LockOK, MethodsSafe, NoCut
<1> QED BY <1>4, <1>5, <1>6 DEF LockOK

\* Time passes: the key outlives everybody who relies on it.
LEMMA LockTickOK == ASSUME LockOK, LockTick PROVE LockOK'
<1>1. /\ clock' = clock + 1 /\ key' = IF clock' < key.expires THEN key ELSE NoKey
      /\ until' = [o \in Objects |-> IF clock' < until[o] THEN until[o] ELSE 0]
      /\ UNCHANGED <<pc, acquired, ttl, sentAt, late>>
  BY DEF LockTick
<1>2. /\ clock \in Nat /\ key.expires \in Nat /\ NoKey \in [token: Objects \cup {None}, expires: Nat]
      /\ \A o \in Objects : until[o] \in Nat /\ sentAt[o] \in Nat /\ sentAt[o] <= clock
  BY DEF LockOK, LockTypes, NoKey
<1>3. /\ until' \in [Objects -> Nat]
      /\ \A o \in Objects : clock' < until'[o] => until'[o] = until[o] /\ clock < until[o]
  BY <1>1, <1>2
<1>4. LockTypes'
  BY <1>1, <1>2, <1>3 DEF LockOK, LockTypes
<1>5. KeyHeld'
  <2> SUFFICES ASSUME NEW o \in Objects, clock' < until'[o]
               PROVE  key'.token = o /\ until'[o] <= key'.expires
    BY DEF KeyHeld
  <2>1. until'[o] = until[o] /\ key.token = o /\ until[o] <= key.expires
    BY <1>3 DEF LockOK, KeyHeld
  <2>2. clock' < key.expires
    BY <1>1, <1>2, <2>1
  <2> QED BY <1>1, <2>1, <2>2
<1>6. ASSUME NEW c \in Command, Harmless(c) PROVE Harmless(c)'
  <2>1. c.object \in Objects /\ c.ttl \in Nat
    BY DEF Command
  <2> QED BY <1>1, <1>2, <1>3, <1>6, <2>1 DEF Harmless
<1>7. CommandsHarmless'
  <2>1. \A o \in Objects : Sent(o)' = Sent(o)
    BY <1>1 DEF Sent
  <2> QED BY <1>1, <1>6, <2>1, SentFields DEF LockOK, LockTypes, CommandsHarmless
<1>8. MethodsSafe'
  BY <1>1 DEF LockOK, MethodsSafe, NoCut
<1> QED BY <1>4, <1>5, <1>7, <1>8 DEF LockOK

\* A lock nobody has.
LEMMA LockInitOK == LockInit => LockOK
<1> SUFFICES ASSUME LockInit PROVE LockOK
  OBVIOUS
<1>1. LockTypes
  BY DEF LockInit, LockTypes, NoKey
<1>2. \A o \in Objects : until[o] = 0 /\ pc[o] = "idle"
  BY DEF LockInit
<1> QED BY <1>1, <1>2 DEF LockInit, LockOK, KeyHeld, CommandsHarmless, MethodsSafe, Commands

-----------------------------------------------------------------------------
(* The lock by itself.                                                      *)

\* Every step keeps the invariant when callers do not reuse an object while one
\* of its timed-out commands may still cut the new lease.
LEMMA LockNextOK == ReuseAtOnce = FALSE /\ LockOK /\ [LockNext]_lockVars => LockOK'
<1> SUFFICES ASSUME ReuseAtOnce = FALSE, LockOK, [LockNext]_lockVars PROVE LockOK'
  OBVIOUS
<1>1. CASE UNCHANGED lockVars
  BY <1>1 DEF lockVars, LockOK, LockTypes, KeyHeld, CommandsHarmless, Harmless, Sent,
              MethodsSafe, NoCut
<1>2. ASSUME NEW o \in Objects, Acquire(o) PROVE LockOK'
  <2>1. NoCut(o, LockTTL)
    BY <1>2 DEF Acquire, Reusable, NoCut
  <2> QED BY <1>2, <2>1, AcquireOK
<1>3. ASSUME NEW o \in Objects, NEW t \in ExtendTTLs, Extend(o, t) PROVE LockOK'
  <2>1. NoCut(o, t) /\ t \in Nat
    BY <1>3, LockAssumption DEF Extend, Reusable, NoCut
  <2> QED BY <1>3, <2>1, ExtendOK
<1>4. ASSUME NEW o \in Objects, LockStep(o) PROVE LockOK'
  BY <1>2, <1>3, <1>4, SetAnsweredOK, PollOK, ExtendAnsweredOK, ReleaseOK, ReleaseAnsweredOK,
     ReleaseNotHeldOK, LockTimeoutOK, LockCrashOK DEF LockStep
<1> QED BY <1>1, <1>4, RunLateOK, LockTickOK DEF LockNext

\* Who relies on the lock owns its key, whatever is late, repeated or lost, if
\* objects are not reused at once.
THEOREM LockTheorem ==
    ASSUME ReuseAtOnce = FALSE
    PROVE  LockSpec => []HolderOwnsKey
<1>1. LockOK /\ [LockNext]_lockVars => LockOK'
  BY LockNextOK
<1>2. LockOK => HolderOwnsKey
  BY DEF LockOK, KeyHeld, HolderOwnsKey, Owner
<1> QED BY <1>1, <1>2, LockInitOK, PTL DEF LockSpec

-----------------------------------------------------------------------------
(* The inductive invariant of the cache.                                    *)

\* Every tag set has a TTL between two commands.
CacheTypes ==
    /\ entries \in [Keys -> [tags: SUBSET Tags, expires: Nat, guarded: BOOLEAN]]
    /\ tagSets \in [Tags -> [members: SUBSET Keys, expires: Nat]]
    /\ stage \in [Objects -> Stages]

\* A call has sent nothing before it takes the lock, and takes it only once.
CallsOK ==
    \A o \in Objects :
        /\ stage[o] \in {"start", "missed"} => pc[o] = "idle" /\ \A c \in late : c.object # o
        /\ pc[o] \in {"set", "sleep", "extend"} => stage[o] = "locking"

CacheOK == LockOK /\ CacheTypes /\ CallsOK /\ TagCovers /\ NoRedundantLoad

-----------------------------------------------------------------------------
(* The entries and the tag sets.                                            *)

\* A jittered TTL is still a TTL.
LEMMA JitterPositive ==
    ASSUME NEW base \in TTLs, NEW time \in JitteredTTLs(base)
    PROVE  time \in Nat \ {0}
<1>1. base \in Nat /\ Jitter \in Nat
  BY CacheAssumption
<1>2. PICK product \in Nat : product = base * Jitter
  <2>1. base * Jitter \in Nat
    BY <1>1
  <2> QED BY <2>1
<1>3. PICK spread \in Nat : spread = product \div 100
  OBVIOUS
<1>4. PICK moved \in (base - spread)..(base + spread) : time = IF moved > 1 THEN moved ELSE 1
  BY <1>2, <1>3 DEF JitteredTTLs
<1> QED BY <1>1, <1>4

\* SADD, EXPIRE NX and EXPIRE GT: the set gains a member and loses nothing, and
\* its TTL is there and never cut.
LEMMA TagSetGrows ==
    ASSUME NEW old \in [members: SUBSET Keys, expires: Nat], NEW k \in Keys,
           NEW at \in Nat \ {0}, NEW new, new = ExpireGT(ExpireNX(Added(old, k), at), at)
    PROVE  /\ new \in [members: SUBSET Keys, expires: Nat]
           /\ k \in new.members /\ new.expires >= at
           /\ Live(old) => old.members \subseteq new.members /\ old.expires <= new.expires
<1>1. None \notin Nat
  BY CacheAssumption
<1>2. CASE Live(old)
  <2>1. PICK a : a = [old EXCEPT !.members = @ \cup {k}]
    OBVIOUS
  <2>2. /\ a \in [members: SUBSET Keys, expires: Nat]
        /\ a.members = old.members \cup {k} /\ a.expires = old.expires
    BY <2>1
  <2>3. Added(old, k) = a
    BY <1>2, <2>1 DEF Added
  <2>4. ExpireNX(a, at) = a
    BY <1>1, <2>2 DEF ExpireNX
  <2>5. new = IF at > a.expires THEN [a EXCEPT !.expires = at] ELSE a
    BY <1>1, <2>2, <2>3, <2>4 DEF ExpireGT
  <2>6. CASE at > a.expires
    <3>1. new = [a EXCEPT !.expires = at]
      BY <2>5, <2>6
    <3>2. /\ new \in [members: SUBSET Keys, expires: Nat]
          /\ new.members = a.members /\ new.expires = at
      BY <2>2, <3>1
    <3> QED BY <2>2, <2>6, <3>2
  <2>7. CASE ~(at > a.expires)
    <3>1. new = a
      BY <2>5, <2>7
    <3> QED BY <2>2, <2>7, <3>1
  <2> QED BY <2>6, <2>7
<1>3. CASE ~Live(old)
  <2>1. PICK a : a = [members |-> {k}, expires |-> None]
    OBVIOUS
  <2>2. Added(old, k) = a /\ a.expires = None
    BY <1>3, <2>1 DEF Added
  <2>3. PICK b : b = [a EXCEPT !.expires = at]
    OBVIOUS
  <2>4. ExpireNX(a, at) = b
    BY <2>2, <2>3 DEF ExpireNX
  <2>5. b \in [members: SUBSET Keys, expires: Nat] /\ b.members = {k} /\ b.expires = at
    BY <2>1, <2>3
  <2>6. new = b
    BY <2>2, <2>4, <2>5 DEF ExpireGT
  <2> QED BY <1>3, <2>5, <2>6
<1> QED BY <1>2, <1>3

\* set leaves every entry within the reach of its tags.
LEMMA SetEntryOK ==
    ASSUME LockOK, CacheTypes, TagCovers, NEW k \in Keys, NEW T \in SUBSET Tags,
           NEW time \in Nat \ {0}, NEW guarded \in BOOLEAN, SetEntry(k, T, time, guarded)
    PROVE  /\ entries' \in [Keys -> [tags: SUBSET Tags, expires: Nat, guarded: BOOLEAN]]
           /\ tagSets' \in [Tags -> [members: SUBSET Keys, expires: Nat]]
           /\ TagCovers'
           /\ entries'[k].guarded = guarded
           /\ \A j \in Keys : j # k => entries'[j] = entries[j]
<1>1. PICK end \in Nat, at \in Nat \ {0} :
         end = clock + time /\ at = clock + time + TagSlack /\ end < at
  <2>1. clock \in Nat /\ TagSlack \in Nat \ {0}
    BY CacheAssumption DEF LockOK, LockTypes
  <2>2. clock + time \in Nat /\ clock + time + TagSlack \in Nat \ {0}
        /\ clock + time < clock + time + TagSlack
    BY <2>1
  <2> QED BY <2>2
<1>2. PICK e : e = [tags |-> T, expires |-> end, guarded |-> guarded]
  OBVIOUS
<1>3. /\ e \in [tags: SUBSET Tags, expires: Nat, guarded: BOOLEAN]
      /\ e.tags = T /\ e.expires = end /\ e.guarded = guarded
  BY <1>2
<1>4. entries' = [entries EXCEPT ![k] = e]
  BY <1>1, <1>2 DEF SetEntry
<1>5. /\ entries' \in [Keys -> [tags: SUBSET Tags, expires: Nat, guarded: BOOLEAN]]
      /\ entries'[k] = e /\ \A j \in Keys : j # k => entries'[j] = entries[j]
  BY <1>3, <1>4 DEF CacheTypes
<1>6. \A t \in Tags :
         tagSets'[t] = IF t \in T THEN ExpireGT(ExpireNX(Added(tagSets[t], k), at), at)
                       ELSE tagSets[t]
  BY <1>1 DEF SetEntry
<1>7. DOMAIN tagSets' = Tags /\ tagSets' = [t \in Tags |-> tagSets'[t]]
  BY DEF SetEntry
<1>8. ASSUME NEW t \in Tags
      PROVE  /\ tagSets'[t] \in [members: SUBSET Keys, expires: Nat]
             /\ t \in T => k \in tagSets'[t].members /\ tagSets'[t].expires >= at
             /\ Live(tagSets[t]) => /\ tagSets[t].members \subseteq tagSets'[t].members
                                    /\ tagSets[t].expires <= tagSets'[t].expires
  <2>1. tagSets[t] \in [members: SUBSET Keys, expires: Nat]
    BY DEF CacheTypes
  <2>2. CASE t \in T
    BY <1>6, <2>1, <2>2, TagSetGrows
  <2>3. CASE t \notin T
    <3>1. tagSets'[t] = tagSets[t]
      BY <1>6, <2>3
    <3> QED BY <2>1, <2>3, <3>1
  <2> QED BY <2>2, <2>3
<1>9. tagSets' \in [Tags -> [members: SUBSET Keys, expires: Nat]]
  BY <1>7, <1>8
<1>10. TagCovers'
  <2> SUFFICES ASSUME NEW j \in Keys, Live(entries'[j]), NEW t \in entries'[j].tags
               PROVE  /\ Live(tagSets'[t]) /\ j \in tagSets'[t].members
                      /\ tagSets'[t].expires # None
                      /\ entries'[j].expires < tagSets'[t].expires
    BY DEF TagCovers
  <2>1. t \in Tags /\ entries'[j].expires \in Nat
    BY <1>5
  <2>2. tagSets'[t].expires \in Nat /\ tagSets'[t].expires # None
    BY <1>8, <2>1, CacheAssumption
  <2>3. CASE j = k
    <3>1. t \in T /\ entries'[j].expires = end
      BY <1>3, <1>5, <2>3
    <3>2. k \in tagSets'[t].members /\ tagSets'[t].expires >= at
      BY <1>8, <2>1, <3>1
    <3> QED BY <1>1, <2>2, <2>3, <3>1, <3>2 DEF Live
  <2>4. CASE j # k
    <3>1. entries'[j] = entries[j]
      BY <1>5, <2>4
    <3>2. /\ Live(tagSets[t]) /\ j \in tagSets[t].members
          /\ entries[j].expires < tagSets[t].expires
      BY <3>1 DEF TagCovers
    <3>3. /\ j \in tagSets'[t].members /\ tagSets[t].expires <= tagSets'[t].expires
          /\ tagSets[t].expires \in Nat
      BY <1>8, <2>1, <3>2 DEF CacheTypes
    <3> QED BY <2>1, <2>2, <3>1, <3>2, <3>3 DEF Live
  <2> QED BY <2>3, <2>4
<1> QED BY <1>3, <1>5, <1>9, <1>10

\* Dropping entries, and tag sets that no live entry needs, is safe.
LEMMA DropOK ==
    ASSUME CacheTypes, TagCovers,
           \A k \in Keys : entries'[k] = entries[k] \/ entries'[k] = NoEntry,
           entries' = [k \in Keys |-> entries'[k]],
           \A t \in Tags : tagSets'[t] = tagSets[t] \/ tagSets'[t] = NoTagSet,
           tagSets' = [t \in Tags |-> tagSets'[t]],
           \A k \in Keys, t \in Tags :
               Live(entries'[k]) /\ t \in entries'[k].tags => tagSets'[t] = tagSets[t]
    PROVE  /\ entries' \in [Keys -> [tags: SUBSET Tags, expires: Nat, guarded: BOOLEAN]]
           /\ tagSets' \in [Tags -> [members: SUBSET Keys, expires: Nat]]
           /\ TagCovers'
<1>1. NoEntry \in [tags: SUBSET Tags, expires: Nat, guarded: BOOLEAN] /\ ~Live(NoEntry)
  BY DEF NoEntry, Live
<1>2. NoTagSet \in [members: SUBSET Keys, expires: Nat]
  BY DEF NoTagSet
<1>3. /\ entries' \in [Keys -> [tags: SUBSET Tags, expires: Nat, guarded: BOOLEAN]]
      /\ tagSets' \in [Tags -> [members: SUBSET Keys, expires: Nat]]
  BY <1>1, <1>2 DEF CacheTypes
<1>4. TagCovers'
  <2> SUFFICES ASSUME NEW k \in Keys, Live(entries'[k]), NEW t \in entries'[k].tags
               PROVE  /\ Live(tagSets'[t]) /\ k \in tagSets'[t].members
                      /\ tagSets'[t].expires # None
                      /\ entries'[k].expires < tagSets'[t].expires
    BY DEF TagCovers
  <2>1. entries'[k] = entries[k] /\ t \in Tags
    BY <1>1, <1>3
  <2>2. tagSets'[t] = tagSets[t]
    BY <2>1
  <2> QED BY <2>1, <2>2 DEF TagCovers
<1> QED BY <1>3, <1>4

\* A tag reaches every live entry that was set with it.
LEMMA DoomedIsAll ==
    ASSUME TagCovers, NEW t \in Tags, Live(tagSets[t]), NEW k \in Keys, Live(entries[k]),
           t \in entries[k].tags
    PROVE  k \in Doomed(t)
BY DEF TagCovers, Doomed

-----------------------------------------------------------------------------
(* The actions of the cache, one by one.                                    *)

\* What is stored beside a loader that still has the lock was not stored under
\* it: the steps that neither start a loader nor store under the lock.
LEMMA LoadersAlone ==
    ASSUME NoRedundantLoad,
           \A o \in Objects : stage'[o] = "loading" /\ clock' < until'[o]
               => stage[o] = "loading" /\ clock < until[o],
           \/ entries'[Hot] = entries[Hot]
           \/ ~Live(entries'[Hot])
           \/ ~entries'[Hot].guarded
    PROVE  NoRedundantLoad'
BY DEF NoRedundantLoad

\* The lock is left alone.
LEMMA LockIdle == ASSUME LockOK, UNCHANGED lockVars PROVE LockOK'
BY DEF lockVars, LockOK, LockTypes, KeyHeld, CommandsHarmless, Harmless, Sent, MethodsSafe, NoCut

\* set, for whichever key.
LEMMA CacheSetOK ==
    ASSUME CacheOK, NEW k \in Keys, NEW T \in SUBSET Tags, NEW time \in Nat \ {0},
           Set(k, T, time)
    PROVE  CacheOK'
<1>1. SetEntry(k, T, time, FALSE) /\ UNCHANGED lockVars /\ stage' = stage
  BY DEF Set
<1>2. /\ entries' \in [Keys -> [tags: SUBSET Tags, expires: Nat, guarded: BOOLEAN]]
      /\ tagSets' \in [Tags -> [members: SUBSET Keys, expires: Nat]]
      /\ TagCovers'
      /\ entries'[k].guarded = FALSE
      /\ \A j \in Keys : j # k => entries'[j] = entries[j]
  BY <1>1, SetEntryOK DEF CacheOK
<1>3. LockOK' /\ CacheTypes' /\ CallsOK'
  BY <1>1, <1>2, LockIdle DEF CacheOK, CacheTypes, CallsOK, lockVars
<1>4. NoRedundantLoad'
  <2>1. entries'[Hot] = entries[Hot] \/ ~entries'[Hot].guarded
    BY <1>2, CacheAssumption
  <2> QED BY <1>1, <2>1, LoadersAlone DEF CacheOK, lockVars
<1> QED BY <1>2, <1>3, <1>4 DEF CacheOK

\* delete.
LEMMA DeleteOK == ASSUME CacheOK, NEW k \in Keys, Delete(k) PROVE CacheOK'
<1>1. /\ entries' = [entries EXCEPT ![k] = NoEntry] /\ tagSets' = tagSets /\ stage' = stage
      /\ UNCHANGED lockVars
  BY DEF Delete
<1>2. /\ \A j \in Keys : entries'[j] = entries[j] \/ entries'[j] = NoEntry
      /\ entries' = [j \in Keys |-> entries'[j]]
      /\ tagSets' = [t \in Tags |-> tagSets'[t]]
  BY <1>1 DEF CacheOK, CacheTypes
<1>3. /\ entries' \in [Keys -> [tags: SUBSET Tags, expires: Nat, guarded: BOOLEAN]]
      /\ tagSets' \in [Tags -> [members: SUBSET Keys, expires: Nat]]
      /\ TagCovers'
  BY <1>1, <1>2, DropOK DEF CacheOK
<1>4. LockOK' /\ CacheTypes' /\ CallsOK'
  BY <1>1, <1>3, LockIdle DEF CacheOK, CacheTypes, CallsOK, lockVars
<1>5. NoRedundantLoad'
  <2>1. entries'[Hot] = entries[Hot] \/ ~Live(entries'[Hot])
    BY <1>2, CacheAssumption DEF NoEntry, Live
  <2> QED BY <1>1, <2>1, LoadersAlone DEF CacheOK, lockVars
<1> QED BY <1>3, <1>4, <1>5 DEF CacheOK

\* invalidate_tag drops its set; every live entry that needed it goes with it.
LEMMA InvalidateTagOK == ASSUME CacheOK, NEW t \in Tags, InvalidateTag(t) PROVE CacheOK'
<1>1. /\ entries' = [k \in Keys |-> IF k \in Doomed(t) THEN NoEntry ELSE entries[k]]
      /\ tagSets' = [tagSets EXCEPT ![t] = NoTagSet]
      /\ Live(tagSets[t]) /\ stage' = stage /\ UNCHANGED lockVars
  BY DEF InvalidateTag
<1>2. /\ \A k \in Keys : entries'[k] = entries[k] \/ entries'[k] = NoEntry
      /\ entries' = [k \in Keys |-> entries'[k]]
      /\ \A s \in Tags : tagSets'[s] = IF s = t THEN NoTagSet ELSE tagSets[s]
      /\ tagSets' = [s \in Tags |-> tagSets'[s]]
  BY <1>1 DEF CacheOK, CacheTypes
<1>3. ASSUME NEW k \in Keys, NEW s \in Tags, Live(entries'[k]), s \in entries'[k].tags
      PROVE  tagSets'[s] = tagSets[s]
  <2>1. k \notin Doomed(t) /\ entries'[k] = entries[k]
    BY <1>1, <1>3 DEF NoEntry, Live
  <2>2. s # t
    BY <1>1, <1>3, <2>1, DoomedIsAll DEF CacheOK
  <2> QED BY <1>2, <2>2
<1>4. /\ entries' \in [Keys -> [tags: SUBSET Tags, expires: Nat, guarded: BOOLEAN]]
      /\ tagSets' \in [Tags -> [members: SUBSET Keys, expires: Nat]]
      /\ TagCovers'
  BY <1>2, <1>3, DropOK DEF CacheOK
<1>5. LockOK' /\ CacheTypes' /\ CallsOK'
  BY <1>1, <1>4, LockIdle DEF CacheOK, CacheTypes, CallsOK, lockVars
<1>6. NoRedundantLoad'
  <2>1. entries'[Hot] = entries[Hot] \/ ~Live(entries'[Hot])
    BY <1>2, CacheAssumption DEF NoEntry, Live
  <2> QED BY <1>1, <2>1, LoadersAlone DEF CacheOK, lockVars
<1> QED BY <1>4, <1>5, <1>6 DEF CacheOK

\* Moving on to another stage.
LEMMA ToStep ==
    ASSUME CacheTypes, NEW o \in Objects, NEW s \in Stages, To(o, s)
    PROVE  /\ stage' \in [Objects -> Stages] /\ stage'[o] = s
           /\ \A q \in Objects : q # o => stage'[q] = stage[q]
BY DEF To, CacheTypes

\* The steps of a call that leave entries and tag sets alone.
LEMMA QuietStep ==
    ASSUME CacheOK, UNCHANGED <<entries, tagSets>>, LockOK', CallsOK',
           stage' \in [Objects -> Stages],
           \A q \in Objects : stage'[q] = "loading" /\ clock' < until'[q]
               => (stage[q] = "loading" /\ clock < until[q]) \/ ~Live(entries[Hot])
    PROVE  CacheOK'
<1>1. CacheTypes' /\ TagCovers'
  BY DEF CacheOK, CacheTypes, TagCovers
<1>2. NoRedundantLoad'
  BY DEF CacheOK, NoRedundantLoad
<1> QED BY <1>1, <1>2 DEF CacheOK

\* The first get of a call, the get under the lock, and the end of the loader: a
\* loader starts only when the entry is missing.
LEMMA StageOnlyOK ==
    ASSUME CacheOK, NEW o \in Objects, Get(o) \/ Recheck(o) \/ Loaded(o) PROVE CacheOK'
<1>1. PICK s \in Stages :
         /\ To(o, s) /\ UNCHANGED lockVars /\ UNCHANGED <<entries, tagSets>>
         /\ \/ stage[o] = "start" /\ s \in {"left", "missed"}
            \/ stage[o] = "locking" /\ pc[o] = "idle" /\ s \in {"leaving", "loading"}
            \/ stage[o] = "loading" /\ s \in {"loaded", "leaving"}
         /\ s = "loading" => ~Live(entries[Hot])
  <2>1. {"left", "missed", "leaving", "loading", "loaded"} \subseteq Stages
    BY DEF Stages
  <2>2. CASE Get(o)
    <3>1. CASE Live(entries[Hot])
      BY <2>1, <2>2, <3>1 DEF Get
    <3>2. CASE ~Live(entries[Hot])
      BY <2>1, <2>2, <3>2 DEF Get
    <3> QED BY <3>1, <3>2
  <2>3. CASE Recheck(o)
    <3>1. CASE Live(entries[Hot])
      BY <2>1, <2>3, <3>1 DEF Recheck
    <3>2. CASE ~Live(entries[Hot])
      BY <2>1, <2>3, <3>2 DEF Recheck
    <3> QED BY <3>1, <3>2
  <2>4. CASE Loaded(o)
    BY <2>1, <2>4 DEF Loaded
  <2> QED BY <2>2, <2>3, <2>4
<1>2. /\ stage' \in [Objects -> Stages] /\ stage'[o] = s
      /\ \A q \in Objects : q # o => stage'[q] = stage[q]
  BY <1>1, ToStep DEF CacheOK
<1>3. LockOK' /\ UNCHANGED <<pc, late, clock, until>>
  BY <1>1, LockIdle DEF CacheOK, lockVars
<1>4. CallsOK'
  <2> SUFFICES ASSUME NEW q \in Objects
               PROVE  /\ stage'[q] \in {"start", "missed"}
                            => pc[q] = "idle" /\ \A c \in late : c.object # q
                      /\ pc[q] \in {"set", "sleep", "extend"} => stage'[q] = "locking"
    BY <1>3 DEF CallsOK
  <2>1. CASE q # o
    BY <1>2, <2>1 DEF CacheOK, CallsOK
  <2>2. CASE q = o
    BY <1>1, <1>2, <2>2 DEF CacheOK, CallsOK
  <2> QED BY <2>1, <2>2
<1>5. \A q \in Objects : stage'[q] = "loading" /\ clock' < until'[q]
         => (stage[q] = "loading" /\ clock < until[q]) \/ ~Live(entries[Hot])
  BY <1>1, <1>2, <1>3
<1> QED BY <1>1, <1>2, <1>3, <1>4, <1>5, QuietStep

\* A call takes the lock; nothing of its own object can still be under way.
LEMMA CacheLockOK == ASSUME CacheOK, NEW o \in Objects, Lock(o) PROVE CacheOK'
<1>1. /\ stage[o] = "missed" /\ Acquire(o) /\ To(o, "locking")
      /\ UNCHANGED <<entries, tagSets>> /\ "locking" \in Stages
  BY DEF Lock, Stages
<1>2. NoCut(o, LockTTL)
  BY <1>1 DEF CacheOK, CallsOK, NoCut
<1>3. LockOK'
  BY <1>1, <1>2, AcquireOK DEF CacheOK
<1>4. /\ stage' \in [Objects -> Stages] /\ stage'[o] = "locking"
      /\ \A q \in Objects : q # o => stage'[q] = stage[q]
  BY <1>1, ToStep DEF CacheOK
<1>5. /\ late' = late /\ clock' = clock /\ until' = until
      /\ \A q \in Objects : q # o => pc'[q] = pc[q]
  BY <1>1 DEF Acquire, Call, CacheOK, LockOK, LockTypes
<1>6. CallsOK'
  BY <1>4, <1>5 DEF CacheOK, CallsOK
<1>7. \A q \in Objects : stage'[q] = "loading" /\ clock' < until'[q]
         => (stage[q] = "loading" /\ clock < until[q]) \/ ~Live(entries[Hot])
  BY <1>4, <1>5
<1> QED BY <1>1, <1>3, <1>4, <1>6, <1>7, QuietStep

\* The rounds of acquire, and the answer to release.
LEMMA LockRoundOK == ASSUME CacheOK, NEW o \in Objects, LockRound(o) PROVE CacheOK'
<1>1. /\ SetAnswered(o) \/ Poll(o) \/ ReleaseAnswered(o) \/ Timeout(o, TRUE) \/ Timeout(o, FALSE)
      /\ stage' = stage /\ UNCHANGED <<entries, tagSets>>
  BY DEF LockRound, cacheVars
<1>2. LockOK'
  BY <1>1, SetAnsweredOK, PollOK, ReleaseAnsweredOK, LockTimeoutOK DEF CacheOK
<1>3. /\ clock' = clock /\ pc[o] # "idle"
      /\ \A q \in Objects : q # o => pc'[q] = pc[q] /\ until'[q] = until[q]
      /\ until'[o] = until[o] \/ pc[o] = "set"
      /\ \A c \in late' : c \in late \/ c.object = o
      /\ pc'[o] \in {"set", "sleep", "extend"} => pc[o] \in {"set", "sleep", "extend"}
  <2>1. pc \in [Objects -> Commands \cup {"idle", "sleep"}] /\ until \in [Objects -> Nat]
    BY DEF CacheOK, LockOK, LockTypes
  <2>2. CASE SetAnswered(o)
    BY <2>1, <2>2 DEF SetAnswered, Return
  <2>3. CASE Poll(o)
    BY <2>1, <2>3 DEF Poll, Call
  <2>4. CASE ReleaseAnswered(o)
    BY <2>1, <2>4 DEF ReleaseAnswered, Return
  <2>5. ASSUME NEW ran \in BOOLEAN, Timeout(o, ran)
        PROVE  /\ clock' = clock /\ pc[o] # "idle" /\ until' = until
               /\ \A q \in Objects : q # o => pc'[q] = pc[q]
               /\ \A c \in late' : c \in late \/ c.object = o
               /\ pc'[o] = pc[o] \/ pc'[o] = "idle"
    <3>1. clock' = clock /\ pc[o] # "idle" /\ until' = until
      BY <2>5 DEF Timeout, Commands
    <3>2. late' = late \/ late' = late \cup {Sent(o)}
      BY <2>5 DEF Timeout
    <3>3. \A c \in late' : c \in late \/ c.object = o
      BY <3>2 DEF Sent
    <3>4. pc' = pc \/ pc' = [pc EXCEPT ![o] = "idle"]
      BY <2>5 DEF Timeout, Return
    <3> QED BY <2>1, <3>1, <3>3, <3>4
  <2> QED BY <1>1, <2>2, <2>3, <2>4, <2>5
<1>4. CallsOK'
  <2> SUFFICES ASSUME NEW q \in Objects
               PROVE  /\ stage[q] \in {"start", "missed"}
                            => pc'[q] = "idle" /\ \A c \in late' : c.object # q
                      /\ pc'[q] \in {"set", "sleep", "extend"} => stage[q] = "locking"
    BY <1>1 DEF CallsOK
  <2>1. CASE q # o
    BY <1>3, <2>1 DEF CacheOK, CallsOK
  <2>2. CASE q = o
    BY <1>3, <2>2 DEF CacheOK, CallsOK
  <2> QED BY <2>1, <2>2
<1>5. \A q \in Objects : stage'[q] = "loading" /\ clock' < until'[q]
         => (stage[q] = "loading" /\ clock < until[q]) \/ ~Live(entries[Hot])
  <2>1. stage[o] = "loading" => until'[o] = until[o]
    BY <1>3 DEF CacheOK, CallsOK
  <2> QED BY <1>1, <1>3, <2>1
<1> QED BY <1>1, <1>2, <1>4, <1>5, QuietStep DEF CacheOK, CacheTypes

\* What was loaded is stored; if the lock is still good no other call with a good
\* lock is loading.
LEMMA StoreOK ==
    ASSUME CacheOK, NEW o \in Objects, NEW time \in Nat \ {0}, Store(o, time) PROVE CacheOK'
<1>1. /\ stage[o] = "loaded" /\ SetEntry(Hot, Tags, time, clock < until[o])
      /\ To(o, "leaving") /\ UNCHANGED lockVars /\ "leaving" \in Stages
  BY DEF Store, Stages
<1>2. Hot \in Keys /\ Tags \in SUBSET Tags /\ (clock < until[o]) \in BOOLEAN
  BY CacheAssumption
<1>3. /\ entries' \in [Keys -> [tags: SUBSET Tags, expires: Nat, guarded: BOOLEAN]]
      /\ tagSets' \in [Tags -> [members: SUBSET Keys, expires: Nat]]
      /\ TagCovers'
      /\ entries'[Hot].guarded = (clock < until[o])
  BY <1>1, <1>2, SetEntryOK DEF CacheOK
<1>4. /\ stage' \in [Objects -> Stages] /\ stage'[o] = "leaving"
      /\ \A q \in Objects : q # o => stage'[q] = stage[q]
  BY <1>1, ToStep DEF CacheOK
<1>5. LockOK' /\ CacheTypes'
  BY <1>1, <1>3, <1>4, LockIdle DEF CacheOK, CacheTypes
<1>6. UNCHANGED <<pc, late, clock, until>>
  BY <1>1 DEF lockVars
<1>7. CallsOK'
  BY <1>1, <1>4, <1>6 DEF CacheOK, CallsOK
<1>8. NoRedundantLoad'
  <2> SUFFICES ASSUME NEW q \in Objects, stage'[q] = "loading", clock < until[q]
               PROVE  ~entries'[Hot].guarded
    BY <1>6 DEF NoRedundantLoad
  <2>1. q # o /\ key.token = q
    BY <1>4 DEF CacheOK, LockOK, KeyHeld
  <2>2. ~(clock < until[o])
    BY <2>1 DEF CacheOK, LockOK, KeyHeld
  <2> QED BY <1>3, <2>2
<1> QED BY <1>3, <1>5, <1>7, <1>8 DEF CacheOK

\* A call releases its lock, or dies.
LEMMA EndOK == ASSUME CacheOK, NEW o \in Objects, Leave(o) \/ Die(o) PROVE CacheOK'
<1>1. /\ Release(o) \/ Crash(o)
      /\ To(o, "left") /\ UNCHANGED <<entries, tagSets>> /\ "left" \in Stages
  BY DEF Leave, Die, Stages
<1>2. LockOK'
  BY <1>1, ReleaseOK, LockCrashOK DEF CacheOK
<1>3. /\ stage' \in [Objects -> Stages] /\ stage'[o] = "left"
      /\ \A q \in Objects : q # o => stage'[q] = stage[q]
  BY <1>1, ToStep DEF CacheOK
<1>4. /\ clock' = clock /\ pc'[o] \in {"release", "idle"}
      /\ \A q \in Objects : q # o => pc'[q] = pc[q] /\ until'[q] = until[q]
      /\ \A c \in late' : c \in late \/ c.object = o
  <2>1. pc \in [Objects -> Commands \cup {"idle", "sleep"}] /\ until \in [Objects -> Nat]
    BY DEF CacheOK, LockOK, LockTypes
  <2>2. CASE Release(o)
    BY <2>1, <2>2 DEF Release, Call
  <2>3. CASE Crash(o)
    <3>1. late' = late \/ late' = late \cup {Sent(o)}
      BY <2>3 DEF Crash
    <3>2. \A c \in late' : c \in late \/ c.object = o
      BY <3>1 DEF Sent
    <3> QED BY <2>1, <2>3, <3>2 DEF Crash, Return
  <2> QED BY <1>1, <2>2, <2>3
<1>5. CallsOK'
  BY <1>3, <1>4 DEF CacheOK, CallsOK
<1>6. \A q \in Objects : stage'[q] = "loading" /\ clock' < until'[q]
         => (stage[q] = "loading" /\ clock < until[q]) \/ ~Live(entries[Hot])
  BY <1>3, <1>4
<1> QED BY <1>1, <1>2, <1>3, <1>5, <1>6, QuietStep

\* A late command of the lock.
LEMMA CacheRunLateOK ==
    ASSUME CacheOK, NEW c \in late, RunLate(c), UNCHANGED cacheVars PROVE CacheOK'
<1>1. /\ late' = late \ {c} /\ UNCHANGED <<pc, until, clock>>
      /\ UNCHANGED <<entries, tagSets>> /\ stage' = stage
  BY DEF RunLate, cacheVars
<1>2. LockOK'
  BY RunLateOK DEF CacheOK
<1>3. CallsOK'
  BY <1>1 DEF CacheOK, CallsOK
<1> QED BY <1>1, <1>2, <1>3, QuietStep DEF CacheOK, CacheTypes

\* Time passes: the set of a tag outlives the entries that need it.
LEMMA CacheTickOK == ASSUME CacheOK, LockTick, Expire PROVE CacheOK'
<1>1. /\ clock' = clock + 1
      /\ until' = [o \in Objects |-> IF clock' < until[o] THEN until[o] ELSE 0]
      /\ UNCHANGED <<pc, late>> /\ stage' = stage
  BY DEF LockTick, Expire
<1>2. LockOK'
  BY LockTickOK DEF CacheOK
<1>3. /\ \A k \in Keys : entries'[k] = entries[k] \/ entries'[k] = NoEntry
      /\ entries' = [k \in Keys |-> entries'[k]]
      /\ \A t \in Tags : tagSets'[t] = tagSets[t] \/ tagSets'[t] = NoTagSet
      /\ tagSets' = [t \in Tags |-> tagSets'[t]]
  BY DEF Expire
<1>4. ASSUME NEW k \in Keys, NEW t \in Tags, Live(entries'[k]), t \in entries'[k].tags
      PROVE  tagSets'[t] = tagSets[t]
  <2>1. entries'[k] = entries[k] /\ Lasts(entries[k])
    BY <1>4 DEF Expire, NoEntry, Live
  <2>2. entries[k].expires \in Nat /\ tagSets[t].expires \in Nat /\ clock' \in Nat
    BY <1>1 DEF CacheOK, CacheTypes, LockOK, LockTypes
  <2>3. clock' < entries[k].expires
    BY <2>1, <2>2, CacheAssumption DEF Lasts
  <2>4. entries[k].expires < tagSets[t].expires
    BY <1>4, <2>1 DEF CacheOK, TagCovers
  <2>5. clock' < tagSets[t].expires
    BY <2>2, <2>3, <2>4
  <2>6. Lasts(tagSets[t])
    BY <2>5 DEF Lasts
  <2> QED BY <2>6 DEF Expire
<1>5. /\ entries' \in [Keys -> [tags: SUBSET Tags, expires: Nat, guarded: BOOLEAN]]
      /\ tagSets' \in [Tags -> [members: SUBSET Keys, expires: Nat]]
      /\ TagCovers'
  BY <1>3, <1>4, DropOK DEF CacheOK
<1>6. CacheTypes' /\ CallsOK'
  BY <1>1, <1>5 DEF CacheOK, CacheTypes, CallsOK
<1>7. \A o \in Objects : clock' < until'[o] => clock < until[o]
  <2>1. clock \in Nat /\ \A o \in Objects : until[o] \in Nat
    BY DEF CacheOK, LockOK, LockTypes
  <2> QED BY <1>1, <2>1
<1>8. NoRedundantLoad'
  <2>1. entries'[Hot] = entries[Hot] \/ ~Live(entries'[Hot])
    BY <1>3, CacheAssumption DEF NoEntry, Live
  <2> QED BY <1>1, <1>7, <2>1, LoadersAlone DEF CacheOK
<1> QED BY <1>2, <1>5, <1>6, <1>8 DEF CacheOK

-----------------------------------------------------------------------------
(* The theorems on the cache.                                               *)

\* An empty cache.
LEMMA CacheInitOK == Init => CacheOK
<1> SUFFICES ASSUME Init PROVE CacheOK
  OBVIOUS
<1>1. LockInit /\ LockOK
  BY LockInitOK DEF Init
<1>2. CacheTypes
  BY DEF Init, CacheTypes, NoEntry, NoTagSet, Stages
<1>3. \A k \in Keys : ~Live(entries[k])
  BY DEF Init, NoEntry, Live
<1>4. \A o \in Objects : stage[o] = "start" /\ pc[o] = "idle"
  BY <1>1 DEF Init, LockInit
<1>5. CallsOK
  BY <1>1, <1>4 DEF LockInit, CallsOK
<1>6. TagCovers /\ NoRedundantLoad
  BY <1>3, CacheAssumption DEF TagCovers, NoRedundantLoad
<1> QED BY <1>1, <1>2, <1>5, <1>6 DEF CacheOK

\* Every step of every call, of the server and of time keeps the invariant.
LEMMA CacheNextOK == CacheOK /\ [Next]_vars => CacheOK'
<1> SUFFICES ASSUME CacheOK, [Next]_vars PROVE CacheOK'
  OBVIOUS
<1>1. CASE UNCHANGED vars
  <2>1. UNCHANGED lockVars /\ UNCHANGED <<entries, tagSets, stage>>
    BY <1>1 DEF vars, cacheVars
  <2>2. UNCHANGED <<pc, late, clock, until>>
    BY <2>1 DEF lockVars
  <2>3. CallsOK'
    BY <2>1, <2>2 DEF CacheOK, CallsOK
  <2> QED BY <2>1, <2>2, <2>3, LockIdle, QuietStep DEF CacheOK, CacheTypes
<1>2. ASSUME NEW k \in Keys, NEW T \in SUBSET Tags, NEW base \in TTLs,
             NEW time \in JitteredTTLs(base), Set(k, T, time)
      PROVE  CacheOK'
  BY <1>2, JitterPositive, CacheSetOK
<1>3. ASSUME NEW o \in Objects, GetOrSet(o) PROVE CacheOK'
  <2>1. ASSUME NEW base \in TTLs, NEW time \in JitteredTTLs(base), Store(o, time)
        PROVE  CacheOK'
    BY <2>1, JitterPositive, StoreOK
  <2> QED BY <1>3, <2>1, StageOnlyOK, CacheLockOK, LockRoundOK, EndOK DEF GetOrSet
<1>4. ASSUME NEW k \in Keys, Delete(k) PROVE CacheOK'
  BY <1>4, DeleteOK
<1>5. ASSUME NEW t \in Tags, InvalidateTag(t) PROVE CacheOK'
  BY <1>5, InvalidateTagOK
<1>6. ASSUME NEW c \in late, RunLate(c), UNCHANGED cacheVars PROVE CacheOK'
  BY <1>6, CacheRunLateOK
<1>7. CASE LockTick /\ Expire
  BY <1>7, CacheTickOK
<1> QED BY <1>1, <1>2, <1>3, <1>4, <1>5, <1>6, <1>7 DEF Next

\* The invariant holds in every reachable state.
THEOREM CacheInvariant == Spec => []CacheOK
BY CacheInitOK, CacheNextOK, PTL DEF Spec

\* Lock, entries, tag sets and calls always have the types that their modules say,
\* also while commands of the lock and of the cache run late.
THEOREM CacheTypesTheorem == Spec => []TypeOK
<1>1. CacheOK => TypeOK
  <2> SUFFICES ASSUME CacheOK PROVE TypeOK
    OBVIOUS
  <2>1. LockTypeOK
    BY DEF CacheOK, LockOK, LockTypes, LockTypeOK
  <2>2. [members: SUBSET Keys, expires: Nat]
           \subseteq [members: SUBSET Keys, expires: Nat \cup {None}]
    OBVIOUS
  <2> QED BY <2>1, <2>2 DEF CacheOK, CacheTypes, TypeOK
<1> QED BY <1>1, CacheInvariant, PTL

\* A live entry is always in the set of each of its tags, which outlives it.
THEOREM TagTheorem == Spec => []TagCovers
<1>1. CacheOK => TagCovers
  BY DEF CacheOK
<1> QED BY <1>1, CacheInvariant, PTL

\* Only one call with a good lock runs the loader.
THEOREM LoaderTheorem == Spec => []SingleLoader
<1>1. CacheOK => SingleLoader
  <2> SUFFICES ASSUME CacheOK, NEW o1 \in Objects, NEW o2 \in Objects, o1 # o2
               PROVE  clock >= until[o1] \/ clock >= until[o2]
    BY DEF SingleLoader
  <2>1. ~(clock < until[o1]) \/ ~(clock < until[o2])
    BY DEF CacheOK, LockOK, KeyHeld
  <2>2. clock \in Nat /\ until[o1] \in Nat /\ until[o2] \in Nat
    BY DEF CacheOK, LockOK, LockTypes
  <2> QED BY <2>1, <2>2
<1> QED BY <1>1, CacheInvariant, PTL

\* Under a good lock the loader never runs beside an entry stored under one.
THEOREM RedundantTheorem == Spec => []NoRedundantLoad
<1>1. CacheOK => NoRedundantLoad
  BY DEF CacheOK
<1> QED BY <1>1, CacheInvariant, PTL

\* invalidate_tag drops every live entry that was set with the tag.
THEOREM InvalidateTheorem == Spec => InvalidateClears
<1> DEFINE Clears == \A t \in Tags : InvalidateTag(t) =>
                        \A k \in Keys : Live(entries'[k]) => t \notin entries'[k].tags
<1>1. CacheOK => Clears
  <2> SUFFICES ASSUME CacheOK, NEW t \in Tags, InvalidateTag(t), NEW k \in Keys,
                      Live(entries'[k]), t \in entries'[k].tags
               PROVE  FALSE
    OBVIOUS
  <2>1. /\ entries' = [j \in Keys |-> IF j \in Doomed(t) THEN NoEntry ELSE entries[j]]
        /\ Live(tagSets[t])
    BY DEF InvalidateTag
  <2>2. k \notin Doomed(t) /\ entries'[k] = entries[k]
    BY <2>1 DEF NoEntry, Live
  <2> QED BY <2>1, <2>2, DoomedIsAll DEF CacheOK
<1>2. CacheOK => [Clears]_vars
  BY <1>1
<1> HIDE DEF Clears
<1>3. Spec => [][Clears]_vars
  BY <1>2, CacheInvariant, PTL
<1> QED BY <1>3 DEF Clears, InvalidateClears
=============================================================================
