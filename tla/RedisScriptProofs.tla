-------------------------- MODULE RedisScriptProofs --------------------------
(***************************************************************************)
(* The two components that are Lua scripts on one key.  The idempotency    *)
(* store, for any number of requests, sends, begins and faults, and any    *)
(* TTLs: a lease that was granted holds for its TTL, a replayed response   *)
(* is the request's own, and a stored response stays.  The rate limiter,   *)
(* for any capacity, refill rate, costs and TTL floor: it is an ideal      *)
(* token bucket, never exceeds its limit, and its advice on when to retry  *)
(* is exact.                                                               *)
(***************************************************************************)
EXTENDS Idempotency, RateLimit, TLAPS

-----------------------------------------------------------------------------
(* The inductive invariant.                                                 *)

\* A script that may run was sent by its request with a token of its own, and
\* complete is only sent once the operation was carried out.
CommandOK(c) ==
    /\ c \in Command
    /\ c.token[1] = c.req
    /\ c.token[2] <= begins[c.req]
    /\ c.op = "complete" => c.token \in effects

\* A lease is one that some begin asked for and lasts its TTL; a response was
\* computed under the lease it is named by.
RecordOK(rec) ==
    \/ rec = None
    \/ /\ rec \in Record /\ rec.status = "in_progress"
       /\ rec.token[2] <= begins[rec.token[1]]
       /\ rec.fingerprint = Fingerprint[rec.token[1]]
       /\ \A r \in Requests : rec.token = token[r] => rec.expires >= begunAt[r] + ProcessingTTL
    \/ /\ rec \in Record /\ rec.status = "completed"
       /\ rec.response \in effects
       /\ rec.fingerprint = Fingerprint[rec.response[1]]

Types ==
    /\ pc \in [Requests -> Scripts \cup {"idle", "working"}]
    /\ begins \in [Requests -> 0..MaxBegins]
    /\ begunAt \in [Requests -> Nat]
    /\ token = [r \in Requests |-> <<r, begins[r]>>]
    /\ clock \in Nat
    /\ \A r \in Requests : begunAt[r] <= clock
    /\ effects \subseteq Token
    /\ DOMAIN result = Requests

\* Every script that may still run is well formed, and none that ends a lease is
\* under way while its request is still beginning or working under it.
CommandsOK ==
    /\ \A c \in late : CommandOK(c)
    /\ \A r \in Requests : pc[r] \in Scripts => CommandOK(Current(r))
    /\ \A c \in late, r \in Requests :
          c.op # "begin" /\ c.token = token[r] => pc[r] \notin {"begin", "working"}

LeaseRecorded ==
    \A r \in Requests :
        pc[r] = "working" /\ clock < begunAt[r] + ProcessingTTL
            => record # None /\ record.token = token[r]

StoreOK ==
    /\ Types
    /\ CommandsOK
    /\ RecordOK(record)
    /\ LeaseRecorded
    /\ ReplayIsOwnRequest

-----------------------------------------------------------------------------
(* The scripts.                                                             *)

\* A token names its request and its begin.
LEMMA TokenOf ==
    ASSUME Types, NEW r \in Requests
    PROVE  /\ token[r] = <<r, begins[r]>> /\ token[r] \in Token
           /\ token[r][1] = r /\ token[r][2] = begins[r]
           /\ \A q \in Requests : token[q] = token[r] => q = r
<1>1. \A q \in Requests : token[q] = <<q, begins[q]>> /\ begins[q] \in 0..MaxBegins
  BY DEF Types
<1> QED BY <1>1 DEF Token

\* Neither kind of record is mistaken for the other, or for a missing key.
LEMMA RecordKinds ==
    ASSUME NEW rec \in Record
    PROVE  /\ rec # None /\ rec.expires \in Nat
           /\ rec.status = "in_progress" => rec.token \in Token
           /\ rec.status = "completed" => rec.token = None /\ rec.response \in Token
           /\ rec.status \in {"in_progress", "completed"}
<1>1. rec # None
  BY NoneAssumption
<1>2. CASE rec \in [status: {"in_progress"}, token: Token,
                    fingerprint: {Fingerprint[r] : r \in Requests},
                    response: {None}, expires: Nat]
  BY <1>1, <1>2
<1>3. CASE rec \in [status: {"completed"}, token: {None},
                    fingerprint: {Fingerprint[r] : r \in Requests},
                    response: Token, expires: Nat]
  BY <1>1, <1>3
<1> QED BY <1>2, <1>3 DEF Record

\* The fields of a command.
LEMMA CommandFields ==
    ASSUME NEW c \in Command
    PROVE  c.op \in Scripts /\ c.req \in Requests /\ c.token \in Token
BY DEF Command

\* What begin writes is a lease that outlasts the sender's TTL.
LEMMA InProgressOK ==
    ASSUME Types, NEW c, CommandOK(c)
    PROVE  /\ RecordOK(InProgress(c)) /\ InProgress(c) # None
           /\ InProgress(c).token = c.token
<1>1. /\ c.req \in Requests /\ c.token \in Token /\ c.token[1] = c.req
      /\ c.token[2] <= begins[c.req]
  BY CommandFields DEF CommandOK
<1>2. clock \in Nat /\ ProcessingTTL \in Nat
  BY ConstantsAssumption DEF Types
<1>3. PICK rec : rec = InProgress(c)
  OBVIOUS
<1>4. /\ rec.status = "in_progress" /\ rec.token = c.token
      /\ rec.fingerprint = Fingerprint[c.req] /\ rec.expires = clock + ProcessingTTL
  BY <1>3 DEF InProgress
<1>5. rec \in [status: {"in_progress"}, token: Token,
               fingerprint: {Fingerprint[r] : r \in Requests},
               response: {None}, expires: Nat]
  BY <1>1, <1>2, <1>3 DEF InProgress
<1>6. rec \in Record
  BY <1>5 DEF Record
<1>7. \A r \in Requests : rec.expires >= begunAt[r] + ProcessingTTL
  <2> SUFFICES ASSUME NEW r \in Requests PROVE rec.expires >= begunAt[r] + ProcessingTTL
    OBVIOUS
  <2>1. begunAt[r] \in Nat /\ begunAt[r] <= clock
    BY DEF Types
  <2> QED BY <1>2, <1>4, <2>1
<1>8. RecordOK(rec)
  BY <1>1, <1>4, <1>6, <1>7 DEF RecordOK
<1> QED BY <1>3, <1>4, <1>6, <1>8, RecordKinds

\* What complete writes is a response that was computed, under its own
\* fingerprint.
LEMMA CompletedOK ==
    ASSUME Types, NEW c, CommandOK(c), c.op = "complete"
    PROVE  RecordOK(Completed(c))
<1>1. /\ c.req \in Requests /\ c.token \in Token /\ c.token[1] = c.req /\ c.token \in effects
  BY CommandFields DEF CommandOK
<1>2. clock + CompletedTTL \in Nat
  BY ConstantsAssumption DEF Types
<1>3. PICK rec : rec = Completed(c)
  OBVIOUS
<1>4. /\ rec.status = "completed" /\ rec.response = c.token
      /\ rec.fingerprint = Fingerprint[c.req]
  BY <1>3 DEF Completed
<1>5. rec \in [status: {"completed"}, token: {None},
               fingerprint: {Fingerprint[r] : r \in Requests},
               response: Token, expires: Nat]
  BY <1>1, <1>2, <1>3 DEF Completed
<1>6. rec \in Record
  BY <1>5 DEF Record
<1> QED BY <1>1, <1>3, <1>4, <1>6 DEF RecordOK

\* Every script leaves a record behind that begin can decode.
LEMMA AfterOK ==
    ASSUME Types, RecordOK(record), NEW c, CommandOK(c)
    PROVE  RecordOK(After(c))
<1>1. c.op \in Scripts
  BY CommandFields DEF CommandOK
<1>2. CASE c.op = "begin"
  <2>1. After(c) = BeginScript(c)
    BY <1>2 DEF After
  <2> QED BY <2>1, InProgressOK DEF BeginScript
<1>3. CASE c.op = "complete"
  <2>1. After(c) = IF MayComplete(c) THEN Completed(c) ELSE record
    BY <1>3 DEF After
  <2> QED BY <1>3, <2>1, CompletedOK
<1>4. CASE c.op = "release"
  <2>1. After(c) = IF MayRelease(c) THEN None ELSE record
    BY <1>4 DEF After
  <2>2. RecordOK(None)
    BY DEF RecordOK
  <2> QED BY <2>1, <2>2
<1> QED BY <1>1, <1>2, <1>3, <1>4 DEF Scripts

\* No script touches a live record unless it ends the lease that is recorded.
LEMMA AfterKeeps ==
    ASSUME NEW c, CommandOK(c), Live(record), c.op = "begin" \/ record.token # c.token
    PROVE  After(c) = record
<1>1. c.op \in Scripts
  BY CommandFields DEF CommandOK
<1> QED BY <1>1 DEF After, BeginScript, MayComplete, MayRelease, Scripts

\* A lease recorded for a request that is within its TTL is live.
LEMMA LeaseIsLive ==
    ASSUME Types, RecordOK(record), NEW r \in Requests, record # None,
           record.token = token[r], clock < begunAt[r] + ProcessingTTL
    PROVE  Live(record)
<1>1. token[r] \in Token /\ token[r] # None
  BY TokenOf, NoneAssumption
<1>2. record \in Record /\ record.expires >= begunAt[r] + ProcessingTTL
  BY <1>1, RecordKinds DEF RecordOK
<1>3. /\ record.expires \in Nat /\ begunAt[r] \in Nat /\ clock \in Nat
      /\ ProcessingTTL \in Nat
  BY <1>2, RecordKinds, ConstantsAssumption DEF Types
<1> QED BY <1>2, <1>3 DEF Live

-----------------------------------------------------------------------------
(* Steps that run a script.                                                 *)

\* The command of a request that waits for an answer.
LEMMA CurrentFields ==
    ASSUME NEW r
    PROVE  /\ Current(r).op = pc[r] /\ Current(r).req = r /\ Current(r).token = token[r]
BY DEF Current

\* The record a script leaves behind stays well formed.
LEMMA RunKeepsRecord ==
    ASSUME StoreOK, NEW c, CommandOK(c), record' = After(c),
           UNCHANGED <<token, begunAt, begins, effects>>
    PROVE  RecordOK(record)'
<1>1. RecordOK(After(c))
  BY AfterOK DEF StoreOK
<1> QED BY <1>1 DEF RecordOK

\* A lease is not taken from a request that works under it.
LEMMA RunKeepsLease ==
    ASSUME StoreOK, NEW c, CommandOK(c), record' = After(c),
           NEW r \in Requests, pc[r] = "working", clock < begunAt[r] + ProcessingTTL,
           c.op = "begin" \/ c.token # token[r]
    PROVE  record' # None /\ record'.token = token[r]
<1>1. record # None /\ record.token = token[r]
  BY DEF StoreOK, LeaseRecorded
<1>2. Live(record)
  BY <1>1, LeaseIsLive DEF StoreOK
<1>3. After(c) = record
  BY <1>1, <1>2, AfterKeeps
<1> QED BY <1>1, <1>3

\* Only begin makes a request work, and only with its own token on record.
LEMMA StartedOwns ==
    ASSUME StoreOK, NEW r \in Requests, pc[r] \in Scripts, Told(Current(r)).status = "started"
    PROVE  /\ pc[r] = "begin"
           /\ After(Current(r)) # None /\ After(Current(r)).token = token[r]
<1> DEFINE c == Current(r)
<1>1. CommandOK(c) /\ c.op = pc[r] /\ c.token = token[r]
  BY CurrentFields DEF StoreOK, CommandsOK
<1>2. InProgress(c) # None /\ InProgress(c).token = c.token
  BY <1>1, InProgressOK DEF StoreOK
<1> HIDE DEF c
<1>3. Told(c).status = "started"
  BY DEF c
<1>4. c.op = "begin"
  <2>1. CASE c.op = "complete"
    BY <1>3, <2>1 DEF Told
  <2>2. CASE c.op = "release"
    BY <1>3, <2>2 DEF Told
  <2> QED BY <1>1, <2>1, <2>2 DEF Scripts
<1>5. Told(c) = BeginResult(c, BeginScript(c)) /\ After(c) = BeginScript(c)
  BY <1>4 DEF Told, After
<1>6. BeginScript(c).token = c.token
  BY <1>3, <1>5 DEF BeginResult
<1>7. BeginScript(c) # None
  BY <1>2 DEF BeginScript, Live
<1> QED BY <1>1, <1>4, <1>5, <1>6, <1>7 DEF c

\* A request is only handed a stored response, and only one for its own data.
LEMMA ReplayedIsOwn ==
    ASSUME StoreOK, NEW r \in Requests, pc[r] \in Scripts,
           Told(Current(r)).status = "completed"
    PROVE  /\ Told(Current(r)).response \in effects
           /\ Fingerprint[Told(Current(r)).response[1]] = Fingerprint[r]
<1> DEFINE c == Current(r)
<1>1. CommandOK(c) /\ c.op = pc[r] /\ c.req = r
  BY CurrentFields DEF StoreOK, CommandsOK
<1>2. InProgress(c).token = c.token
  BY <1>1, InProgressOK DEF StoreOK
<1> HIDE DEF c
<1>3. Told(c).status = "completed"
  BY DEF c
<1>4. c.op = "begin"
  <2>1. CASE c.op = "complete"
    BY <1>3, <2>1 DEF Told
  <2>2. CASE c.op = "release"
    BY <1>3, <2>2 DEF Told
  <2> QED BY <1>1, <2>1, <2>2 DEF Scripts
<1>5. Told(c) = BeginResult(c, BeginScript(c))
  BY <1>4 DEF Told
<1>6. /\ BeginScript(c).token # c.token /\ BeginScript(c).status = "completed"
      /\ BeginScript(c).fingerprint = Fingerprint[r]
      /\ Told(c).response = BeginScript(c).response
  BY <1>1, <1>3, <1>5 DEF BeginResult
<1>7. BeginScript(c) = record /\ record # None
  BY <1>2, <1>6 DEF BeginScript, Live
<1>8. record.response \in effects /\ record.fingerprint = Fingerprint[record.response[1]]
  BY <1>6, <1>7 DEF StoreOK, RecordOK
<1> QED BY <1>6, <1>7, <1>8 DEF c

-----------------------------------------------------------------------------
(* The actions, one by one.                                                 *)

\* A fresh token is one that no record and no command carries.
LEMMA CallBeginOK == ASSUME StoreOK, NEW r \in Requests, CallBegin(r) PROVE StoreOK'
<1>1. /\ pc' = [pc EXCEPT ![r] = "begin"] /\ begins' = [begins EXCEPT ![r] = @ + 1]
      /\ token' = [token EXCEPT ![r] = <<r, begins[r] + 1>>]
      /\ begunAt' = [begunAt EXCEPT ![r] = clock]
      /\ pc[r] = "idle" /\ begins[r] < MaxBegins
      /\ UNCHANGED <<record, late, result, effects, clock>>
  BY DEF CallBegin, Call
<1>2. Types
  BY DEF StoreOK
<1>3. begins[r] \in Nat /\ begins[r] + 1 \in 0..MaxBegins
  BY <1>1, <1>2, ConstantsAssumption DEF Types
<1>4. Types'
  <2>1. token' = [q \in Requests |-> <<q, begins'[q]>>]
    BY <1>1, <1>2 DEF Types
  <2>2. pc' \in [Requests -> Scripts \cup {"idle", "working"}]
    BY <1>1, <1>2 DEF Types, Scripts
  <2>3. begins' \in [Requests -> 0..MaxBegins]
    BY <1>1, <1>2, <1>3 DEF Types
  <2>4. begunAt' \in [Requests -> Nat] /\ clock' \in Nat
    BY <1>1, <1>2 DEF Types
  <2>5. \A q \in Requests : begunAt'[q] <= clock'
    BY <1>1, <1>2 DEF Types
  <2> QED BY <1>1, <1>2, <2>1, <2>2, <2>3, <2>4, <2>5 DEF Types
<1>5. /\ begins'[r] = begins[r] + 1 /\ token'[r] = <<r, begins[r] + 1>>
      /\ \A q \in Requests : /\ q # r => /\ token'[q] = token[q] /\ pc'[q] = pc[q]
                                        /\ begunAt'[q] = begunAt[q]
                             /\ begins[q] \in Nat /\ begins'[q] \in Nat
                             /\ begins[q] <= begins'[q]
      /\ pc'[r] = "begin"
  BY <1>1, <1>2, <1>3, <1>4 DEF Types
<1>6. ASSUME NEW c, CommandOK(c) PROVE CommandOK(c)' /\ c.token # token'[r]
  <2>1. /\ c \in Command /\ c.req \in Requests /\ c.token \in Token
        /\ c.token[1] = c.req /\ c.token[2] <= begins[c.req]
    BY <1>6, CommandFields DEF CommandOK
  <2>2. c.token[2] \in Nat
    BY <2>1 DEF Token
  <2>3. CommandOK(c)'
    BY <1>1, <1>5, <1>6, <2>1, <2>2 DEF CommandOK
  <2> QED BY <1>3, <1>5, <2>1, <2>2, <2>3
<1>7. CommandsOK'
  <2>1. \A c \in late' : CommandOK(c)'
    BY <1>1, <1>6 DEF StoreOK, CommandsOK
  <2>2. ASSUME NEW q \in Requests, pc'[q] \in Scripts PROVE CommandOK(Current(q))'
    <3>1. CASE q # r
      <4>1. Current(q)' = Current(q) /\ CommandOK(Current(q))
        BY <1>5, <2>2, <3>1 DEF Current, StoreOK, CommandsOK
      <4> QED BY <1>6, <4>1
    <3>2. CASE q = r
      <4>1. Current(r)' = [op |-> "begin", req |-> r, token |-> token'[r]]
        BY <1>5 DEF Current
      <4>2. token'[r] \in Token /\ token'[r][1] = r /\ token'[r][2] = begins'[r]
        BY <1>3, <1>5 DEF Token
      <4>3. Current(r)' \in Command
        BY <4>1, <4>2 DEF Command, Scripts
      <4>4. begins'[r] <= begins'[r]
        BY <1>5
      <4> QED BY <3>2, <4>1, <4>2, <4>3, <4>4 DEF CommandOK
    <3> QED BY <3>1, <3>2
  <2>3. \A c \in late', q \in Requests :
           c.op # "begin" /\ c.token = token'[q] => pc'[q] \notin {"begin", "working"}
    <3> SUFFICES ASSUME NEW c \in late, NEW q \in Requests, c.op # "begin", c.token = token'[q]
                 PROVE  pc'[q] \notin {"begin", "working"}
      BY <1>1
    <3>1. CommandOK(c)
      BY DEF StoreOK, CommandsOK
    <3>2. q # r
      BY <1>6, <3>1
    <3> QED BY <1>5, <3>2 DEF StoreOK, CommandsOK
  <2> QED BY <2>1, <2>2, <2>3 DEF CommandsOK
<1>8. RecordOK(record)'
  <2>1. CASE record # None /\ record \in Record /\ record.status = "in_progress"
    <3>1. /\ record.token \in Token /\ record.token[2] <= begins[record.token[1]]
          /\ record.fingerprint = Fingerprint[record.token[1]]
          /\ \A q \in Requests : record.token = token[q]
                => record.expires >= begunAt[q] + ProcessingTTL
      BY <2>1, RecordKinds DEF StoreOK, RecordOK
    <3>2. record.token[1] \in Requests /\ record.token[2] \in Nat
      BY <3>1 DEF Token
    <3>3. record.token # token'[r]
      BY <1>3, <1>5, <3>1, <3>2
    <3>4. record.token[2] <= begins'[record.token[1]]
      BY <1>5, <3>1, <3>2
    <3>5. \A q \in Requests : record.token = token'[q]
             => record.expires >= begunAt'[q] + ProcessingTTL
      BY <1>5, <3>1, <3>3
    <3> QED BY <1>1, <2>1, <3>1, <3>4, <3>5 DEF RecordOK
  <2>2. CASE record = None \/ (record \in Record /\ record.status = "completed")
    BY <1>1, <2>2 DEF StoreOK, RecordOK
  <2> QED BY <2>1, <2>2 DEF StoreOK, RecordOK
<1>9. LeaseRecorded'
  BY <1>1, <1>5 DEF StoreOK, LeaseRecorded
<1>10. ReplayIsOwnRequest'
  BY <1>1 DEF StoreOK, ReplayIsOwnRequest
<1> QED BY <1>4, <1>7, <1>8, <1>9, <1>10 DEF StoreOK

\* The operation is carried out: one more lease under which it was.
LEMMA WorkOK == ASSUME StoreOK, NEW r \in Requests, Work(r) PROVE StoreOK'
<1>1. /\ effects' = effects \cup {token[r]}
      /\ UNCHANGED <<record, pc, token, begunAt, begins, late, result, clock>>
  BY DEF Work
<1>2. Types'
  <2>1. token[r] \in Token
    BY TokenOf DEF StoreOK
  <2> QED BY <1>1, <2>1 DEF StoreOK, Types
<1>3. \A c : CommandOK(c) => CommandOK(c)'
  BY <1>1 DEF CommandOK
<1>4. CommandsOK'
  <2>1. \A q \in Requests : Current(q)' = Current(q)
    BY <1>1 DEF Current
  <2> QED BY <1>1, <1>3, <2>1 DEF StoreOK, CommandsOK
<1>5. RecordOK(record)'
  BY <1>1 DEF StoreOK, RecordOK
<1>6. LeaseRecorded' /\ ReplayIsOwnRequest'
  BY <1>1 DEF StoreOK, LeaseRecorded, ReplayIsOwnRequest
<1> QED BY <1>2, <1>4, <1>5, <1>6 DEF StoreOK

\* A request ends its own lease.
LEMMA CallEndOK ==
    ASSUME StoreOK, NEW r \in Requests, NEW op \in {"complete", "release"}, CallEnd(r, op)
    PROVE  StoreOK'
<1>1. /\ pc' = [pc EXCEPT ![r] = op]
      /\ op = "complete" => token[r] \in effects
      /\ UNCHANGED <<record, token, begunAt, begins, late, result, effects, clock>>
  BY DEF CallEnd, Call
<1>2. Types'
  BY <1>1 DEF StoreOK, Types, Scripts
<1>3. \A c : CommandOK(c) => CommandOK(c)'
  BY <1>1 DEF CommandOK
<1>4. pc'[r] = op /\ \A q \in Requests : q # r => pc'[q] = pc[q]
  BY <1>1 DEF StoreOK, Types
<1>5. CommandsOK'
  <2>1. ASSUME NEW q \in Requests, pc'[q] \in Scripts PROVE CommandOK(Current(q))'
    <3>1. CASE q # r
      BY <1>1, <1>3, <1>4, <2>1, <3>1 DEF Current, StoreOK, CommandsOK
    <3>2. CASE q = r
      <4>1. Current(r)' = [op |-> op, req |-> r, token |-> token[r]]
        BY <1>1, <1>4 DEF Current
      <4>2. token[r] \in Token /\ token[r][1] = r /\ token[r][2] = begins[r] /\ begins[r] \in Nat
        BY TokenOf DEF StoreOK, Types
      <4>3. Current(r)' \in Command
        BY <4>1, <4>2 DEF Command, Scripts
      <4> QED BY <1>1, <3>2, <4>1, <4>2, <4>3 DEF CommandOK
    <3> QED BY <3>1, <3>2
  <2>2. \A c \in late', q \in Requests :
           c.op # "begin" /\ c.token = token'[q] => pc'[q] \notin {"begin", "working"}
    BY <1>1, <1>4 DEF StoreOK, CommandsOK
  <2> QED BY <1>1, <1>3, <2>1, <2>2 DEF StoreOK, CommandsOK
<1>6. RecordOK(record)'
  BY <1>1 DEF StoreOK, RecordOK
<1>7. LeaseRecorded'
  BY <1>1, <1>4 DEF StoreOK, LeaseRecorded
<1>8. ReplayIsOwnRequest'
  BY <1>1 DEF StoreOK, ReplayIsOwnRequest
<1> QED BY <1>2, <1>5, <1>6, <1>7, <1>8 DEF StoreOK

\* The answer of a script that ran now.
LEMMA AnsweredOK == ASSUME StoreOK, NEW r \in Requests, Answered(r) PROVE StoreOK'
<1> DEFINE c == Current(r)
<1>1. /\ pc[r] \in Scripts /\ record' = After(c)
      /\ result' = [result EXCEPT ![r] = Told(c)]
      /\ pc' = [pc EXCEPT ![r] = IF Told(c).status = "started" THEN "working" ELSE "idle"]
      /\ UNCHANGED <<token, begunAt, begins, late, effects, clock>>
  BY DEF Answered
<1>2. CommandOK(c) /\ c.token = token[r] /\ c.op = pc[r]
  BY <1>1, CurrentFields DEF StoreOK, CommandsOK
<1>3. /\ Told(c).status = "started" => pc[r] = "begin" /\ After(c) # None
                                       /\ After(c).token = token[r]
      /\ Told(c).status = "completed" =>
            /\ Told(c).response \in effects
            /\ Fingerprint[Told(c).response[1]] = Fingerprint[r]
  BY <1>1, StartedOwns, ReplayedIsOwn
<1> HIDE DEF c
<1>4. /\ pc'[r] \in {"working", "idle"} /\ (pc'[r] = "working" => Told(c).status = "started")
      /\ \A q \in Requests : q # r => pc'[q] = pc[q]
      /\ result'[r] = Told(c) /\ \A q \in Requests : q # r => result'[q] = result[q]
  BY <1>1 DEF StoreOK, Types
<1>5. Types'
  <2>1. pc' \in [Requests -> Scripts \cup {"idle", "working"}] /\ DOMAIN result' = Requests
    BY <1>1 DEF StoreOK, Types
  <2> QED BY <1>1, <2>1 DEF StoreOK, Types
<1>6. CommandsOK'
  <2>1. \A d : CommandOK(d) => CommandOK(d)'
    BY <1>1 DEF CommandOK
  <2>2. ASSUME NEW q \in Requests, pc'[q] \in Scripts PROVE CommandOK(Current(q))'
    <3>1. q # r /\ pc'[q] = pc[q]
      BY <1>4, <2>2 DEF Scripts
    <3>2. Current(q)' = Current(q)
      BY <1>1, <3>1 DEF Current
    <3> QED BY <2>1, <2>2, <3>1, <3>2 DEF StoreOK, CommandsOK
  <2>3. \A d \in late', q \in Requests :
           d.op # "begin" /\ d.token = token'[q] => pc'[q] \notin {"begin", "working"}
    BY <1>1, <1>3, <1>4 DEF StoreOK, CommandsOK
  <2> QED BY <1>1, <2>1, <2>2, <2>3 DEF StoreOK, CommandsOK
<1>7. RecordOK(record)'
  BY <1>1, <1>2, RunKeepsRecord
<1>8. LeaseRecorded'
  <2> SUFFICES ASSUME NEW q \in Requests, pc'[q] = "working",
                      clock < begunAt[q] + ProcessingTTL
               PROVE  record' # None /\ record'.token = token[q]
    BY <1>1 DEF LeaseRecorded
  <2>1. CASE q = r
    BY <1>1, <1>3, <1>4, <2>1
  <2>2. CASE q # r
    <3>1. pc[q] = "working" /\ c.token # token[q]
      BY <1>2, <1>4, <2>2, TokenOf DEF StoreOK
    <3> QED BY <1>1, <1>2, <3>1, RunKeepsLease
  <2> QED BY <2>1, <2>2
<1>9. ReplayIsOwnRequest'
  <2> SUFFICES ASSUME NEW q \in Requests, result'[q].status = "completed"
               PROVE  /\ result'[q].response \in effects
                      /\ Fingerprint[result'[q].response[1]] = Fingerprint[q]
    BY <1>1 DEF ReplayIsOwnRequest
  <2>1. CASE q = r
    BY <1>3, <1>4, <2>1
  <2>2. CASE q # r
    BY <1>4, <2>2 DEF StoreOK, ReplayIsOwnRequest
  <2> QED BY <2>1, <2>2
<1> QED BY <1>5, <1>6, <1>7, <1>8, <1>9 DEF StoreOK

\* A script whose answer was lost, or that its client gave up on and left under
\* way, ends no lease its request still works under.
LEMMA TimeoutOK ==
    ASSUME StoreOK, NEW r \in Requests, NEW ran \in BOOLEAN, Timeout(r, ran)
    PROVE  StoreOK'
<1> DEFINE c == Current(r)
<1>1. /\ pc[r] \in Scripts
      /\ IF ran THEN record' = After(c) /\ UNCHANGED late
                ELSE late' = late \cup {c} /\ UNCHANGED record
      /\ \/ UNCHANGED <<pc, result>>
         \/ /\ pc' = [pc EXCEPT ![r] = "idle"]
            /\ result' = [result EXCEPT ![r] = [status |-> "error", response |-> None]]
      /\ UNCHANGED <<token, begunAt, begins, effects, clock>>
  BY DEF Timeout
<1>2. CommandOK(c) /\ c.token = token[r] /\ c.op = pc[r]
  BY <1>1, CurrentFields DEF StoreOK, CommandsOK
<1> HIDE DEF c
<1>3. \A q \in Requests : /\ pc'[q] = pc[q] \/ (pc'[q] = "idle" /\ q = r)
                          /\ result'[q] = result[q] \/ result'[q].status = "error"
  <2>1. CASE UNCHANGED <<pc, result>>
    BY <2>1
  <2>2. CASE ~UNCHANGED <<pc, result>>
    BY <1>1, <2>2 DEF StoreOK, Types
  <2> QED BY <2>1, <2>2
<1>4. Types'
  <2>1. pc' \in [Requests -> Scripts \cup {"idle", "working"}] /\ DOMAIN result' = Requests
    BY <1>1 DEF StoreOK, Types
  <2> QED BY <1>1, <2>1 DEF StoreOK, Types
<1>5. late' \subseteq late \cup {c} /\ (record' = record \/ record' = After(c))
  BY <1>1
<1>6. CommandsOK'
  <2>1. \A d : CommandOK(d) => CommandOK(d)'
    BY <1>1 DEF CommandOK
  <2>2. ASSUME NEW q \in Requests, pc'[q] \in Scripts PROVE CommandOK(Current(q))'
    <3>1. pc'[q] = pc[q]
      BY <1>3, <2>2 DEF Scripts
    <3>2. Current(q)' = Current(q)
      BY <1>1, <3>1 DEF Current
    <3> QED BY <2>1, <2>2, <3>1, <3>2 DEF StoreOK, CommandsOK
  <2>3. ASSUME NEW d \in late', NEW q \in Requests, d.op # "begin", d.token = token[q]
        PROVE  pc'[q] \notin {"begin", "working"}
    <3>1. CASE d \in late
      BY <1>3, <2>3, <3>1 DEF StoreOK, CommandsOK
    <3>2. CASE d = c
      <4>1. q = r /\ pc[r] \in Scripts /\ pc[r] # "begin"
        BY <1>1, <1>2, <2>3, <3>2, TokenOf DEF StoreOK
      <4> QED BY <1>3, <4>1 DEF Scripts
    <3> QED BY <1>5, <3>1, <3>2
  <2>4. \A d \in late' : CommandOK(d)'
    BY <1>2, <1>5, <2>1 DEF StoreOK, CommandsOK
  <2> QED BY <1>1, <2>2, <2>3, <2>4 DEF CommandsOK
<1>7. RecordOK(record)'
  <2>1. CASE record' = record
    BY <1>1, <2>1 DEF StoreOK, RecordOK
  <2>2. CASE record' = After(c)
    BY <1>1, <1>2, <2>2, RunKeepsRecord
  <2> QED BY <1>5, <2>1, <2>2
<1>8. LeaseRecorded'
  <2> SUFFICES ASSUME NEW q \in Requests, pc'[q] = "working",
                      clock < begunAt[q] + ProcessingTTL
               PROVE  record' # None /\ record'.token = token[q]
    BY <1>1 DEF LeaseRecorded
  <2>1. pc[q] = "working" /\ c.token # token[q]
    BY <1>1, <1>2, <1>3, TokenOf DEF StoreOK, Scripts
  <2>2. CASE record' = record
    BY <2>1, <2>2 DEF StoreOK, LeaseRecorded
  <2>3. CASE record' = After(c)
    BY <1>2, <2>1, <2>3, RunKeepsLease
  <2> QED BY <1>5, <2>2, <2>3
<1>9. ReplayIsOwnRequest'
  BY <1>1, <1>3 DEF StoreOK, ReplayIsOwnRequest
<1> QED BY <1>4, <1>6, <1>7, <1>8, <1>9 DEF StoreOK

\* A script that runs after its client has moved on.
LEMMA RunLateOK == ASSUME StoreOK, NEW c \in late, RunLate(c) PROVE StoreOK'
<1>1. /\ late' = late \ {c} /\ record' = After(c)
      /\ UNCHANGED <<pc, token, begunAt, begins, result, effects, clock>>
  BY DEF RunLate
<1>2. CommandOK(c)
  BY DEF StoreOK, CommandsOK
<1>3. Types'
  BY <1>1 DEF StoreOK, Types
<1>4. CommandsOK'
  <2>1. \A d : CommandOK(d) => CommandOK(d)'
    BY <1>1 DEF CommandOK
  <2>2. \A q \in Requests : Current(q)' = Current(q)
    BY <1>1 DEF Current
  <2> QED BY <1>1, <2>1, <2>2 DEF StoreOK, CommandsOK
<1>5. RecordOK(record)'
  BY <1>1, <1>2, RunKeepsRecord
<1>6. LeaseRecorded'
  <2> SUFFICES ASSUME NEW q \in Requests, pc[q] = "working",
                      clock < begunAt[q] + ProcessingTTL
               PROVE  record' # None /\ record'.token = token[q]
    BY <1>1 DEF LeaseRecorded
  <2>1. c.op = "begin" \/ c.token # token[q]
    BY DEF StoreOK, CommandsOK
  <2> QED BY <1>1, <1>2, <2>1, RunKeepsLease
<1>7. ReplayIsOwnRequest'
  BY <1>1 DEF StoreOK, ReplayIsOwnRequest
<1> QED BY <1>3, <1>4, <1>5, <1>6, <1>7 DEF StoreOK

\* A dead process leaves its lease and perhaps a script behind.
LEMMA CrashOK == ASSUME StoreOK, NEW r \in Requests, Crash(r) PROVE StoreOK'
<1> DEFINE c == Current(r)
<1>1. /\ pc' = [pc EXCEPT ![r] = "idle"]
      /\ late' = IF pc[r] \in Scripts THEN late \cup {c} ELSE late
      /\ UNCHANGED <<record, token, begunAt, begins, result, effects, clock>>
  BY DEF Crash
<1>2. c.token = token[r] /\ (pc[r] \in Scripts => CommandOK(c))
  BY CurrentFields DEF StoreOK, CommandsOK
<1> HIDE DEF c
<1>3. pc'[r] = "idle" /\ \A q \in Requests : q # r => pc'[q] = pc[q]
  BY <1>1 DEF StoreOK, Types
<1>4. Types'
  BY <1>1 DEF StoreOK, Types
<1>5. CommandsOK'
  <2>1. \A d : CommandOK(d) => CommandOK(d)'
    BY <1>1 DEF CommandOK
  <2>2. ASSUME NEW q \in Requests, pc'[q] \in Scripts PROVE CommandOK(Current(q))'
    <3>1. pc'[q] = pc[q]
      BY <1>3, <2>2 DEF Scripts
    <3>2. Current(q)' = Current(q)
      BY <1>1, <3>1 DEF Current
    <3> QED BY <2>1, <2>2, <3>1, <3>2 DEF StoreOK, CommandsOK
  <2>3. ASSUME NEW d \in late', NEW q \in Requests, d.op # "begin", d.token = token[q]
        PROVE  pc'[q] \notin {"begin", "working"}
    <3>1. CASE d \in late
      BY <1>3, <2>3, <3>1 DEF StoreOK, CommandsOK
    <3>2. CASE d = c
      BY <1>2, <1>3, <2>3, <3>2, TokenOf DEF StoreOK
    <3> QED BY <1>1, <3>1, <3>2
  <2>4. \A d \in late' : CommandOK(d)'
    BY <1>1, <1>2, <2>1 DEF StoreOK, CommandsOK
  <2> QED BY <1>1, <2>2, <2>3, <2>4 DEF CommandsOK
<1>6. RecordOK(record)'
  BY <1>1 DEF StoreOK, RecordOK
<1>7. LeaseRecorded'
  BY <1>1, <1>3 DEF StoreOK, LeaseRecorded
<1>8. ReplayIsOwnRequest'
  BY <1>1 DEF StoreOK, ReplayIsOwnRequest
<1> QED BY <1>4, <1>5, <1>6, <1>7, <1>8 DEF StoreOK

\* Time only ends leases.
LEMMA TickOK == ASSUME StoreOK, Tick PROVE StoreOK'
<1>1. /\ clock' = clock + 1
      /\ UNCHANGED <<record, pc, token, begunAt, begins, late, result, effects>>
  BY DEF Tick
<1>2. Types /\ ProcessingTTL \in Nat
  BY ConstantsAssumption DEF StoreOK
<1>3. Types'
  BY <1>1, <1>2 DEF Types
<1>4. CommandsOK'
  <2>1. \A d : CommandOK(d) => CommandOK(d)'
    BY <1>1 DEF CommandOK
  <2>2. \A q \in Requests : Current(q)' = Current(q)
    BY <1>1 DEF Current
  <2> QED BY <1>1, <2>1, <2>2 DEF StoreOK, CommandsOK
<1>5. RecordOK(record)'
  BY <1>1 DEF StoreOK, RecordOK
<1>6. LeaseRecorded'
  <2> SUFFICES ASSUME NEW q \in Requests, pc[q] = "working",
                      clock + 1 < begunAt[q] + ProcessingTTL
               PROVE  record # None /\ record.token = token[q]
    BY <1>1 DEF LeaseRecorded
  <2>1. clock < begunAt[q] + ProcessingTTL
    BY <1>2 DEF Types
  <2> QED BY <2>1 DEF StoreOK, LeaseRecorded
<1>7. ReplayIsOwnRequest'
  BY <1>1 DEF StoreOK, ReplayIsOwnRequest
<1> QED BY <1>3, <1>4, <1>5, <1>6, <1>7 DEF StoreOK

-----------------------------------------------------------------------------
(* The theorems.                                                            *)

\* A key nobody used yet.
LEMMA InitStore == Init => StoreOK
<1> SUFFICES ASSUME Init PROVE StoreOK
  OBVIOUS
<1>1. Types
  BY ConstantsAssumption DEF Init, Types
<1>2. \A r \in Requests : pc[r] = "idle" /\ result[r].status = "none"
  BY DEF Init
<1>3. CommandsOK /\ LeaseRecorded /\ ReplayIsOwnRequest
  BY <1>2 DEF Init, CommandsOK, LeaseRecorded, ReplayIsOwnRequest, Scripts
<1> QED BY <1>1, <1>3 DEF Init, StoreOK, RecordOK

\* Every step of every process, of the network and of time keeps the invariant.
LEMMA NextStore == StoreOK /\ [Next]_vars => StoreOK'
<1> SUFFICES ASSUME StoreOK, [Next]_vars PROVE StoreOK'
  OBVIOUS
<1>1. CASE UNCHANGED vars
  BY <1>1 DEF vars, StoreOK, Types, CommandsOK, CommandOK, RecordOK, LeaseRecorded,
              ReplayIsOwnRequest, Current
<1>2. ASSUME NEW r \in Requests,
             \/ CallBegin(r) \/ Work(r)
             \/ CallEnd(r, "complete") \/ CallEnd(r, "release")
             \/ Answered(r) \/ Timeout(r, TRUE) \/ Timeout(r, FALSE)
             \/ Crash(r)
      PROVE  StoreOK'
  BY <1>2, CallBeginOK, WorkOK, CallEndOK, AnsweredOK, TimeoutOK, CrashOK
<1>3. ASSUME NEW c \in late, RunLate(c) PROVE StoreOK'
  BY <1>3, RunLateOK
<1> QED BY <1>1, <1>2, <1>3, TickOK DEF Next

\* The invariant holds in every reachable state.
THEOREM StoreInvariant == Spec => []StoreOK
BY InitStore, NextStore, PTL DEF Spec

\* The record and the commands under way are ones the scripts can decode.
THEOREM StoreTypes == Spec => []TypeOK
<1>1. StoreOK => TypeOK
  <2> SUFFICES ASSUME StoreOK PROVE TypeOK
    OBVIOUS
  <2>1. record \in Record \cup {None}
    BY DEF StoreOK, RecordOK
  <2>2. token \in [Requests -> Token]
    BY DEF StoreOK, Types, Token
  <2>3. late \subseteq Command
    BY DEF StoreOK, CommandsOK, CommandOK
  <2> QED BY <2>1, <2>2, <2>3 DEF StoreOK, Types, TypeOK
<1> QED BY <1>1, StoreInvariant, PTL

\* A request that was told to start keeps the key for processing_ttl_seconds,
\* however many requests, repeats and late scripts there are.
THEOREM LeaseTheorem == Spec => []LeaseHolds
<1>1. StoreOK => LeaseHolds
  BY LeaseIsLive DEF StoreOK, LeaseRecorded, LeaseHolds
<1> QED BY <1>1, StoreInvariant, PTL

\* A replayed response was computed, for the same request data.
THEOREM ReplayTheorem == Spec => []ReplayIsOwnRequest
<1>1. StoreOK => ReplayIsOwnRequest
  BY DEF StoreOK
<1> QED BY <1>1, StoreInvariant, PTL

\* Nothing that still arrives replaces or deletes a stored response.
THEOREM CompletedTheorem == Spec => CompletedStable
<1>1. StoreOK /\ [Next]_vars => [Live(record) /\ record.status = "completed" => record' = record]_vars
  <2> SUFFICES ASSUME StoreOK, Next, Live(record), record.status = "completed"
               PROVE  record' = record
    OBVIOUS
  <2>1. record.token = None
    BY RecordKinds DEF Live, StoreOK, RecordOK
  <2>2. ASSUME NEW c, CommandOK(c) PROVE After(c) = record
    <3>1. c.token # None
      BY <2>2, CommandFields, NoneAssumption DEF CommandOK
    <3> QED BY <2>1, <2>2, <3>1, AfterKeeps
  <2>3. \A r \in Requests : pc[r] \in Scripts => After(Current(r)) = record
    BY <2>2 DEF StoreOK, CommandsOK
  <2>4. \A c \in late : After(c) = record
    BY <2>2 DEF StoreOK, CommandsOK
  <2> QED BY <2>3, <2>4 DEF Next, CallBegin, Work, CallEnd, Answered, Timeout, RunLate,
                            Crash, Tick
<1> QED BY <1>1, StoreInvariant, PTL DEF Spec, CompletedStable

-----------------------------------------------------------------------------
(* The rate limiter: arithmetic.                                            *)

\* Multiplication by the refill rate is monotonic.
LEMMA RefillMonotonic ==
    ASSUME NEW a \in Nat, NEW b \in Nat, a <= b
    PROVE  a * Refill <= b * Refill
<1>1. Refill \in Nat
  BY RateAssumption
<1>2. b = a + (b - a) /\ b - a \in Nat
  OBVIOUS
<1>3. PICK d \in Nat : b = a + d
  BY <1>2
<1>4. d * Refill >= 0
  BY <1>1
<1>5. b * Refill = a * Refill + d * Refill
  BY <1>1, <1>3
<1>6. a * Refill \in Nat /\ d * Refill \in Nat
  BY <1>1
<1> QED BY <1>4, <1>5, <1>6

\* The capacity in units, and what a caller may ask for.
LEMMA FullPositive ==
    /\ Full \in Nat \ {0} /\ Refill \in Nat \ {0}
    /\ \A tokens \in Costs : tokens * Units \in 1..Full
<1>1. /\ Units \in Nat /\ Units > 0 /\ Capacity \in Nat /\ Capacity > 0
      /\ Refill \in Nat \ {0} /\ Costs \subseteq 1..Capacity
  BY RateAssumption
<1>2. Capacity * Units \in Nat /\ Capacity * Units > 0
  BY <1>1
<1>3. ASSUME NEW tokens \in Costs PROVE tokens * Units \in 1..Full
  <2>1. tokens \in Nat /\ tokens >= 1 /\ tokens <= Capacity
    BY <1>1
  <2>2. PICK d \in Nat : Capacity = tokens + d
    <3>1. Capacity - tokens \in Nat /\ Capacity = tokens + (Capacity - tokens)
      BY <1>1, <2>1
    <3> QED BY <3>1
  <2>3. Capacity * Units = tokens * Units + d * Units
    BY <1>1, <2>1, <2>2
  <2>4. d * Units \in Nat /\ tokens * Units \in Nat /\ tokens * Units > 0
    BY <1>1, <2>1
  <2> QED BY <1>2, <2>3, <2>4 DEF Full
<1> QED BY <1>1, <1>2, <1>3 DEF Full

\* The TTL that the script gives a key is long enough to fill an empty bucket.
LEMMA TTLFills == TTL \in Nat \ {0} /\ TTL * Refill >= Full
<1> DEFINE twice == (2 * Full) \div Refill
<1>1. Full \in Nat /\ Full > 0 /\ Refill \in Nat /\ Refill > 0 /\ MinTTL \in Nat /\ MinTTL > 0
  BY FullPositive, RateAssumption
<1>2. 2 * Full \in Nat
  BY <1>1
<1>3. PICK F2 \in Nat : F2 = 2 * Full
  BY <1>2
<1>4. twice = F2 \div Refill
  BY <1>3
<1>5. twice \in Nat /\ F2 < twice * Refill + Refill
  BY <1>1, <1>3, <1>4
<1>6. TTL \in Nat /\ TTL >= twice /\ TTL >= MinTTL /\ TTL > 0
  BY <1>1, <1>5 DEF TTL
<1> HIDE DEF twice
<1>7. twice * Refill \in Nat /\ TTL * Refill \in Nat /\ 1 * Refill = Refill
  BY <1>1, <1>5, <1>6
<1>8. CASE Refill >= Full
  <2>1. 1 * Refill <= TTL * Refill
    BY <1>6, RefillMonotonic
  <2> QED BY <1>1, <1>6, <1>7, <1>8, <2>1
<1>9. CASE Refill < Full
  <2>1. twice * Refill <= TTL * Refill
    BY <1>5, <1>6, RefillMonotonic
  <2>2. F2 = Full + Full
    BY <1>1, <1>3
  <2> QED BY <1>1, <1>5, <1>6, <1>7, <1>9, <2>1, <2>2
<1> QED BY <1>1, <1>8, <1>9

\* The wait that is rounded up is the shortest that will do.
LEMMA RetryAfterIsCeiling ==
    ASSUME NEW cost \in Nat, NEW tokens \in Nat, tokens < cost
    PROVE  /\ RetryAfter(cost, tokens) \in Nat
           /\ tokens + RetryAfter(cost, tokens) * Refill >= cost
           /\ tokens + (RetryAfter(cost, tokens) - 1) * Refill < cost
<1>1. Refill \in Nat /\ Refill > 0
  BY RateAssumption
<1>2. PICK n \in Nat : n = cost - tokens + Refill - 1
  <2>1. cost - tokens + Refill - 1 \in Nat
    BY <1>1
  <2> QED BY <2>1
<1>3. PICK r \in Nat : r = RetryAfter(cost, tokens) /\ r = n \div Refill
  <2>1. RetryAfter(cost, tokens) = n \div Refill
    BY <1>2 DEF RetryAfter
  <2>2. n \div Refill \in Nat
    BY <1>1
  <2> QED BY <2>1, <2>2
<1>4. r * Refill <= n /\ n < r * Refill + Refill
  BY <1>1, <1>3
<1>5. r * Refill \in Nat /\ (r - 1) * Refill = r * Refill - Refill
  BY <1>1
<1> QED BY <1>1, <1>2, <1>3, <1>4, <1>5

-----------------------------------------------------------------------------
(* The bucket.                                                              *)

\* A key that exists was stored with a TTL, not in the future, and not above
\* the capacity.
BucketOK ==
    /\ now \in Nat
    /\ bucket \in [tokens: Nat, updated_at: Nat, expires: Nat]
    /\ bucket.tokens <= Full
    /\ bucket.updated_at <= now
    /\ bucket.expires = 0 \/ bucket.expires = bucket.updated_at + TTL

\* What the script works with is between empty and full.
LEMMA RefilledBounds == BucketOK => Refilled \in Nat /\ Refilled <= Full
<1> SUFFICES ASSUME BucketOK PROVE Refilled \in Nat /\ Refilled <= Full
  OBVIOUS
<1>1. Full \in Nat /\ Refill \in Nat
  BY FullPositive
<1>2. bucket.tokens \in Nat /\ now - bucket.updated_at \in Nat
  BY DEF BucketOK
<1>3. (now - bucket.updated_at) * Refill \in Nat
  BY <1>1, <1>2
<1> QED BY <1>1, <1>2, <1>3 DEF Refilled, Least

\* The script takes the cost if it is there, stores the rest, and answers.
LEMMA CheckTakes ==
    ASSUME BucketOK, NEW tokens \in Costs, Check(tokens)
    PROVE  /\ BucketOK'
           /\ Refilled' = IF Refilled >= tokens * Units THEN Refilled - tokens * Units
                                                       ELSE Refilled
           /\ bucket'.tokens = Refilled'
           /\ decision'.allowed = (Refilled >= tokens * Units)
           /\ decision'.cost = tokens * Units
           /\ ~decision'.allowed => decision'.retry_after = RetryAfter(tokens * Units, Refilled)
<1>1. PICK cost \in 1..Full : cost = tokens * Units
  BY FullPositive
<1>2. PICK left : left = IF Refilled >= cost THEN Refilled - cost ELSE Refilled
  OBVIOUS
<1>3. left \in Nat /\ left <= Full /\ now \in Nat /\ Full \in Nat /\ Refill \in Nat
  BY <1>2, RefilledBounds, FullPositive DEF BucketOK
<1>4. TTL \in Nat /\ TTL > 0
  BY TTLFills
<1>5. /\ bucket' = [tokens |-> left, updated_at |-> now, expires |-> now + TTL]
      /\ decision' = [allowed |-> Refilled >= cost, cost |-> cost,
                      remaining |-> left \div Units,
                      retry_after |-> IF Refilled >= cost THEN 0
                                      ELSE RetryAfter(cost, Refilled),
                      at |-> now]
      /\ now' = now
  BY <1>1, <1>2 DEF Check
<1>6. /\ bucket' \in [tokens: Nat, updated_at: Nat, expires: Nat]
      /\ bucket'.tokens = left /\ bucket'.updated_at = now /\ bucket'.expires = now + TTL
  BY <1>3, <1>4, <1>5
<1>7. BucketOK'
  <2>1. TTL' = TTL /\ Full' = Full
    BY DEF TTL, Full
  <2> HIDE DEF TTL, Full
  <2> QED BY <1>3, <1>5, <1>6, <2>1 DEF BucketOK
<1>8. Refilled' = left
  <2>1. now' < bucket'.expires
    BY <1>3, <1>4, <1>5, <1>6
  <2>2. Refilled' = Least(Full, left + (now - now) * Refill)
    BY <1>5, <1>6, <2>1 DEF Refilled
  <2>3. (now - now) * Refill = 0
    BY <1>3
  <2> QED BY <1>3, <2>2, <2>3 DEF Least
<1>9. /\ decision'.allowed = (Refilled >= cost) /\ decision'.cost = cost
      /\ ~(Refilled >= cost) => decision'.retry_after = RetryAfter(cost, Refilled)
  BY <1>5
<1> QED BY <1>1, <1>2, <1>6, <1>7, <1>8, <1>9

\* A millisecond adds the refill, up to the capacity, whether the key is there,
\* expires now, or is gone.
LEMMA TickRefills ==
    ASSUME BucketOK, LimitTick
    PROVE  /\ BucketOK'
           /\ Refilled' = IF Refilled + Refill < Full THEN Refilled + Refill ELSE Full
<1>1. Full \in Nat /\ Refill \in Nat /\ Refill > 0 /\ TTL \in Nat /\ TTL * Refill >= Full
  BY FullPositive, TTLFills
<1>2. now' = now + 1 /\ UNCHANGED bucket
  BY DEF LimitTick
<1>3. /\ bucket.tokens \in Nat /\ bucket.updated_at \in Nat /\ bucket.expires \in Nat
      /\ now \in Nat /\ bucket.updated_at <= now /\ bucket.tokens <= Full
  BY DEF BucketOK
<1>4. BucketOK'
  <2>1. TTL' = TTL /\ Full' = Full
    BY DEF TTL, Full
  <2> HIDE DEF TTL, Full
  <2> QED BY <1>2, <1>3, <2>1 DEF BucketOK
<1> SUFFICES Refilled' = IF Refilled + Refill < Full THEN Refilled + Refill ELSE Full
  BY <1>4
<1>5. PICK age \in Nat : age = now - bucket.updated_at
  <2>1. now - bucket.updated_at \in Nat
    BY <1>3
  <2> QED BY <2>1
<1>6. /\ age * Refill \in Nat
      /\ (now' - bucket'.updated_at) * Refill = age * Refill + Refill
  <2>1. now' - bucket'.updated_at = age + 1
    BY <1>2, <1>3, <1>5
  <2>2. (age + 1) * Refill = age * Refill + Refill
    BY <1>1
  <2>3. age * Refill \in Nat
    BY <1>1
  <2> QED BY <2>1, <2>2, <2>3
<1>7. CASE now < bucket.expires
  <2>1. Refilled = Least(Full, bucket.tokens + age * Refill)
    BY <1>5, <1>7 DEF Refilled
  <2>2. CASE now + 1 < bucket.expires
    <3>1. Refilled' = Least(Full, bucket.tokens + (age * Refill + Refill))
      BY <1>2, <1>6, <2>2 DEF Refilled
    <3> QED BY <1>1, <1>3, <1>6, <2>1, <3>1 DEF Least
  <2>3. CASE ~(now + 1 < bucket.expires)
    <3>1. Refilled' = Full
      BY <1>2, <2>3 DEF Refilled
    <3>2. TTL <= age + 1
      BY <1>1, <1>3, <1>5, <1>7, <2>3 DEF BucketOK
    <3>3. TTL * Refill <= (age + 1) * Refill
      BY <1>1, <3>2, RefillMonotonic
    <3>4. (age + 1) * Refill = age * Refill + Refill /\ TTL * Refill \in Nat
      BY <1>1
    <3>5. Full <= age * Refill + Refill
      BY <1>1, <1>6, <3>3, <3>4
    <3> QED BY <1>1, <1>3, <1>6, <2>1, <3>1, <3>5 DEF Least
  <2> QED BY <2>2, <2>3
<1>8. CASE ~(now < bucket.expires)
  <2>1. Refilled = Full /\ Refilled' = Full
    BY <1>2, <1>3, <1>8 DEF Refilled
  <2> QED BY <1>1, <2>1
<1> QED BY <1>7, <1>8

\* A new limiter has no key, which counts as a full bucket.
LEMMA InitBucket == LimitInit => BucketOK /\ Refilled = Full
<1> SUFFICES ASSUME LimitInit PROVE BucketOK /\ Refilled = Full
  OBVIOUS
<1>1. bucket = NoBucket /\ now = 0
  BY DEF LimitInit
<1>2. BucketOK
  BY <1>1, FullPositive DEF BucketOK, NoBucket
<1> QED BY <1>1, <1>2 DEF Refilled, NoBucket

\* The bucket keeps its shape.
LEMMA NextBucket == BucketOK /\ [LimitNext]_limitVars => BucketOK'
<1> SUFFICES ASSUME BucketOK, [LimitNext]_limitVars PROVE BucketOK'
  OBVIOUS
<1>1. CASE UNCHANGED limitVars
  BY <1>1 DEF limitVars, BucketOK, TTL, Full
<1> QED BY <1>1, CheckTakes, TickRefills DEF LimitNext

\* Every reachable bucket has a shape the script can store.
THEOREM BucketInvariant == LimitSpec => []BucketOK
BY InitBucket, NextBucket, PTL DEF LimitSpec

-----------------------------------------------------------------------------
(* Refinement.                                                              *)

\* Every step of the limiter is a step of the ideal bucket.
LEMMA IdealStep == BucketOK /\ [LimitNext]_limitVars => [Ideal!Next]_(Ideal!bucketVars)
<1> SUFFICES ASSUME BucketOK, [LimitNext]_limitVars PROVE [Ideal!Next]_(Ideal!bucketVars)
  OBVIOUS
<1>1. ASSUME NEW tokens \in Costs, Check(tokens) PROVE Ideal!Next
  <2>1. Ideal!Request(tokens * Units)
    BY <1>1, CheckTakes DEF Ideal!Request
  <2>2. tokens * Units \in {n * Units : n \in Costs}
    OBVIOUS
  <2> QED BY <2>1, <2>2 DEF Ideal!Next
<1>2. CASE LimitTick
  <2>1. Ideal!TimePasses
    <3>1. UNCHANGED decision
      BY <1>2 DEF LimitTick
    <3> QED BY <1>2, <3>1, TickRefills DEF Ideal!TimePasses
  <2> QED BY <2>1 DEF Ideal!Next
<1>3. CASE UNCHANGED limitVars
  BY <1>3 DEF limitVars, Ideal!bucketVars, Refilled, Full
<1> QED BY <1>1, <1>2, <1>3 DEF LimitNext

\* The lazily refilled bucket in a key that expires cannot be told from one that
\* fills continuously and is never forgotten.
THEOREM BucketTheorem == LimitSpec => ImplementsTokenBucket
<1>1. LimitInit => Ideal!Init
  <2> SUFFICES ASSUME LimitInit PROVE Ideal!Init
    OBVIOUS
  <2>1. decision.allowed = TRUE
    BY DEF LimitInit
  <2> QED BY <2>1, InitBucket DEF Ideal!Init
<1> QED BY <1>1, IdealStep, BucketInvariant, PTL DEF LimitSpec, ImplementsTokenBucket, Ideal!Spec

-----------------------------------------------------------------------------
(* The wait a refused caller is told.                                       *)

\* A check answers with the wait that its own cost and bucket call for.
LEMMA CheckTellsWait ==
    ASSUME BucketOK, NEW tokens \in Costs, Check(tokens)
    PROVE  RetryAfterIsExact'
<1>1. PICK cost \in 1..Full : cost = tokens * Units
  BY FullPositive
<1>2. PICK have : have = Refilled
  OBVIOUS
<1>3. Full \in Nat /\ Refill \in Nat \ {0} /\ have \in Nat
  BY <1>2, FullPositive, RefilledBounds
<1> SUFFICES ASSUME ~decision'.allowed
             PROVE  /\ Least(Full, bucket'.tokens + decision'.retry_after * Refill) >= decision'.cost
                    /\ bucket'.tokens + (decision'.retry_after - 1) * Refill < decision'.cost
  BY DEF RetryAfterIsExact, Least, Full
<1>4. have < cost /\ bucket'.tokens = have /\ decision'.cost = cost
      /\ decision'.retry_after = RetryAfter(cost, have)
  <2>1. /\ bucket'.tokens = IF have >= cost THEN have - cost ELSE have
        /\ decision'.allowed = (have >= cost) /\ decision'.cost = cost
        /\ decision'.retry_after = RetryAfter(cost, have)
    BY <1>1, <1>2, CheckTakes
  <2>2. ~(have >= cost)
    BY <2>1
  <2> QED BY <1>1, <1>3, <2>1, <2>2
<1>5. /\ RetryAfter(cost, have) \in Nat
      /\ have + RetryAfter(cost, have) * Refill >= cost
      /\ have + (RetryAfter(cost, have) - 1) * Refill < cost
  BY <1>1, <1>3, <1>4, RetryAfterIsCeiling
<1> QED BY <1>1, <1>3, <1>4, <1>5 DEF Least

\* retry_after_ms is exact: never too short, never a millisecond too long, for
\* every capacity, refill rate and cost that _validate accepts.
THEOREM RetryTheorem == LimitSpec => []RetryAfterIsExact
<1>1. LimitInit => RetryAfterIsExact
  BY DEF LimitInit, RetryAfterIsExact
<1>2. BucketOK /\ RetryAfterIsExact /\ [LimitNext]_limitVars => RetryAfterIsExact'
  <2> SUFFICES ASSUME BucketOK, RetryAfterIsExact, [LimitNext]_limitVars PROVE RetryAfterIsExact'
    OBVIOUS
  <2>1. ASSUME UNCHANGED <<bucket, decision>> PROVE RetryAfterIsExact'
    BY <2>1 DEF RetryAfterIsExact, Least, Full
  <2>2. CASE LimitTick
    BY <2>1, <2>2 DEF LimitTick
  <2>3. CASE UNCHANGED limitVars
    BY <2>1, <2>3 DEF limitVars
  <2> QED BY <2>2, <2>3, CheckTellsWait DEF LimitNext
<1> QED BY <1>1, <1>2, BucketInvariant, PTL DEF LimitSpec

-----------------------------------------------------------------------------
(* The limit.                                                               *)

\* An entry of the account of what was let through.
Entry == [at: Nat, before: Nat, after: Nat]

\* What passed since some request, with what is in the bucket now, is at most
\* the capacity and what was refilled since.
LimitOK ==
    /\ spent \in Seq(Entry)
    /\ \A i \in DOMAIN spent :
          /\ spent[i].at <= now
          /\ Total - spent[i].before + Refilled <= Full + (now - spent[i].at) * Refill
    /\ NeverOverLimit

\* The entries of the account are numbers.
LEMMA EntryFields ==
    ASSUME NEW s \in Seq(Entry), NEW i \in DOMAIN s
    PROVE  s[i].at \in Nat /\ s[i].before \in Nat /\ s[i].after \in Nat
<1>1. s[i] \in Entry
  OBVIOUS
<1> QED BY <1>1 DEF Entry

\* What one more entry changes.
LEMMA AppendEntry ==
    ASSUME NEW s \in Seq(Entry), NEW e \in Entry, NEW t, t = Append(s, e)
    PROVE  /\ t \in Seq(Entry) /\ Len(t) = Len(s) + 1 /\ t # <<>>
           /\ \A i \in DOMAIN s : i \in DOMAIN t /\ t[i] = s[i]
           /\ Len(t) \in DOMAIN t /\ t[Len(t)] = e
           /\ \A i \in DOMAIN t : i \in DOMAIN s \/ i = Len(t)
           /\ \A i \in DOMAIN s, j \in DOMAIN t : j <= i => j \in DOMAIN s
OBVIOUS

\* The running total is a number.
LEMMA TotalNat == spent \in Seq(Entry) => Total \in Nat
<1> SUFFICES ASSUME spent \in Seq(Entry), spent # <<>> PROVE spent[Len(spent)].after \in Nat
  BY DEF Total
<1>1. Len(spent) \in DOMAIN spent
  OBVIOUS
<1> QED BY <1>1, EntryFields

\* What is refilled over a stretch of time, and over one more millisecond.
LEMMA RefillOver ==
    ASSUME NEW t \in Nat, NEW at \in Nat, at <= t
    PROVE  /\ (t - at) * Refill \in Nat
           /\ (t + 1 - at) * Refill = (t - at) * Refill + Refill
<1>1. t - at \in Nat /\ Refill \in Nat
  BY RateAssumption
<1>2. PICK d \in Nat : d = t - at
  BY <1>1
<1>3. t + 1 - at = d + 1
  BY <1>2
<1>4. (d + 1) * Refill = d * Refill + Refill /\ d * Refill \in Nat
  BY <1>1
<1> QED BY <1>1, <1>2, <1>3, <1>4

\* A refused check, or none at all, leaves the account as it is.
LEMMA LimitUnspent ==
    ASSUME LimitOK, spent' = spent, now' = now, Refilled' = Refilled
    PROVE  LimitOK'
<1>1. Total' = Total /\ Full' = Full
  BY DEF Total, Full
<1>2. NeverOverLimit'
  BY <1>1 DEF LimitOK, NeverOverLimit
<1> QED BY <1>1, <1>2 DEF LimitOK

\* A request let through takes from the bucket what it adds to the account.
LEMMA LimitSpent ==
    ASSUME BucketOK, LimitOK, NEW cost \in Nat, cost <= Refilled, now' = now,
           spent' = Append(spent, [at |-> now, before |-> Total, after |-> Total + cost]),
           Refilled' = Refilled - cost
    PROVE  LimitOK'
<1>1. /\ now \in Nat /\ Full \in Nat /\ Refilled \in Nat /\ Refilled <= Full
      /\ spent \in Seq(Entry)
  BY FullPositive, RefilledBounds DEF BucketOK, LimitOK
<1>2. Total \in Nat /\ Full' = Full
  BY <1>1, TotalNat DEF Full
<1>3. PICK new : new = [at |-> now, before |-> Total, after |-> Total + cost]
  OBVIOUS
<1>4. /\ new \in Entry
      /\ new.at = now /\ new.before = Total /\ new.after = Total + cost
  BY <1>1, <1>2, <1>3 DEF Entry
<1>5. PICK account : account = spent' /\ account = Append(spent, new)
  BY <1>3
<1>6. /\ account \in Seq(Entry) /\ Len(account) = Len(spent) + 1 /\ account # <<>>
      /\ \A i \in DOMAIN spent : i \in DOMAIN account /\ account[i] = spent[i]
      /\ Len(account) \in DOMAIN account /\ account[Len(account)] = new
      /\ \A i \in DOMAIN account : i \in DOMAIN spent \/ i = Len(account)
      /\ \A i \in DOMAIN spent, j \in DOMAIN account : j <= i => j \in DOMAIN spent
  BY <1>1, <1>4, <1>5, AppendEntry
<1>7. Total' = Total + cost
  BY <1>4, <1>5, <1>6 DEF Total
<1>8. ASSUME NEW i \in DOMAIN account
      PROVE  /\ account[i].at <= now /\ account[i].at \in Nat /\ account[i].before \in Nat
             /\ (now - account[i].at) * Refill \in Nat
             /\ Total - account[i].before + Refilled <= Full + (now - account[i].at) * Refill
  <2>1. account[i].at \in Nat /\ account[i].before \in Nat
    BY <1>6, EntryFields
  <2>2. CASE i = Len(account)
    <3>1. account[i].at = now /\ account[i].before = Total
      BY <1>4, <1>6, <2>2
    <3>2. now - now = 0 /\ 0 * Refill = 0
      BY <1>1, RateAssumption
    <3> QED BY <1>1, <1>2, <3>1, <3>2
  <2>3. CASE i \in DOMAIN spent
    <3>1. /\ account[i] = spent[i] /\ spent[i].at <= now
          /\ Total - spent[i].before + Refilled <= Full + (now - spent[i].at) * Refill
      BY <1>6, <2>3 DEF LimitOK
    <3>2. (now - account[i].at) * Refill \in Nat
      BY <1>1, <2>1, <3>1, RefillOver
    <3> QED BY <2>1, <3>1, <3>2
  <2> QED BY <1>6, <2>2, <2>3
<1>9. ASSUME NEW i \in DOMAIN account
      PROVE  /\ Total + cost - account[i].before + (Refilled - cost)
                  <= Full + (now - account[i].at) * Refill
             /\ Total + cost - account[i].before <= Full + (now - account[i].at) * Refill
  <2>1. PICK grown \in Nat : grown = (now - account[i].at) * Refill
    BY <1>8
  <2>2. PICK total \in Nat, have \in Nat, full \in Nat, before \in Nat :
           total = Total /\ have = Refilled /\ full = Full /\ before = account[i].before
    BY <1>1, <1>2, <1>8
  <2>3. total - before + have <= full + grown /\ cost <= have
    BY <1>8, <2>1, <2>2
  <2>4. total + cost - before + (have - cost) <= full + grown
        /\ total + cost - before <= full + grown
    BY <2>3
  <2> QED BY <2>1, <2>2, <2>4
<1>10. NeverOverLimit'
  <2> SUFFICES ASSUME NEW i \in DOMAIN account, NEW j \in DOMAIN account, i <= j
               PROVE  account[j].after - account[i].before <= Full + (account[j].at - account[i].at) * Refill
    BY <1>2, <1>5 DEF NeverOverLimit
  <2>1. CASE j = Len(account)
    <3>1. account[j].after = Total + cost /\ account[j].at = now
      BY <1>4, <1>6, <2>1
    <3>2. Total + cost - account[i].before <= Full + (now - account[i].at) * Refill
      BY <1>9
    <3>3. /\ account[j].at - account[i].at = now - account[i].at
          /\ account[j].after - account[i].before = Total + cost - account[i].before
      BY <1>1, <1>2, <1>8, <3>1
    <3>4. (account[j].at - account[i].at) * Refill = (now - account[i].at) * Refill
      BY <3>3
    <3> QED BY <3>2, <3>3, <3>4
  <2>2. CASE j \in DOMAIN spent
    <3>1. i \in DOMAIN spent /\ account[i] = spent[i] /\ account[j] = spent[j]
      BY <1>6, <2>2
    <3> QED BY <2>2, <3>1 DEF LimitOK, NeverOverLimit
  <2> QED BY <1>6, <2>1, <2>2
<1>11. \A i \in DOMAIN account :
          /\ account[i].at <= now'
          /\ Total' - account[i].before + Refilled' <= Full' + (now' - account[i].at) * Refill
  BY <1>2, <1>7, <1>8, <1>9
<1> QED BY <1>5, <1>6, <1>10, <1>11 DEF LimitOK

\* A millisecond adds at most the refill to the bucket.
LEMMA LimitRefills ==
    ASSUME BucketOK, LimitOK, LimitTick
    PROVE  LimitOK'
<1>1. /\ now \in Nat /\ Refill \in Nat /\ Full \in Nat
      /\ Refilled \in Nat /\ Refilled <= Full
      /\ spent \in Seq(Entry)
  BY FullPositive, RefilledBounds DEF BucketOK, LimitOK
<1>2. now' = now + 1 /\ spent' = spent
  BY DEF LimitTick
<1>3. Total' = Total /\ Full' = Full /\ Total \in Nat
  BY <1>1, <1>2, TotalNat DEF Total, Full
<1>4. PICK next \in Nat : next = Refilled' /\ next <= Refilled + Refill
  <2>1. Refilled' = IF Refilled + Refill < Full THEN Refilled + Refill ELSE Full
    BY TickRefills
  <2>2. Refilled' \in Nat /\ Refilled' <= Refilled + Refill
    BY <1>1, <2>1
  <2> QED BY <2>2
<1>5. NeverOverLimit'
  BY <1>2, <1>3 DEF LimitOK, NeverOverLimit
<1>6. ASSUME NEW i \in DOMAIN spent
      PROVE  /\ spent[i].at <= now + 1
             /\ Total - spent[i].before + next <= Full + (now + 1 - spent[i].at) * Refill
  <2>1. spent[i].at \in Nat /\ spent[i].before \in Nat
    BY <1>1, EntryFields
  <2>2. /\ spent[i].at <= now
        /\ Total - spent[i].before + Refilled <= Full + (now - spent[i].at) * Refill
    BY DEF LimitOK
  <2>3. /\ (now - spent[i].at) * Refill \in Nat
        /\ (now + 1 - spent[i].at) * Refill = (now - spent[i].at) * Refill + Refill
    BY <1>1, <2>1, <2>2, RefillOver
  <2>4. PICK grown \in Nat : grown = (now - spent[i].at) * Refill
    BY <2>3
  <2>5. PICK total \in Nat, have \in Nat, full \in Nat, before \in Nat :
           total = Total /\ have = Refilled /\ full = Full /\ before = spent[i].before
    BY <1>1, <1>3, <2>1
  <2>6. total - before + have <= full + grown /\ next <= have + Refill
    BY <1>4, <2>2, <2>4, <2>5
  <2>7. total - before + next <= full + (grown + Refill)
    BY <1>1, <2>6
  <2>8. spent[i].at <= now + 1
    BY <1>1, <2>1, <2>2
  <2> QED BY <2>3, <2>4, <2>5, <2>7, <2>8
<1>7. ASSUME NEW i \in DOMAIN spent'
      PROVE  /\ spent'[i].at <= now'
             /\ Total' - spent'[i].before + Refilled'
                   <= Full' + (now' - spent'[i].at) * Refill
  <2>1. i \in DOMAIN spent /\ spent'[i] = spent[i]
    BY <1>2
  <2>2. now' - spent'[i].at = now + 1 - spent[i].at
    <3>1. spent[i].at \in Nat
      BY <1>1, <2>1, EntryFields
    <3> QED BY <1>1, <1>2, <2>1, <3>1
  <2>3. /\ (now' - spent'[i].at) * Refill = (now + 1 - spent[i].at) * Refill
        /\ Total' - spent'[i].before + Refilled' = Total - spent[i].before + next
    BY <1>3, <1>4, <2>1, <2>2
  <2>4. spent'[i].at <= now'
    BY <1>2, <1>6, <2>1
  <2> QED BY <1>3, <1>6, <2>1, <2>3, <2>4
<1> QED BY <1>1, <1>2, <1>5, <1>7 DEF LimitOK

\* Over any stretch of time, and any number of expiries of the key in it, the
\* limiter lets through at most its capacity and what was refilled meanwhile.
THEOREM LimitTheorem == LimitSpec => []NeverOverLimit
<1>1. LimitInit => LimitOK
  <2> SUFFICES ASSUME LimitInit PROVE LimitOK
    OBVIOUS
  <2>1. spent = <<>>
    BY DEF LimitInit
  <2> QED BY <2>1 DEF LimitOK, NeverOverLimit
<1>2. BucketOK /\ LimitOK /\ [LimitNext]_limitVars => LimitOK'
  <2> SUFFICES ASSUME BucketOK, LimitOK, [LimitNext]_limitVars PROVE LimitOK'
    OBVIOUS
  <2>1. ASSUME NEW tokens \in Costs, Check(tokens) PROVE LimitOK'
    <3>1. PICK cost \in 1..Full : cost = tokens * Units
      BY FullPositive
    <3>2. /\ now' = now
          /\ Refilled' = IF Refilled >= cost THEN Refilled - cost ELSE Refilled
      BY <2>1, <3>1, CheckTakes DEF Check
    <3>3. spent' = IF Refilled >= cost
                   THEN Append(spent, [at |-> now, before |-> Total,
                                       after |-> Total + cost])
                   ELSE spent
      BY <2>1, <3>1 DEF Check
    <3>4. Full \in Nat /\ Refilled \in Nat
      BY FullPositive, RefilledBounds
    <3>5. CASE Refilled >= cost
      BY <3>2, <3>3, <3>4, <3>5, LimitSpent
    <3>6. CASE ~(Refilled >= cost)
      BY <3>2, <3>3, <3>6, LimitUnspent
    <3> QED BY <3>5, <3>6
  <2>2. CASE UNCHANGED limitVars
    BY <2>2, LimitUnspent DEF limitVars, Refilled, Full
  <2> QED BY <2>1, <2>2, LimitRefills DEF LimitNext
<1>3. LimitOK => NeverOverLimit
  BY DEF LimitOK
<1> QED BY <1>1, <1>2, <1>3, BucketInvariant, PTL DEF LimitSpec

-----------------------------------------------------------------------------
(* The types of the rate limiter.                                           *)

\* Whole tokens left are at most the capacity.
LEMMA RemainingBound ==
    ASSUME NEW left \in 0..Full
    PROVE  left \div Units \in 0..Capacity
<1>1. Units \in Nat /\ Units > 0 /\ Capacity \in Nat
  BY RateAssumption
<1>2. PICK q \in Nat : q = left \div Units /\ q * Units <= left
  <2>1. left \in Nat
    BY FullPositive
  <2>2. left \div Units \in Nat /\ (left \div Units) * Units <= left
    BY <1>1, <2>1
  <2> QED BY <2>2
<1>3. q * Units <= Capacity * Units
  <2>1. PICK full \in Nat : full = Capacity * Units
    BY <1>1
  <2>2. left <= full /\ left \in Nat
    BY <2>1, FullPositive DEF Full
  <2>3. PICK taken \in Nat : taken = q * Units
    BY <1>1
  <2> QED BY <1>2, <2>1, <2>2, <2>3
<1>4. ASSUME q > Capacity PROVE FALSE
  <2>1. PICK d \in Nat : q = Capacity + 1 + d
    <3>1. q - Capacity - 1 \in Nat /\ q = Capacity + 1 + (q - Capacity - 1)
      BY <1>1, <1>2, <1>4
    <3> QED BY <3>1
  <2>2. q * Units = Capacity * Units + Units + d * Units
    BY <1>1, <2>1
  <2>3. d * Units \in Nat /\ Capacity * Units \in Nat
    BY <1>1
  <2> QED BY <1>1, <1>3, <2>2, <2>3
<1> QED BY <1>1, <1>2, <1>4

\* A check stores and answers numbers in their ranges.
LEMMA CheckTyped ==
    ASSUME BucketOK, spent \in Seq(Entry), NEW tokens \in Costs, Check(tokens)
    PROVE  LimitTypeOK'
<1>1. PICK cost \in 1..Full : cost = tokens * Units
  BY FullPositive
<1>2. PICK left : left = IF Refilled >= cost THEN Refilled - cost ELSE Refilled
  OBVIOUS
<1>3. left \in 0..Full /\ now \in Nat /\ Full \in Nat /\ Refilled \in Nat /\ cost \in Nat
  BY <1>2, RefilledBounds, FullPositive DEF BucketOK
<1>4. now + TTL \in Nat
  BY <1>3, TTLFills
<1>5. left \div Units \in 0..Capacity
  BY <1>3, RemainingBound
<1>6. (IF Refilled >= cost THEN 0 ELSE RetryAfter(cost, Refilled)) \in Nat
  <2>1. CASE Refilled >= cost
    BY <2>1
  <2>2. CASE ~(Refilled >= cost)
    BY <1>3, <2>2, RetryAfterIsCeiling
  <2> QED BY <2>1, <2>2
<1>7. /\ bucket' = [tokens |-> left, updated_at |-> now, expires |-> now + TTL]
      /\ decision' = [allowed |-> Refilled >= cost, cost |-> cost,
                      remaining |-> left \div Units,
                      retry_after |-> IF Refilled >= cost THEN 0
                                      ELSE RetryAfter(cost, Refilled),
                      at |-> now]
      /\ spent' = IF Refilled >= cost
                  THEN Append(spent, [at |-> now, before |-> Total, after |-> Total + cost])
                  ELSE spent
      /\ now' = now
  BY <1>1, <1>2 DEF Check
<1>8. bucket' \in [tokens: 0..Full, updated_at: Nat, expires: Nat]
  BY <1>3, <1>4, <1>7
<1>9. decision' \in [allowed: BOOLEAN, cost: Nat, remaining: 0..Capacity,
                     retry_after: Nat, at: Nat]
  BY <1>3, <1>5, <1>6, <1>7
<1>10. spent' \in Seq(Entry)
  <2>1. [at |-> now, before |-> Total, after |-> Total + cost] \in Entry
    BY <1>3, TotalNat DEF Entry
  <2> HIDE DEF Entry
  <2> QED BY <1>7, <2>1
<1>11. Full' = Full
  BY DEF Full
<1> QED BY <1>3, <1>7, <1>8, <1>9, <1>10, <1>11 DEF LimitTypeOK, Entry

\* What the script stores and returns stays in range: the bucket between empty and
\* full, remaining between none and the capacity, retry_after a whole number.
THEOREM LimitTypes == LimitSpec => []LimitTypeOK
<1>1. LimitInit => LimitTypeOK
  <2> SUFFICES ASSUME LimitInit PROVE LimitTypeOK
    OBVIOUS
  <2>1. Full \in Nat /\ Capacity \in Nat
    BY FullPositive, RateAssumption
  <2> QED BY <2>1 DEF LimitInit, NoBucket, LimitTypeOK
<1>2. BucketOK /\ LimitTypeOK /\ [LimitNext]_limitVars => LimitTypeOK'
  <2> SUFFICES ASSUME BucketOK, LimitTypeOK, [LimitNext]_limitVars PROVE LimitTypeOK'
    OBVIOUS
  <2>1. ASSUME UNCHANGED <<bucket, decision, spent>>, now' \in Nat PROVE LimitTypeOK'
    <3>1. Full' = Full
      BY DEF Full
    <3> QED BY <2>1, <3>1 DEF LimitTypeOK
  <2>2. CASE LimitTick
    BY <2>1, <2>2 DEF LimitTick, LimitTypeOK
  <2>3. CASE UNCHANGED limitVars
    BY <2>1, <2>3 DEF limitVars, LimitTypeOK
  <2>4. spent \in Seq(Entry)
    BY DEF LimitTypeOK, Entry
  <2> QED BY <2>2, <2>3, <2>4, CheckTyped DEF LimitNext
<1> QED BY <1>1, <1>2, BucketInvariant, PTL DEF LimitSpec
=============================================================================
