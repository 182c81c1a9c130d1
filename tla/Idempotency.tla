---------------------------- MODULE Idempotency ----------------------------
(***************************************************************************)
(* The idempotency store of redis/idempotency.py: the record of one key,   *)
(* the begin / complete / release Lua scripts, and requests that use them  *)
(* over a client that re-sends a script whose answer timed out             *)
(* (redis/runtime.py, retry_on_timeout): the first send may have run and   *)
(* lost its answer, or may run late, or never.                             *)
(***************************************************************************)
EXTENDS Naturals, FiniteSets

CONSTANTS
    Requests,       \* requests that carry the same idempotency key
    Fingerprint,    \* request_fingerprint of each request
    None,
    ProcessingTTL,  \* processing_ttl_seconds
    CompletedTTL,   \* ttl_seconds of a completed record
    MaxSends,       \* redis_retry_attempts + 1
    MaxBegins,      \* bound: begin calls of one request
    MaxFaults,      \* bound: timeouts and crashes
    MaxClock        \* bound: Redis server time

ASSUME ConstantsAssumption ==
    /\ ProcessingTTL \in Nat \ {0} /\ CompletedTTL \in Nat \ {0}
    /\ MaxSends \in Nat \ {0} /\ MaxBegins \in Nat
    /\ MaxFaults \in Nat /\ MaxClock \in Nat

VARIABLES
    record,     \* value and expiry of the key, or None
    pc,         \* what each request is doing
    token,      \* token of the request's latest begin
    begunAt,    \* time the request first sent that begin
    begins,     \* begin calls made by each request
    sends,      \* sends of the command in progress
    late,       \* timed-out scripts that may still run
    result,     \* what the request was last told
    effects,    \* tokens under which the operation was carried out
    faults,     \* timeouts and crashes so far
    clock       \* Redis server time

vars == <<record, pc, token, begunAt, begins, sends, late, result, effects, faults, clock>>

Token == Requests \X (0..MaxBegins)

Record ==
    [status: {"in_progress"}, token: Token, fingerprint: {Fingerprint[r] : r \in Requests},
     response: {None}, expires: Nat]
    \cup
    [status: {"completed"}, token: {None}, fingerprint: {Fingerprint[r] : r \in Requests},
     response: Token, expires: Nat]

\* A missing key is not a record, a missing token not a token.
ASSUME NoneAssumption == None \notin Token /\ None \notin Record

Scripts == {"begin", "complete", "release"}

Command == [op: Scripts, req: Requests, token: Token]

\* The key exists for Redis.
Live(rec) == rec # None /\ clock < rec.expires

-----------------------------------------------------------------------------
(* The Lua scripts, as the record they leave behind.                        *)

InProgress(c) ==
    [status |-> "in_progress", token |-> c.token, fingerprint |-> Fingerprint[c.req],
     response |-> None, expires |-> clock + ProcessingTTL]

\* The response is named by the lease under which it was computed.
Completed(c) ==
    [status |-> "completed", token |-> None, fingerprint |-> Fingerprint[c.req],
     response |-> c.token, expires |-> clock + CompletedTTL]

\* Mutants: begin overwrites; release does not compare tokens.
BeginScript_Overwrites(c) == InProgress(c)

MayRelease_AnyToken(c) == Live(record)

\* _BEGIN_SCRIPT
BeginScript(c) == IF Live(record) THEN record ELSE InProgress(c)

\* The checks of _COMPLETE_SCRIPT.
MayComplete(c) ==
    Live(record) /\ record.token = c.token /\ record.fingerprint = Fingerprint[c.req]

\* The checks of _RELEASE_SCRIPT.
MayRelease(c) == Live(record) /\ record.token = c.token

\* The record after a script.
After(c) ==
    CASE c.op = "begin"    -> BeginScript(c)
      [] c.op = "complete" -> IF MayComplete(c) THEN Completed(c) ELSE record
      [] c.op = "release"  -> IF MayRelease(c) THEN None ELSE record

\* Mutant: a completed record is replayed whatever the request was.
BeginResult_AnyRequest(c, existing) ==
    IF existing.token = c.token THEN [status |-> "started", response |-> None]
    ELSE IF existing.status = "completed"
         THEN [status |-> "completed", response |-> existing.response]
    ELSE IF existing.fingerprint # Fingerprint[c.req]
         THEN [status |-> "conflict", response |-> None]
    ELSE [status |-> "in_progress", response |-> None]

\* What begin makes of the record the script returned.
BeginResult(c, existing) ==
    IF existing.token = c.token THEN [status |-> "started", response |-> None]
    ELSE IF existing.fingerprint # Fingerprint[c.req]
         THEN [status |-> "conflict", response |-> None]
    ELSE IF existing.status = "completed"
         THEN [status |-> "completed", response |-> existing.response]
    ELSE [status |-> "in_progress", response |-> None]

-----------------------------------------------------------------------------
Init ==
    /\ record = None
    /\ pc = [r \in Requests |-> "idle"]
    /\ token = [r \in Requests |-> <<r, 0>>]
    /\ begunAt = [r \in Requests |-> 0]
    /\ begins = [r \in Requests |-> 0]
    /\ sends = [r \in Requests |-> 0]
    /\ late = {}
    /\ result = [r \in Requests |-> [status |-> "none", response |-> None]]
    /\ effects = {}
    /\ faults = 0 /\ clock = 0

\* First send of a script.
Call(r, op) ==
    /\ pc' = [pc EXCEPT ![r] = op]
    /\ sends' = [sends EXCEPT ![r] = 1]

\* begin: a fresh token, and the first send of the script.
CallBegin(r) ==
    /\ pc[r] = "idle" /\ begins[r] < MaxBegins
    /\ begins' = [begins EXCEPT ![r] = @ + 1]
    /\ token' = [token EXCEPT ![r] = <<r, begins[r] + 1>>]
    /\ begunAt' = [begunAt EXCEPT ![r] = clock]
    /\ Call(r, "begin")
    /\ UNCHANGED <<record, late, result, effects, faults, clock>>

\* The operation the key protects is carried out.
Work(r) ==
    /\ pc[r] = "working" /\ token[r] \notin effects
    /\ effects' = effects \cup {token[r]}
    /\ UNCHANGED <<record, pc, token, begunAt, begins, sends, late, result, faults, clock>>

\* complete after the work, or release without it.
CallEnd(r, op) ==
    /\ pc[r] = "working"
    /\ (op = "complete") <=> (token[r] \in effects)
    /\ Call(r, op)
    /\ UNCHANGED <<record, token, begunAt, begins, late, result, effects, faults, clock>>

\* The command request r waits for.
Current(r) == [op |-> pc[r], req |-> r, token |-> token[r]]

\* What r makes of the answer, and whether it goes on to do the work.
Told(c) ==
    CASE c.op = "begin"    -> BeginResult(c, BeginScript(c))
      [] c.op = "complete" -> [status |-> IF MayComplete(c) THEN "stored" ELSE "conflict",
                               response |-> None]
      [] c.op = "release"  -> [status |-> IF MayRelease(c) THEN "released" ELSE "not_released",
                               response |-> None]

Answered(r) ==
    /\ pc[r] \in Scripts
    /\ record' = After(Current(r))
    /\ result' = [result EXCEPT ![r] = Told(Current(r))]
    /\ pc' = [pc EXCEPT ![r] =
                IF Told(Current(r)).status = "started" THEN "working" ELSE "idle"]
    /\ UNCHANGED <<token, begunAt, begins, sends, late, effects, faults, clock>>

\* No answer in time: the script ran or is still under way; it is sent again,
\* or the error is raised after the last send.
Timeout(r, ran) ==
    /\ pc[r] \in Scripts
    /\ faults < MaxFaults /\ faults' = faults + 1
    /\ IF ran THEN record' = After(Current(r)) /\ UNCHANGED late
              ELSE late' = late \cup {Current(r)} /\ UNCHANGED record
    /\ IF sends[r] < MaxSends
       THEN sends' = [sends EXCEPT ![r] = @ + 1] /\ UNCHANGED <<pc, result>>
       ELSE /\ pc' = [pc EXCEPT ![r] = "idle"]
            /\ result' = [result EXCEPT ![r] = [status |-> "error", response |-> None]]
            /\ UNCHANGED sends
    /\ UNCHANGED <<token, begunAt, begins, effects, clock>>

\* A script its client has given up on runs after all.
RunLate(c) ==
    /\ c \in late
    /\ late' = late \ {c}
    /\ record' = After(c)
    /\ UNCHANGED <<pc, token, begunAt, begins, sends, result, effects, faults, clock>>

\* The process handling the request dies, a script of it perhaps under way;
\* the request may be tried again later.
Crash(r) ==
    /\ pc[r] # "idle"
    /\ faults < MaxFaults /\ faults' = faults + 1
    /\ pc' = [pc EXCEPT ![r] = "idle"]
    /\ late' = IF pc[r] \in Scripts THEN late \cup {Current(r)} ELSE late
    /\ UNCHANGED <<record, token, begunAt, begins, sends, result, effects, clock>>

Tick ==
    /\ clock < MaxClock
    /\ clock' = clock + 1
    /\ UNCHANGED <<record, pc, token, begunAt, begins, sends, late, result, effects, faults>>

Next ==
    \/ \E r \in Requests :
          \/ CallBegin(r) \/ Work(r)
          \/ CallEnd(r, "complete") \/ CallEnd(r, "release")
          \/ Answered(r) \/ Timeout(r, TRUE) \/ Timeout(r, FALSE)
          \/ Crash(r)
    \/ \E c \in late : RunLate(c)
    \/ Tick

Spec == Init /\ [][Next]_vars

-----------------------------------------------------------------------------
(* Properties.                                                              *)

\* The record is one the scripts can write and decode; commands are well formed.
TypeOK ==
    /\ record \in Record \cup {None}
    /\ pc \in [Requests -> Scripts \cup {"idle", "working"}]
    /\ token \in [Requests -> Token]
    /\ late \subseteq Command
    /\ effects \subseteq Token

\* A request that was told "started" owns the key until processing_ttl_seconds
\* after it sent begin, whatever late or repeated commands still arrive: so two
\* requests never work under the key at once unless one outlived its TTL.
LeaseHolds ==
    \A r \in Requests :
        pc[r] = "working" /\ clock < begunAt[r] + ProcessingTTL
            => Live(record) /\ record.token = token[r]

\* A replayed response was computed, and for the same request data.
ReplayIsOwnRequest ==
    \A r \in Requests :
        result[r].status = "completed" =>
            /\ result[r].response \in effects
            /\ Fingerprint[result[r].response[1]] = Fingerprint[r]

\* A stored response is never replaced or deleted before it expires, by late,
\* repeated or foreign begins, completes and releases.
CompletedStable ==
    [][Live(record) /\ record.status = "completed" => record' = record]_vars

\* IdempotencyConflictError (exceptions.py): "Raised when an idempotency key
\* is reused with incompatible request data."
ConflictMeansOtherRequest ==
    \A r \in Requests :
        result[r].status = "conflict" =>
            \E q \in Requests : Fingerprint[q] # Fingerprint[r] /\ begins[q] > 0
=============================================================================
