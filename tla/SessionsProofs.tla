--------------------------- MODULE SessionsProofs ---------------------------
(***************************************************************************)
(* Proofs about Sessions, for any tasks, connections, tenants and bounds:  *)
(* its types, the isolation of tenants, and what the end of a block says   *)
(* of its commits.                                                         *)
(*                                                                         *)
(* The inductive invariant has a part for each task.  CallOK counts, at    *)
(* each point of a block, the commits asked for and those that took        *)
(* effect; it speaks of the record of the block alone, so that each        *)
(* operation on that record has one lemma.  Isolated says that a           *)
(* transaction touches rows of its tenant only; for the next transaction   *)
(* of the connection it needs that app.tenant_id is None on every          *)
(* connection outside of transactions.                                     *)
(***************************************************************************)
EXTENDS Sessions, TLAPS

Settings == [rls: BOOLEAN, required: BOOLEAN]

\* A transaction reads and writes with the setting it was begun with, and only
\* on a connection.
TransactionOK(c) ==
    /\ c.setting = c.tenant
    /\ c.conn = None => c.staged = {} /\ c.saw = {} /\ ~c.aborted
    /\ c.pc \in {"backoff", "ended"} => c.conn = None
    /\ c.aborted => c.swallowed

\* Where the retry loop is.
AttemptOK(c) ==
    /\ c.pc = "backoff" => c.kind = "retry" /\ c.attempt < MaxAttempts
    /\ c.kind \in CommitsAtExit /\ c.pc = "body" => c.asked = 0
    /\ c.pc # "ended" => c.result = "ok"

\* Commits asked for and applied, unless lost connections are retried.
CountOK(c) ==
    /\ c.applied <= c.asked
    /\ c.pc = "commit" /\ c.pending \cup c.staged # {} => c.applied < c.asked
    /\ c.kind \in CommitsAtExit /\ c.pc # "ended" => c.applied = 0
    /\ c.kind \in CommitsAtExit /\ c.pc = "commit" =>
          c.asked = IF c.pending \cup c.staged = {} THEN 0 ELSE 1

\* The end of a block that commits when it is left.
EndOK(c) ==
    c.kind \in CommitsAtExit /\ c.pc = "ended" =>
        /\ c.result = "ok" /\ ~c.swallowed => c.applied = c.asked
        /\ c.result \in {"app", "transient", "permanent"} => c.applied = 0

CallOK(c) ==
    /\ c \in Call /\ TransactionOK(c) /\ AttemptOK(c)
    /\ ~c.handling => CountOK(c) /\ EndOK(c)

\* A block is within the contexts that were there when it was entered.
ContextOK(c, s) ==
    /\ s \in Seq(Tenants \cup {None}) /\ Len(s) <= MaxDepth
    /\ c.pc # "ended" => c.base <= Len(s)

Isolated(c) == Guarded => c.saw \cup c.staged \subseteq {c.tenant} \ {None}

\* The inductive invariant.
SessionsOK ==
    /\ ctx \in [Tasks -> Seq(Tenants \cup {None})] /\ call \in [Tasks -> Call]
    /\ guc = [c \in Conns |-> None] /\ rls \in RLS /\ settings \in Settings
    /\ \A t \in Tasks :
          CallOK(call[t]) /\ ContextOK(call[t], ctx[t]) /\ Isolated(call[t])

-----------------------------------------------------------------------------
(* The operations on the record of a block.                                 *)

\* The fields that say what a block has done, whatever its transaction.
Progress(c) == <<c.kind, c.handling, c.base, c.attempt, c.asked>>

\* A block whose transaction is over.
Over(c) ==
    /\ c \in Call /\ c.conn = None /\ c.setting = None /\ c.tenant = None
    /\ c.pending = {} /\ c.staged = {} /\ c.saw = {} /\ c.aborted = FALSE

\* NoTransaction changes the transaction and nothing else.
LEMMA NoTransactionOver ==
    ASSUME NEW c \in Call
    PROVE  /\ Over(NoTransaction(c)) /\ Progress(NoTransaction(c)) = Progress(c)
           /\ NoTransaction(c).pc = c.pc /\ NoTransaction(c).swallowed = c.swallowed
           /\ NoTransaction(c).applied = c.applied /\ NoTransaction(c).result = c.result
<1>1. NoTransaction(c) \in Call
  BY DEF NoTransaction, Call
<1> QED BY <1>1 DEF NoTransaction, Call, Over, Progress

\* A block that is entered has done nothing yet.
LEMMA NewCallOK ==
    ASSUME NEW kind \in Kinds, NEW handling \in BOOLEAN, NEW pc \in {"body", "ended"},
           NEW base \in 0..MaxDepth
    PROVE  LET c == NewCall(kind, handling, pc, base)
           IN  CallOK(c) /\ c.base = base /\ c.saw = {} /\ c.staged = {}
<1>1. PICK c : c = NewCall(kind, handling, pc, base)
  OBVIOUS
<1>2. c \in Call
  BY <1>1, SessionAssumption DEF NewCall, Call, Errors
<1>3. /\ c.kind = kind /\ c.pc = pc /\ c.base = base /\ c.conn = None
      /\ c.tenant = None /\ c.setting = None /\ c.pending = {} /\ c.staged = {}
      /\ c.saw = {} /\ c.aborted = FALSE /\ c.swallowed = FALSE
      /\ c.asked = 0 /\ c.applied = 0 /\ c.result = "ok"
  BY <1>1 DEF NewCall
<1>4. TransactionOK(c) /\ AttemptOK(c)
  BY <1>3 DEF TransactionOK, AttemptOK
<1>5. CountOK(c) /\ EndOK(c)
  BY <1>3 DEF CountOK, EndOK
<1> QED BY <1>1, <1>2, <1>3, <1>4, <1>5 DEF CallOK

\* An exception that leaves a block is the end of it, or of an attempt.  A call the
\* client gave up is not retried, nor is a lost connection unless a transient error
\* was being handled.
LEMMA RaisedOK ==
    ASSUME NEW c, Over(c), NEW e \in Errors, c.result = "ok",
           ~c.handling => /\ c.applied <= c.asked
                          /\ c.kind \in CommitsAtExit => c.applied = 0 \/ e \in {"lost", "cut"}
    PROVE  /\ CallOK(Raised(c, e)) /\ Raised(c, e).base = c.base
           /\ Raised(c, e).saw = {} /\ Raised(c, e).staged = {}
<1>1. c \in Call /\ c.attempt \in 1..MaxAttempts /\ c.kind \in Kinds
      /\ c.applied \in Nat /\ c.asked \in 0..MaxCommits
  BY DEF Over, Call
<1>2. CASE c.kind = "retry" /\ ~GivesUp(c, e)
  <2>1. PICK r : r = [c EXCEPT !.pc = "backoff"]
    OBVIOUS
  <2>2. r = Raised(c, e)
    BY <1>2, <2>1 DEF Raised
  <2>3. c.attempt < MaxAttempts /\ Retryable(e, c.handling)
    BY <1>1, <1>2, SessionAssumption DEF GivesUp
  <2>4. c.handling \/ e \notin {"lost", "cut"}
    BY <2>3 DEF Retryable, SqlState
  <2>5. r \in Call /\ r.pc = "backoff" /\ r.applied = c.applied /\ r.asked = c.asked
        /\ Progress(r) = Progress(c) /\ r.result = c.result /\ r.swallowed = c.swallowed
        /\ Over(r)
    BY <1>1, <2>1 DEF Call, Progress, Over
  <2>6. /\ r.kind = "retry" /\ r.attempt < MaxAttempts /\ r.handling = c.handling
        /\ r.base = c.base
    BY <1>2, <2>3, <2>5 DEF Progress
  <2>7. TransactionOK(r) /\ AttemptOK(r)
    BY <2>5, <2>6 DEF TransactionOK, AttemptOK, Over
  <2>8. ASSUME ~r.handling PROVE CountOK(r) /\ EndOK(r)
    BY <1>2, <2>4, <2>5, <2>6, <2>8 DEF CountOK, EndOK, CommitsAtExit
  <2> QED BY <2>2, <2>5, <2>6, <2>7, <2>8 DEF CallOK, Over
<1>3. CASE ~(c.kind = "retry" /\ ~GivesUp(c, e))
  <2>1. PICK r : r = [c EXCEPT !.pc = "ended", !.result = e]
    OBVIOUS
  <2>2. r = Raised(c, e)
    BY <1>3, <2>1 DEF Raised
  <2>3. r \in Call /\ r.pc = "ended" /\ r.applied = c.applied /\ r.asked = c.asked
        /\ Progress(r) = Progress(c) /\ r.result = e /\ Over(r)
    BY <1>1, <2>1 DEF Call, Progress, Over
  <2>4. r.kind = c.kind /\ r.handling = c.handling /\ r.base = c.base
    BY <2>3 DEF Progress
  <2>5. TransactionOK(r) /\ AttemptOK(r)
    BY <2>3 DEF TransactionOK, AttemptOK, Over
  <2>6. ASSUME ~r.handling PROVE CountOK(r) /\ EndOK(r)
    BY <2>3, <2>4, <2>6 DEF CountOK, EndOK, Errors
  <2> QED BY <2>2, <2>3, <2>4, <2>5, <2>6 DEF CallOK, Over
<1> QED BY <1>2, <1>3

\* An exception before the answer to COMMIT: nothing was applied.
LEMMA RaisesOK ==
    ASSUME NEW c, CallOK(c), c.pc # "ended", NEW e \in Errors
    PROVE  LET r == Raised(NoTransaction(c), e)
           IN  CallOK(r) /\ r.base = c.base /\ r.saw = {} /\ r.staged = {}
<1>1. PICK n : n = NoTransaction(c)
  OBVIOUS
<1>2. /\ Over(n) /\ Progress(n) = Progress(c) /\ n.applied = c.applied
      /\ n.result = c.result
  BY <1>1, NoTransactionOver DEF CallOK
<1>3. n.result = "ok"
  BY <1>2 DEF CallOK, AttemptOK
<1>4. /\ n.kind = c.kind /\ n.handling = c.handling /\ n.base = c.base
      /\ n.asked = c.asked
  BY <1>2 DEF Progress
<1>5. ~n.handling => /\ n.applied <= n.asked
                     /\ n.kind \in CommitsAtExit => n.applied = 0 \/ e \in {"lost", "cut"}
  BY <1>2, <1>4 DEF CallOK, CountOK
<1>6. CallOK(Raised(n, e)) /\ Raised(n, e).base = n.base
      /\ Raised(n, e).saw = {} /\ Raised(n, e).staged = {}
  BY <1>2, <1>3, <1>5, RaisedOK
<1> QED BY <1>1, <1>4, <1>6

\* A commit begins: rows that were added count as asked for.
LEMMA CommittingOK ==
    ASSUME NEW c, CallOK(c), c.pc = "body",
           c.asked < MaxCommits \/ c.kind \in CommitsAtExit
    PROVE  LET r == Committing(c)
           IN  /\ CallOK(r) /\ r.base = c.base
               /\ r.saw = c.saw /\ r.staged = c.staged /\ r.tenant = c.tenant
<1>1. /\ c \in Call /\ c.asked \in 0..MaxCommits /\ c.applied \in Nat
      /\ c.kind \in CommitsAtExit => c.asked = 0
  BY DEF CallOK, AttemptOK, Call
<1>2. PICK a : a = IF c.pending \cup c.staged = {} THEN c.asked ELSE c.asked + 1
  OBVIOUS
<1>3. a \in 0..MaxCommits
  BY <1>1, <1>2, SessionAssumption
<1>4. PICK r : r = [c EXCEPT !.pc = "commit", !.asked = a]
  OBVIOUS
<1>5. r = Committing(c)
  BY <1>1, <1>2, <1>4 DEF Committing
<1>6. r \in Call
  BY <1>1, <1>3, <1>4 DEF Call
<1>7. /\ r.pc = "commit" /\ r.asked = a /\ r.base = c.base /\ r.kind = c.kind
      /\ r.handling = c.handling /\ r.attempt = c.attempt /\ r.conn = c.conn
      /\ r.tenant = c.tenant /\ r.setting = c.setting /\ r.pending = c.pending
      /\ r.staged = c.staged /\ r.saw = c.saw /\ r.aborted = c.aborted
      /\ r.swallowed = c.swallowed /\ r.applied = c.applied /\ r.result = c.result
  BY <1>1, <1>4 DEF Call
<1>8. TransactionOK(r) /\ AttemptOK(r)
  BY <1>7 DEF CallOK, TransactionOK, AttemptOK
<1>9. ASSUME ~r.handling PROVE CountOK(r) /\ EndOK(r)
  <2>1. CountOK(c)
    BY <1>7, <1>9 DEF CallOK
  <2> QED BY <1>1, <1>2, <1>7, <2>1 DEF CountOK, EndOK
<1> QED BY <1>5, <1>6, <1>7, <1>8, <1>9 DEF CallOK

\* What is left of a transaction when its commit is over.
LEMMA AfterCommitOver ==
    ASSUME NEW c \in Call, NEW effect \in BOOLEAN
    PROVE  LET r == AfterCommit(c, effect)
           IN  /\ Over(r) /\ Progress(r) = Progress(c)
               /\ r.pc = IF c.kind \in CommitsAtExit THEN "ended" ELSE "body"
               /\ r.applied = IF effect THEN c.applied + 1 ELSE c.applied
               /\ r.swallowed = c.swallowed /\ r.result = c.result
<1>1. PICK n : n = NoTransaction(c)
  OBVIOUS
<1>2. /\ Over(n) /\ Progress(n) = Progress(c) /\ n.swallowed = c.swallowed
      /\ n.applied = c.applied /\ n.result = c.result
  BY <1>1, NoTransactionOver
<1>3. PICK a : a = IF effect THEN n.applied + 1 ELSE n.applied
  OBVIOUS
<1>4. PICK pc : pc = IF c.kind \in CommitsAtExit THEN "ended" ELSE "body"
  OBVIOUS
<1>5. n \in Call /\ a \in Nat /\ pc \in {"body", "commit", "backoff", "ended"}
  BY <1>2, <1>3, <1>4 DEF Over, Call
<1>6. PICK r : r = [n EXCEPT !.pc = pc, !.applied = a]
  OBVIOUS
<1>7. r = AfterCommit(c, effect)
  BY <1>1, <1>3, <1>4, <1>5, <1>6 DEF AfterCommit
<1>8. r \in Call
  BY <1>5, <1>6 DEF Call
<1>9. /\ r.pc = pc /\ r.applied = a /\ r.swallowed = n.swallowed
      /\ r.result = n.result /\ Progress(r) = Progress(n)
  BY <1>5, <1>6 DEF Call, Progress
<1>10. Over(r)
  BY <1>2, <1>5, <1>6, <1>8 DEF Call, Over
<1> QED BY <1>2, <1>3, <1>4, <1>7, <1>9, <1>10

\* A COMMIT that is answered takes effect unless the transaction was aborted.
LEMMA AfterCommitOK ==
    ASSUME NEW c, CallOK(c), c.pc = "commit", c.pending = {}
    PROVE  LET r == AfterCommit(c, c.staged # {} /\ ~c.aborted)
           IN  CallOK(r) /\ r.base = c.base /\ r.saw = {} /\ r.staged = {}
<1>1. PICK effect \in BOOLEAN : effect = (c.staged # {} /\ ~c.aborted)
  OBVIOUS
<1>2. PICK r : r = AfterCommit(c, effect)
  OBVIOUS
<1>3. /\ c \in Call /\ c.applied \in Nat /\ c.asked \in 0..MaxCommits
      /\ c.aborted \in BOOLEAN /\ c.result = "ok"
      /\ c.aborted => c.swallowed
  BY DEF CallOK, Call, AttemptOK, TransactionOK
<1>4. /\ Over(r) /\ Progress(r) = Progress(c)
      /\ r.pc = IF c.kind \in CommitsAtExit THEN "ended" ELSE "body"
      /\ r.applied = IF effect THEN c.applied + 1 ELSE c.applied
      /\ r.swallowed = c.swallowed /\ r.result = c.result
  BY <1>2, <1>3, AfterCommitOver
<1>5. /\ r.kind = c.kind /\ r.handling = c.handling /\ r.base = c.base
      /\ r.attempt = c.attempt /\ r.asked = c.asked
  BY <1>4 DEF Progress
<1>6. TransactionOK(r) /\ AttemptOK(r)
  BY <1>3, <1>4, <1>5 DEF TransactionOK, AttemptOK, Over
<1>7. ASSUME ~r.handling PROVE CountOK(r) /\ EndOK(r)
  <2>1. CountOK(c)
    BY <1>5, <1>7 DEF CallOK
  <2>2. /\ c.applied <= c.asked
        /\ c.staged # {} => c.applied < c.asked
        /\ c.kind \in CommitsAtExit =>
             c.applied = 0 /\ c.asked = IF c.staged = {} THEN 0 ELSE 1
    BY <2>1 DEF CountOK
  <2>3. /\ effect => c.staged # {}
        /\ ~effect /\ c.staged # {} => c.aborted
    BY <1>1
  <2>4. r.applied <= r.asked
    BY <1>3, <1>4, <1>5, <2>2, <2>3
  <2>5. c.kind \in CommitsAtExit /\ ~c.swallowed => r.applied = r.asked
    BY <1>3, <1>4, <1>5, <2>2, <2>3
  <2> QED BY <1>3, <1>4, <1>5, <2>4, <2>5 DEF CountOK, EndOK
<1> QED BY <1>1, <1>2, <1>4, <1>5, <1>6, <1>7 DEF CallOK, Over

\* A COMMIT whose answer is lost may or may not have taken effect.
LEMMA LostCommitOK ==
    ASSUME NEW c, CallOK(c), c.pc = "commit", c.pending = {},
           NEW effect \in {FALSE, c.staged # {} /\ ~c.aborted}, NEW e \in {"lost", "cut"}
    PROVE  LET r == Raised(AfterCommit(c, effect), e)
           IN  CallOK(r) /\ r.base = c.base /\ r.saw = {} /\ r.staged = {}
<1>1. PICK n : n = AfterCommit(c, effect)
  OBVIOUS
<1>2. /\ c \in Call /\ c.applied \in Nat /\ c.asked \in 0..MaxCommits
      /\ c.result = "ok"
  BY DEF CallOK, Call, AttemptOK
<1>3. effect \in BOOLEAN /\ (effect => c.staged # {})
  OBVIOUS
<1>4. /\ Over(n) /\ Progress(n) = Progress(c) /\ n.result = c.result
      /\ n.applied = IF effect THEN c.applied + 1 ELSE c.applied
  BY <1>1, <1>2, <1>3, AfterCommitOver
<1>5. /\ n.kind = c.kind /\ n.handling = c.handling /\ n.base = c.base
      /\ n.asked = c.asked
  BY <1>4 DEF Progress
<1>6. ~n.handling => n.applied <= n.asked
  BY <1>2, <1>3, <1>4, <1>5 DEF CallOK, CountOK
<1>7. e \in Errors
  BY DEF Errors
<1>8. CallOK(Raised(n, e)) /\ Raised(n, e).base = n.base
      /\ Raised(n, e).saw = {} /\ Raised(n, e).staged = {}
  BY <1>2, <1>4, <1>6, <1>7, RaisedOK
<1> QED BY <1>1, <1>5, <1>8

\* A block that does not commit at its exit is closed.
LEMMA ClosedOK ==
    ASSUME NEW c, CallOK(c), c.pc = "body", c.kind \notin CommitsAtExit
    PROVE  LET r == Closed(c)
           IN  CallOK(r) /\ r.base = c.base /\ r.saw = {} /\ r.staged = {}
<1>1. PICK n : n = NoTransaction(c)
  OBVIOUS
<1>2. /\ Over(n) /\ Progress(n) = Progress(c) /\ n.applied = c.applied
  BY <1>1, NoTransactionOver DEF CallOK
<1>3. PICK r : r = [n EXCEPT !.pc = "ended"]
  OBVIOUS
<1>4. r = Closed(c) /\ n \in Call
  BY <1>1, <1>2, <1>3 DEF Closed, Over
<1>5. r \in Call /\ r.pc = "ended" /\ r.applied = n.applied /\ Progress(r) = Progress(n)
  BY <1>3, <1>4 DEF Call, Progress
<1>6. Over(r)
  BY <1>2, <1>3, <1>4, <1>5 DEF Over, Call
<1>7. /\ r.kind = c.kind /\ r.handling = c.handling /\ r.base = c.base
      /\ r.asked = c.asked
  BY <1>2, <1>5 DEF Progress
<1>8. TransactionOK(r) /\ AttemptOK(r)
  BY <1>5, <1>6 DEF TransactionOK, AttemptOK, Over
<1>9. ASSUME ~r.handling PROVE CountOK(r) /\ EndOK(r)
  BY <1>2, <1>5, <1>6, <1>7, <1>9 DEF CallOK, CountOK, EndOK, Over
<1> QED BY <1>4, <1>5, <1>6, <1>7, <1>8, <1>9 DEF CallOK, Over

\* session.rollback within the block.
LEMMA RolledBackOK ==
    ASSUME NEW c, CallOK(c), c.pc = "body"
    PROVE  LET r == NoTransaction(c)
           IN  CallOK(r) /\ r.base = c.base /\ r.saw = {} /\ r.staged = {}
<1>1. PICK r : r = NoTransaction(c)
  OBVIOUS
<1>2. /\ Over(r) /\ Progress(r) = Progress(c) /\ r.applied = c.applied
      /\ r.pc = "body" /\ r.result = c.result
  BY <1>1, NoTransactionOver DEF CallOK
<1>3. /\ r.kind = c.kind /\ r.handling = c.handling /\ r.base = c.base
      /\ r.asked = c.asked /\ r.attempt = c.attempt
  BY <1>2 DEF Progress
<1>4. TransactionOK(r) /\ AttemptOK(r)
  BY <1>2, <1>3 DEF CallOK, TransactionOK, AttemptOK, Over
<1>5. ASSUME ~r.handling PROVE CountOK(r) /\ EndOK(r)
  BY <1>2, <1>3, <1>5 DEF CallOK, CountOK, EndOK
<1> QED BY <1>1, <1>2, <1>3, <1>4, <1>5 DEF CallOK, Over

-----------------------------------------------------------------------------
(* The steps of a task.                                                     *)

\* A step of one task that leaves the connections and the database alone.
LEMMA TaskFrame ==
    ASSUME SessionsOK, NEW t \in Tasks, NEW c, NEW s,
           CallOK(c), ContextOK(c, s), Isolated(c),
           call' = [call EXCEPT ![t] = c], ctx' = [ctx EXCEPT ![t] = s],
           guc' = guc, rls' = rls, settings' = settings
    PROVE  SessionsOK'
<1>1. /\ ctx \in [Tasks -> Seq(Tenants \cup {None})] /\ call \in [Tasks -> Call]
      /\ guc = [x \in Conns |-> None] /\ rls \in RLS /\ settings \in Settings
      /\ \A u \in Tasks :
            CallOK(call[u]) /\ ContextOK(call[u], ctx[u]) /\ Isolated(call[u])
  BY DEF SessionsOK
<1>2. c \in Call /\ s \in Seq(Tenants \cup {None})
  BY DEF CallOK, ContextOK
<1>3. call' \in [Tasks -> Call] /\ ctx' \in [Tasks -> Seq(Tenants \cup {None})]
  BY <1>1, <1>2
<1>4. Guarded' = Guarded
  BY DEF Guarded, Healthy
<1>5. ASSUME NEW u \in Tasks
      PROVE  CallOK(call'[u]) /\ ContextOK(call'[u], ctx'[u]) /\ Isolated(call'[u])
  <2>1. CASE u = t
    <3>1. call'[u] = c /\ ctx'[u] = s
      BY <1>1, <2>1
    <3> QED BY <3>1
  <2>2. CASE u # t
    <3>1. call'[u] = call[u] /\ ctx'[u] = ctx[u]
      BY <1>1, <2>2
    <3> QED BY <1>1, <3>1
  <2> QED BY <2>1, <2>2
<1>6. \A u \in Tasks : Isolated(call[u])'
  BY <1>4, <1>5 DEF Isolated
<1>7. \A u \in Tasks : CallOK(call[u])' /\ ContextOK(call[u], ctx[u])'
  BY <1>5 DEF CallOK, TransactionOK, AttemptOK, CountOK, EndOK, ContextOK
<1> QED BY <1>1, <1>3, <1>6, <1>7 DEF SessionsOK

\* A step within a block, which leaves the contexts alone too.
LEMMA BlockFrame ==
    ASSUME SessionsOK, NEW t \in Tasks, NEW c, CallOK(c), Isolated(c),
           c.base = call[t].base, call[t].pc # "ended",
           call' = [call EXCEPT ![t] = c], UNCHANGED <<ctx, guc, rls, settings>>
    PROVE  SessionsOK'
<1>1. /\ ctx \in [Tasks -> Seq(Tenants \cup {None})] /\ ContextOK(call[t], ctx[t])
  BY DEF SessionsOK
<1>2. PICK s : s = ctx[t]
  OBVIOUS
<1>3. ctx' = [ctx EXCEPT ![t] = s]
  BY <1>1, <1>2
<1>4. ContextOK(c, s)
  BY <1>1, <1>2 DEF ContextOK
<1> QED BY <1>3, <1>4, TaskFrame

\* A block that has read and written nothing is isolated.
LEMMA NothingIsolated ==
    ASSUME NEW c, c.saw = {}, c.staged = {}
    PROVE  Isolated(c)
BY DEF Isolated

\* What is known of a task.
LEMMA TaskKnown ==
    ASSUME SessionsOK, NEW t \in Tasks
    PROVE  /\ CallOK(call[t]) /\ call[t] \in Call /\ Isolated(call[t])
           /\ call \in [Tasks -> Call]
           /\ ctx[t] \in Seq(Tenants \cup {None}) /\ Len(ctx[t]) <= MaxDepth
           /\ ContextOK(call[t], ctx[t])
           /\ TenantId(t) \in Tenants \cup {None}
<1>1. /\ CallOK(call[t]) /\ call[t] \in Call /\ Isolated(call[t])
      /\ call \in [Tasks -> Call]
      /\ ctx[t] \in Seq(Tenants \cup {None}) /\ Len(ctx[t]) <= MaxDepth
      /\ ContextOK(call[t], ctx[t])
  BY DEF SessionsOK, CallOK, ContextOK
<1>2. TenantId(t) \in Tenants \cup {None}
  <2>1. CASE ctx[t] = <<>>
    BY <2>1 DEF TenantId
  <2>2. CASE ctx[t] # <<>>
    <3>1. Len(ctx[t]) \in 1..Len(ctx[t])
      BY <1>1, <2>2
    <3> QED BY <1>1, <2>2, <3>1 DEF TenantId
  <2> QED BY <2>1, <2>2
<1> QED BY <1>1, <1>2

\* The setting of a transaction ends with it.
LEMMA ReleasedSame ==
    ASSUME SessionsOK, NEW t \in Tasks
    PROVE  Released(t) = guc
<1>1. guc = [x \in Conns |-> None]
  BY DEF SessionsOK
<1> QED BY <1>1 DEF Released, LeftBehind

\* Contexts opened within the block are left when an exception leaves it.
LEMMA Unwound ==
    ASSUME NEW s \in Seq(Tenants \cup {None}), NEW n \in Nat, n <= Len(s)
    PROVE  SubSeq(s, 1, n) \in Seq(Tenants \cup {None}) /\ Len(SubSeq(s, 1, n)) = n
OBVIOUS

\* An exception leaves the block.
LEMMA RaiseStep ==
    ASSUME SessionsOK, NEW t \in Tasks, NEW c, call[t].pc # "ended",
           c.base = call[t].base, CallOK(c), c.saw = {}, c.staged = {}, call' = [call EXCEPT ![t] = c],
           ctx' = [ctx EXCEPT ![t] = SubSeq(@, 1, call[t].base)],
           guc' = Released(t), UNCHANGED <<rls, settings>>
    PROVE  SessionsOK'
<1>1. /\ ctx \in [Tasks -> Seq(Tenants \cup {None})]
      /\ ctx[t] \in Seq(Tenants \cup {None}) /\ Len(ctx[t]) <= MaxDepth
      /\ call[t].base <= Len(ctx[t])
  BY DEF SessionsOK, ContextOK
<1>2. call[t].base \in Nat /\ Len(ctx[t]) \in Nat /\ MaxDepth \in Nat
  BY <1>1, TaskKnown, SessionAssumption DEF Call
<1>3. PICK s : s = SubSeq(ctx[t], 1, call[t].base)
  OBVIOUS
<1>4. s \in Seq(Tenants \cup {None}) /\ Len(s) = call[t].base
  BY <1>1, <1>2, <1>3, Unwound
<1>5. Len(s) <= MaxDepth /\ c.base <= Len(s)
  BY <1>1, <1>2, <1>4
<1>6. ContextOK(c, s)
  BY <1>4, <1>5 DEF ContextOK
<1>7. Isolated(c)
  BY NothingIsolated
<1>8. ctx' = [ctx EXCEPT ![t] = s] /\ guc' = guc
  BY <1>1, <1>3, ReleasedSame
<1> QED BY <1>6, <1>7, <1>8, TaskFrame

LEMMA RaiseKeeps ==
    ASSUME SessionsOK, NEW t \in Tasks, NEW e \in Errors, Raise(t, e),
           call[t].pc # "ended"
    PROVE  SessionsOK'
<1>1. CallOK(call[t]) /\ call \in [Tasks -> Call]
  BY TaskKnown
<1>2. PICK c : c = call[t]
  OBVIOUS
<1>3. PICK r : r = Raised(NoTransaction(c), e)
  OBVIOUS
<1>4. CallOK(r) /\ r.base = c.base /\ r.saw = {} /\ r.staged = {}
  BY <1>1, <1>2, <1>3, RaisesOK
<1>5. call' = [call EXCEPT ![t] = r]
  BY <1>1, <1>2, <1>3 DEF Raise
<1>6. /\ ctx' = [ctx EXCEPT ![t] = SubSeq(@, 1, call[t].base)]
      /\ guc' = Released(t) /\ UNCHANGED <<rls, settings>>
  BY DEF Raise
<1>7. call[t].pc # "ended"
  OBVIOUS
<1> QED BY <1>2, <1>4, <1>5, <1>6, <1>7, RaiseStep

\* Statements of a transaction see and insert rows of its tenant only, where the
\* deployment is guarded: FORCE binds every role the report lets pass, and without
\* FORCE only owners and their members are free.
LEMMA PolicyHolds ==
    ASSUME Guarded, NEW n
    PROVE  Visible(n) \subseteq {n} \cap Tenants /\ Insertable(n) \subseteq {n} \cap Tenants
<1>1. PolicyApplies
  BY DEF Guarded, Healthy, PolicyApplies
<1> QED BY <1>1 DEF Visible, Insertable

LEMMA VisibleTenants ==
    ASSUME NEW n
    PROVE  Visible(n) \subseteq Tenants /\ Insertable(n) \subseteq Tenants \cup {None}
BY DEF Visible, Insertable

\* Enter.
LEMMA EnterKeeps ==
    ASSUME SessionsOK, NEW t \in Tasks, NEW kind \in Kinds, Enter(t, kind)
    PROVE  SessionsOK'
<1>1. PICK h \in BOOLEAN :
         call' = [call EXCEPT ![t] = NewCall(kind, h, "body", Len(ctx[t]))]
  BY DEF Enter
<1>2. /\ ctx \in [Tasks -> Seq(Tenants \cup {None})]
      /\ ctx[t] \in Seq(Tenants \cup {None}) /\ Len(ctx[t]) <= MaxDepth
  BY DEF SessionsOK, ContextOK
<1>3. PICK s : s = ctx[t]
  OBVIOUS
<1>4. Len(s) \in 0..MaxDepth
  BY <1>2, <1>3, SessionAssumption
<1>5. PICK c : c = NewCall(kind, h, "body", Len(s))
  OBVIOUS
<1>6. CallOK(c) /\ c.base = Len(s) /\ c.saw = {} /\ c.staged = {}
  BY <1>4, <1>5, NewCallOK
<1>7. ContextOK(c, s)
  BY <1>2, <1>3, <1>4, <1>6 DEF ContextOK
<1>8. Isolated(c)
  BY <1>6, NothingIsolated
<1>9. /\ call' = [call EXCEPT ![t] = c] /\ ctx' = [ctx EXCEPT ![t] = s]
      /\ guc' = guc /\ rls' = rls /\ settings' = settings
  BY <1>1, <1>2, <1>3, <1>5 DEF Enter
<1> QED BY <1>6, <1>7, <1>8, <1>9, TaskFrame

\* EnterContext and LeaveContext.
LEMMA ContextKeeps ==
    ASSUME SessionsOK, NEW t \in Tasks, NEW s \in Seq(Tenants \cup {None}),
           Len(s) <= MaxDepth, call[t].pc # "ended" => call[t].base <= Len(s),
           ctx' = [ctx EXCEPT ![t] = s], UNCHANGED <<call, guc, rls, settings>>
    PROVE  SessionsOK'
<1>1. PICK c : c = call[t]
  OBVIOUS
<1>2. CallOK(c) /\ Isolated(c) /\ call \in [Tasks -> Call]
  BY <1>1, TaskKnown
<1>3. ContextOK(c, s)
  BY <1>1 DEF ContextOK
<1>4. call' = [call EXCEPT ![t] = c]
  BY <1>1, <1>2
<1> QED BY <1>2, <1>3, <1>4, TaskFrame

LEMMA EnterContextKeeps ==
    ASSUME SessionsOK, NEW t \in Tasks, NEW n \in Tenants \cup {None}, EnterContext(t, n)
    PROVE  SessionsOK'
<1>1. /\ ctx \in [Tasks -> Seq(Tenants \cup {None})]
      /\ ctx[t] \in Seq(Tenants \cup {None}) /\ Len(ctx[t]) < MaxDepth
      /\ call[t].pc # "ended" => call[t].base <= Len(ctx[t])
      /\ call[t].base \in Nat /\ MaxDepth \in Nat
  <2>1. MaxDepth \in Nat
    BY SessionAssumption
  <2>2. call[t] \in Call /\ ContextOK(call[t], ctx[t])
    BY TaskKnown
  <2>3. call[t].base \in Nat
    BY <2>1, <2>2 DEF Call
  <2>4. ctx \in [Tasks -> Seq(Tenants \cup {None})]
    BY DEF SessionsOK
  <2> QED BY <2>1, <2>2, <2>3, <2>4 DEF ContextOK, EnterContext
<1>2. PICK s : s = Append(ctx[t], n)
  OBVIOUS
<1>3. s \in Seq(Tenants \cup {None}) /\ Len(s) = Len(ctx[t]) + 1 /\ Len(ctx[t]) \in Nat
  BY <1>1, <1>2
<1>4. Len(s) <= MaxDepth /\ (call[t].pc # "ended" => call[t].base <= Len(s))
  BY <1>1, <1>3
<1>5. ctx' = [ctx EXCEPT ![t] = s] /\ UNCHANGED <<call, guc, rls, settings>>
  BY <1>1, <1>2 DEF EnterContext
<1> QED BY <1>3, <1>4, <1>5, ContextKeeps

LEMMA LeaveContextKeeps ==
    ASSUME SessionsOK, NEW t \in Tasks, LeaveContext(t)
    PROVE  SessionsOK'
<1>1. /\ ctx \in [Tasks -> Seq(Tenants \cup {None})]
      /\ ctx[t] \in Seq(Tenants \cup {None}) /\ Len(ctx[t]) <= MaxDepth
      /\ call[t].base \in Nat /\ MaxDepth \in Nat
  <2>1. MaxDepth \in Nat
    BY SessionAssumption
  <2>2. call[t] \in Call /\ ContextOK(call[t], ctx[t])
    BY TaskKnown
  <2>3. call[t].base \in Nat
    BY <2>1, <2>2 DEF Call
  <2>4. ctx \in [Tasks -> Seq(Tenants \cup {None})]
    BY DEF SessionsOK
  <2> QED BY <2>1, <2>2, <2>3, <2>4 DEF ContextOK
<1>2. /\ ctx[t] # <<>>
      /\ call[t].pc # "ended" => call[t].base < Len(ctx[t])
  BY DEF LeaveContext, InBody
<1>3. Len(ctx[t]) \in Nat /\ Len(ctx[t]) # 0
  BY <1>1, <1>2
<1>4. PICK n : n = Len(ctx[t]) - 1
  OBVIOUS
<1>5. n \in Nat /\ n <= Len(ctx[t])
  BY <1>3, <1>4
<1>6. PICK s : s = SubSeq(ctx[t], 1, n)
  OBVIOUS
<1>7. s \in Seq(Tenants \cup {None}) /\ Len(s) = n
  BY <1>1, <1>5, <1>6, Unwound
<1>8. Len(s) <= MaxDepth /\ (call[t].pc # "ended" => call[t].base <= Len(s))
  BY <1>1, <1>2, <1>3, <1>4, <1>7
<1>9. ctx' = [ctx EXCEPT ![t] = s] /\ UNCHANGED <<call, guc, rls, settings>>
  BY <1>1, <1>4, <1>6 DEF LeaveContext
<1> QED BY <1>7, <1>8, <1>9, ContextKeeps

\* Retry: the next attempt asks again.
LEMMA RetryKeeps ==
    ASSUME SessionsOK, NEW t \in Tasks, Retry(t)
    PROVE  SessionsOK'
<1>1. PICK c : c = call[t]
  OBVIOUS
<1>2. CallOK(c) /\ c \in Call /\ Isolated(c) /\ call \in [Tasks -> Call]
  BY <1>1, TaskKnown
<1>3. c.pc = "backoff" /\ c.kind = "retry" /\ c.attempt \in 1..MaxAttempts
      /\ c.attempt < MaxAttempts /\ MaxAttempts \in Nat
  BY <1>1, <1>2, SessionAssumption DEF Retry, CallOK, AttemptOK, Call
<1>4. PICK a : a = c.attempt + 1
  OBVIOUS
<1>5. a \in 1..MaxAttempts
  BY <1>3, <1>4
<1>6. PICK r : r = [c EXCEPT !.pc = "body", !.attempt = a, !.swallowed = FALSE, !.asked = 0]
  OBVIOUS
<1>7. call' = [call EXCEPT ![t] = r] /\ UNCHANGED <<ctx, guc, rls, settings>>
  BY <1>1, <1>2, <1>4, <1>6 DEF Retry, Call
<1>8. r \in Call
  <2>1. 0 \in 0..MaxCommits
    BY SessionAssumption
  <2> QED BY <1>2, <1>5, <1>6, <2>1 DEF Call
<1>9. /\ r.pc = "body" /\ r.asked = 0 /\ r.base = c.base /\ r.kind = c.kind
      /\ r.handling = c.handling /\ r.conn = c.conn /\ r.attempt = a
      /\ r.tenant = c.tenant /\ r.setting = c.setting
      /\ r.staged = c.staged /\ r.saw = c.saw /\ r.aborted = c.aborted
      /\ r.applied = c.applied /\ r.result = c.result
  BY <1>2, <1>6 DEF Call
<1>10. c.conn = None /\ c.staged = {} /\ c.saw = {} /\ c.aborted = FALSE
  BY <1>2, <1>3 DEF CallOK, TransactionOK, Call
<1>11. TransactionOK(r) /\ AttemptOK(r)
  BY <1>2, <1>3, <1>9, <1>10 DEF CallOK, TransactionOK, AttemptOK
<1>12. ASSUME ~r.handling PROVE CountOK(r) /\ EndOK(r)
  BY <1>2, <1>3, <1>9, <1>12 DEF CallOK, CountOK, EndOK, CommitsAtExit
<1>13. CallOK(r)
  BY <1>8, <1>11, <1>12 DEF CallOK
<1>14. Isolated(r)
  BY <1>9, <1>10, NothingIsolated
<1> QED BY <1>1, <1>3, <1>7, <1>9, <1>13, <1>14, BlockFrame

\* CancelRetry: the last attempt has applied nothing, unless lost commits are retried.
LEMMA CancelRetryKeeps ==
    ASSUME SessionsOK, NEW t \in Tasks, CancelRetry(t)
    PROVE  SessionsOK'
<1>1. call[t].pc = "backoff" /\ Raise(t, "cut") /\ "cut" \in Errors
  BY DEF CancelRetry, Errors
<1> QED BY <1>1, RaiseKeeps

\* Begin: the hook leaves the tenant it has set, or the one of the connection,
\* which is none.
LEMMA BeginKeeps ==
    ASSUME SessionsOK, NEW t \in Tasks, NEW conn \in Conns, Begin(t, conn)
    PROVE  SessionsOK'
<1>1. PICK c : c = call[t]
  OBVIOUS
<1>2. /\ CallOK(c) /\ c \in Call /\ Isolated(c) /\ call \in [Tasks -> Call]
      /\ TenantId(t) \in Tenants \cup {None}
  BY <1>1, TaskKnown
<1>3. guc[conn] = None
  BY DEF SessionsOK
<1>4. PICK b \in Opened(c.kind, TenantId(t), guc[conn]) :
         \/ b.refused /\ Raise(t, "app")
         \/ /\ b.refused => c.pc = "body"
            /\ call' = [call EXCEPT ![t].conn = conn, ![t].readOnly = b.readOnly,
                                    ![t].tenant = b.tenant, ![t].setting = b.setting,
                                    ![t].swallowed = @ \/ b.refused]
            /\ UNCHANGED <<ctx, guc, rls, settings>>
  BY <1>1 DEF Begin, InBody
<1>5. /\ b.setting = b.tenant /\ b.tenant \in Tenants \cup {None}
      /\ b.readOnly \in BOOLEAN /\ b.refused \in BOOLEAN
  <2>1. CASE c.kind = "snapshot"
    <3>1. PICK readOnly \in BOOLEAN : b = SnapshotBegin(readOnly, None)
      BY <1>3, <2>1 DEF Opened
    <3> QED BY <3>1 DEF SnapshotBegin
  <2>2. CASE c.kind # "snapshot"
    <3>1. settings.rls \in BOOLEAN /\ settings.required \in BOOLEAN
      BY DEF SessionsOK, Settings
    <3>2. b = AfterBegin(c.kind, TenantId(t), None)
      BY <1>3, <2>2 DEF Opened
    <3> QED BY <1>2, <3>1, <3>2 DEF AfterBegin, ReadOnlyMode
  <2> QED BY <2>1, <2>2
<1>6. /\ c.pc \in {"body", "commit"} /\ c.conn = None
      /\ \/ b.refused /\ Raise(t, "app")
         \/ /\ b.refused => c.pc = "body"
            /\ call' = [call EXCEPT ![t].conn = conn, ![t].readOnly = b.readOnly,
                                    ![t].tenant = b.tenant, ![t].setting = b.setting,
                                    ![t].swallowed = @ \/ b.refused]
            /\ UNCHANGED <<ctx, guc, rls, settings>>
  BY <1>1, <1>4 DEF Begin, InBody
<1>7. CASE Raise(t, "app")
  BY <1>1, <1>6, <1>7, RaiseKeeps DEF Errors
<1>8. CASE /\ call' = [call EXCEPT ![t].conn = conn, ![t].readOnly = b.readOnly,
                                   ![t].tenant = b.tenant, ![t].setting = b.setting,
                                   ![t].swallowed = @ \/ b.refused]
           /\ UNCHANGED <<ctx, guc, rls, settings>>
  <2>1. PICK w \in BOOLEAN : w = (c.swallowed \/ b.refused)
    OBVIOUS
  <2>2. PICK r : r = [c EXCEPT !.conn = conn, !.readOnly = b.readOnly,
                               !.tenant = b.tenant, !.setting = b.setting,
                               !.swallowed = w]
    OBVIOUS
  <2>3. call' = [call EXCEPT ![t] = r]
    BY <1>1, <1>2, <1>8, <2>1, <2>2 DEF Call
  <2>4. r \in Call
    BY <1>2, <1>5, <2>2 DEF Call
  <2>5. /\ r.pc = c.pc /\ r.asked = c.asked /\ r.base = c.base /\ r.kind = c.kind
        /\ r.handling = c.handling /\ r.conn = conn /\ r.attempt = c.attempt
        /\ r.tenant = b.tenant /\ r.setting = b.setting /\ r.pending = c.pending
        /\ r.staged = c.staged /\ r.saw = c.saw /\ r.aborted = c.aborted
        /\ r.applied = c.applied /\ r.result = c.result
    BY <1>2, <2>2 DEF Call
  <2>6. c.staged = {} /\ c.saw = {} /\ ~c.aborted /\ conn # None
    BY <1>2, <1>6, SessionAssumption DEF CallOK, TransactionOK
  <2>7. TransactionOK(r)
    BY <1>5, <1>6, <2>5, <2>6 DEF TransactionOK
  <2>8. AttemptOK(r)
    BY <1>2, <2>5 DEF CallOK, AttemptOK
  <2>9. ASSUME ~r.handling PROVE CountOK(r) /\ EndOK(r)
    BY <1>2, <1>6, <2>5, <2>9 DEF CallOK, CountOK, EndOK
  <2>10. CallOK(r)
    BY <2>4, <2>7, <2>8, <2>9 DEF CallOK
  <2>11. Isolated(r)
    BY <2>5, <2>6, NothingIsolated
  <2> QED BY <1>1, <1>6, <1>8, <2>3, <2>5, <2>10, <2>11, BlockFrame
<1> QED BY <1>6, <1>7, <1>8

LEMMA PoolTimeoutKeeps ==
    ASSUME SessionsOK, NEW t \in Tasks, PoolTimeout(t)
    PROVE  SessionsOK'
<1>1. call[t].pc \in {"body", "commit"} /\ \E e \in Errors : Raise(t, e)
  BY DEF PoolTimeout, InBody, Errors
<1> QED BY <1>1, RaiseKeeps

LEMMA BodyRaisesKeeps ==
    ASSUME SessionsOK, NEW t \in Tasks, BodyRaises(t)
    PROVE  SessionsOK'
<1>1. call[t].pc \in {"body", "commit"} /\ \E e \in Errors : Raise(t, e)
  BY DEF BodyRaises, InBody, Errors
<1> QED BY <1>1, RaiseKeeps

\* The caller catches the error of a statement and goes on.
LEMMA SwallowKeeps ==
    ASSUME SessionsOK, NEW t \in Tasks, call[t].pc = "body", call[t].conn # None,
           NEW aborted \in BOOLEAN,
           call' = [call EXCEPT ![t].aborted = aborted, ![t].swallowed = TRUE],
           UNCHANGED <<ctx, guc, rls, settings>>
    PROVE  SessionsOK'
<1>1. PICK c : c = call[t]
  OBVIOUS
<1>2. CallOK(c) /\ c \in Call /\ Isolated(c) /\ call \in [Tasks -> Call]
  BY <1>1, TaskKnown
<1>3. PICK r : r = [c EXCEPT !.aborted = aborted, !.swallowed = TRUE]
  OBVIOUS
<1>4. call' = [call EXCEPT ![t] = r]
  BY <1>1, <1>2, <1>3 DEF Call
<1>5. r \in Call
  BY <1>2, <1>3 DEF Call
<1>6. /\ r.pc = c.pc /\ r.asked = c.asked /\ r.base = c.base /\ r.kind = c.kind
      /\ r.handling = c.handling /\ r.conn = c.conn /\ r.attempt = c.attempt
      /\ r.tenant = c.tenant /\ r.setting = c.setting /\ r.pending = c.pending
      /\ r.staged = c.staged /\ r.saw = c.saw /\ r.swallowed = TRUE
      /\ r.applied = c.applied /\ r.result = c.result
  BY <1>2, <1>3 DEF Call
<1>7. TransactionOK(r) /\ AttemptOK(r)
  BY <1>1, <1>2, <1>6 DEF CallOK, TransactionOK, AttemptOK
<1>8. ASSUME ~r.handling PROVE CountOK(r) /\ EndOK(r)
  BY <1>1, <1>2, <1>6, <1>8 DEF CallOK, CountOK, EndOK
<1>9. CallOK(r)
  BY <1>5, <1>7, <1>8 DEF CallOK
<1>10. Isolated(r)
  BY <1>2, <1>6 DEF Isolated
<1>11. r.base = call[t].base /\ call[t].pc # "ended"
  BY <1>1, <1>6
<1> QED BY <1>4, <1>9, <1>10, <1>11, BlockFrame

\* Select: the transaction sees rows of the tenant in its setting.
LEMMA SelectKeeps ==
    ASSUME SessionsOK, NEW t \in Tasks, Select(t)
    PROVE  SessionsOK'
<1>1. PICK c : c = call[t]
  OBVIOUS
<1>2. CallOK(c) /\ c \in Call /\ Isolated(c) /\ call \in [Tasks -> Call]
  BY <1>1, TaskKnown
<1>3. c.pc = "body" /\ c.conn # None
  BY <1>1 DEF Select, InBody
<1>4. ASSUME call' = [call EXCEPT ![t].saw = @ \cup Visible(call[t].setting)],
             UNCHANGED <<ctx, guc, rls, settings>>
      PROVE  SessionsOK'
  <2>1. PICK n : n = c.setting
    OBVIOUS
  <2>2. PICK v : v = Visible(n)
    OBVIOUS
  <2>3. v \subseteq Tenants /\ (Guarded => v \subseteq {n} \cap Tenants)
    BY <2>2, PolicyHolds, VisibleTenants
  <2>4. PICK r : r = [c EXCEPT !.saw = @ \cup v]
    OBVIOUS
  <2>5. call' = [call EXCEPT ![t] = r]
    BY <1>1, <1>2, <1>4, <2>1, <2>2, <2>4
  <2>6. r \in Call
    BY <1>2, <2>3, <2>4 DEF Call
  <2>7. /\ r.pc = c.pc /\ r.asked = c.asked /\ r.base = c.base /\ r.kind = c.kind
        /\ r.handling = c.handling /\ r.conn = c.conn /\ r.attempt = c.attempt
        /\ r.tenant = c.tenant /\ r.setting = c.setting /\ r.pending = c.pending
        /\ r.staged = c.staged /\ r.saw = c.saw \cup v /\ r.swallowed = c.swallowed
        /\ r.aborted = c.aborted /\ r.applied = c.applied /\ r.result = c.result
    BY <1>2, <2>4 DEF Call
  <2>8. TransactionOK(r) /\ AttemptOK(r)
    BY <1>2, <1>3, <2>7 DEF CallOK, TransactionOK, AttemptOK
  <2>9. ASSUME ~r.handling PROVE CountOK(r) /\ EndOK(r)
    BY <1>2, <1>3, <2>7, <2>9 DEF CallOK, CountOK, EndOK
  <2>10. CallOK(r)
    BY <2>6, <2>8, <2>9 DEF CallOK
  <2>11. n = c.tenant
    BY <1>2, <2>1 DEF CallOK, TransactionOK
  <2>12. Isolated(r)
    BY <1>2, <2>3, <2>7, <2>11, SessionAssumption DEF Isolated
  <2>13. r.base = call[t].base /\ call[t].pc # "ended"
    BY <1>1, <1>3, <2>7
  <2> QED BY <1>4, <2>5, <2>10, <2>12, <2>13, BlockFrame
<1>5. ASSUME NEW e \in StatementErrors, Fail(t, e) PROVE SessionsOK'
  <2>1. CASE Raise(t, e)
    <3>1. e \in Errors /\ call[t].pc \in {"body", "commit"}
      BY <1>1, <1>3 DEF StatementErrors
    <3> QED BY <2>1, <3>1, RaiseKeeps
  <2>2. CASE ~Raise(t, e)
    <3>1. call[t].aborted \in BOOLEAN
      BY TaskKnown DEF Call
    <3>2. PICK aborted \in BOOLEAN :
             /\ call' = [call EXCEPT ![t].aborted = aborted, ![t].swallowed = TRUE]
             /\ UNCHANGED <<ctx, guc, rls, settings>>
      BY <1>5, <2>2, <3>1 DEF Fail
    <3> QED BY <1>1, <1>3, <3>2, SwallowKeeps
  <2> QED BY <2>1, <2>2
<1> QED BY <1>4, <1>5 DEF Select

\* Execute: the policy checks the row that is inserted.
LEMMA ExecuteKeeps ==
    ASSUME SessionsOK, NEW t \in Tasks, Execute(t)
    PROVE  SessionsOK'
<1>1. PICK c : c = call[t]
  OBVIOUS
<1>2. PICK n : n = c.setting
  OBVIOUS
<1>3. PICK m \in Tenants \cup {None} : m = TenantId(t)
  BY TaskKnown
<1>4. CallOK(c) /\ c \in Call /\ Isolated(c) /\ call \in [Tasks -> Call]
  BY <1>1, TaskKnown
<1>5. /\ c.pc = "body" /\ c.kind = "snapshot" /\ c.conn # None /\ m \in Insertable(n)
      /\ call' = [call EXCEPT ![t].staged = @ \cup {m}]
      /\ UNCHANGED <<ctx, guc, rls, settings>>
  BY <1>1, <1>2, <1>3 DEF Execute, InBody
<1>6. PICK r : r = [c EXCEPT !.staged = @ \cup {m}]
  OBVIOUS
<1>7. call' = [call EXCEPT ![t] = r]
  BY <1>1, <1>4, <1>5, <1>6
<1>8. r \in Call
  BY <1>4, <1>6 DEF Call
<1>9. /\ r.pc = c.pc /\ r.asked = c.asked /\ r.base = c.base /\ r.kind = c.kind
      /\ r.handling = c.handling /\ r.conn = c.conn /\ r.attempt = c.attempt
      /\ r.tenant = c.tenant /\ r.setting = c.setting
      /\ r.staged = c.staged \cup {m} /\ r.saw = c.saw /\ r.swallowed = c.swallowed
      /\ r.aborted = c.aborted /\ r.applied = c.applied /\ r.result = c.result
  BY <1>4, <1>6 DEF Call
<1>10. TransactionOK(r) /\ AttemptOK(r)
  BY <1>4, <1>5, <1>9 DEF CallOK, TransactionOK, AttemptOK
<1>11. ASSUME ~r.handling PROVE CountOK(r) /\ EndOK(r)
  BY <1>4, <1>5, <1>9, <1>11 DEF CallOK, CountOK, EndOK
<1>12. CallOK(r)
  BY <1>8, <1>10, <1>11 DEF CallOK
<1>13. n = c.tenant
  BY <1>2, <1>4 DEF CallOK, TransactionOK
<1>14. Guarded => m \in {n} \cap Tenants
  BY <1>5, PolicyHolds
<1>15. Isolated(r)
  BY <1>4, <1>9, <1>13, <1>14, SessionAssumption DEF Isolated
<1>16. r.base = call[t].base /\ call[t].pc # "ended"
  BY <1>1, <1>5, <1>9
<1> QED BY <1>5, <1>7, <1>12, <1>15, <1>16, BlockFrame

\* Add: a row that is not inserted yet.
LEMMA AddKeeps ==
    ASSUME SessionsOK, NEW t \in Tasks, Add(t)
    PROVE  SessionsOK'
<1>1. PICK c : c = call[t]
  OBVIOUS
<1>2. PICK n \in Tenants \cup {None} : n = TenantId(t)
  BY TaskKnown
<1>3. CallOK(c) /\ c \in Call /\ Isolated(c) /\ call \in [Tasks -> Call]
  BY <1>1, TaskKnown
<1>4. /\ c.pc = "body" /\ call' = [call EXCEPT ![t].pending = @ \cup {n}]
      /\ UNCHANGED <<ctx, guc, rls, settings>>
  BY <1>1, <1>2 DEF Add, InBody
<1>5. PICK r : r = [c EXCEPT !.pending = @ \cup {n}]
  OBVIOUS
<1>6. call' = [call EXCEPT ![t] = r]
  BY <1>1, <1>3, <1>4, <1>5
<1>7. r \in Call
  BY <1>3, <1>5 DEF Call
<1>8. /\ r.pc = c.pc /\ r.asked = c.asked /\ r.base = c.base /\ r.kind = c.kind
      /\ r.handling = c.handling /\ r.conn = c.conn /\ r.attempt = c.attempt
      /\ r.tenant = c.tenant /\ r.setting = c.setting
      /\ r.staged = c.staged /\ r.saw = c.saw /\ r.swallowed = c.swallowed
      /\ r.aborted = c.aborted /\ r.applied = c.applied /\ r.result = c.result
  BY <1>3, <1>5 DEF Call
<1>9. TransactionOK(r) /\ AttemptOK(r)
  BY <1>3, <1>8 DEF CallOK, TransactionOK, AttemptOK
<1>10. ASSUME ~r.handling PROVE CountOK(r) /\ EndOK(r)
  BY <1>3, <1>4, <1>8, <1>10 DEF CallOK, CountOK, EndOK
<1>11. CallOK(r)
  BY <1>7, <1>9, <1>10 DEF CallOK
<1>12. Isolated(r)
  BY <1>3, <1>8 DEF Isolated
<1>13. r.base = call[t].base /\ call[t].pc # "ended"
  BY <1>1, <1>4, <1>8
<1> QED BY <1>4, <1>6, <1>11, <1>12, <1>13, BlockFrame

\* Flush: the policy checks the rows that are inserted.
LEMMA FlushKeeps ==
    ASSUME SessionsOK, NEW t \in Tasks, Flush(t)
    PROVE  SessionsOK'
<1>1. PICK c : c = call[t]
  OBVIOUS
<1>2. CallOK(c) /\ c \in Call /\ Isolated(c) /\ call \in [Tasks -> Call]
  BY <1>1, TaskKnown
<1>3. c.pc \in {"body", "commit"} /\ c.conn # None
  BY <1>1 DEF Flush
<1>4. ASSUME c.pending \subseteq Insertable(c.setting),
             call' = [call EXCEPT ![t].staged = @ \cup c.pending, ![t].pending = {}],
             UNCHANGED <<ctx, guc, rls, settings>>
      PROVE  SessionsOK'
  <2>1. PICK n : n = c.setting
    OBVIOUS
  <2>2. /\ c.pending \subseteq Tenants \cup {None}
        /\ Guarded => c.pending \subseteq {n} \cap Tenants
    BY <1>4, <2>1, PolicyHolds, VisibleTenants
  <2>3. PICK r : r = [c EXCEPT !.staged = @ \cup c.pending, !.pending = {}]
    OBVIOUS
  <2>4. call' = [call EXCEPT ![t] = r]
    BY <1>1, <1>2, <1>4, <2>3 DEF Call
  <2>5. r \in Call
    BY <1>2, <2>2, <2>3 DEF Call
  <2>6. /\ r.pc = c.pc /\ r.asked = c.asked /\ r.base = c.base /\ r.kind = c.kind
        /\ r.handling = c.handling /\ r.conn = c.conn /\ r.attempt = c.attempt
        /\ r.tenant = c.tenant /\ r.setting = c.setting /\ r.pending = {}
        /\ r.staged = c.staged \cup c.pending /\ r.saw = c.saw
        /\ r.swallowed = c.swallowed /\ r.aborted = c.aborted
        /\ r.applied = c.applied /\ r.result = c.result
    BY <1>2, <2>3 DEF Call
  <2>7. TransactionOK(r) /\ AttemptOK(r)
    BY <1>2, <1>3, <2>6 DEF CallOK, TransactionOK, AttemptOK
  <2>8. r.pending \cup r.staged = c.pending \cup c.staged
    BY <2>6
  <2>9. ASSUME ~r.handling PROVE CountOK(r) /\ EndOK(r)
    BY <1>2, <1>3, <2>6, <2>8, <2>9 DEF CallOK, CountOK, EndOK
  <2>10. CallOK(r)
    BY <2>5, <2>7, <2>9 DEF CallOK
  <2>11. n = c.tenant
    BY <1>2, <2>1 DEF CallOK, TransactionOK
  <2>12. Isolated(r)
    BY <1>2, <2>2, <2>6, <2>11, SessionAssumption DEF Isolated
  <2>13. r.base = call[t].base /\ call[t].pc # "ended"
    BY <1>1, <1>3, <2>6
  <2> QED BY <1>4, <2>4, <2>10, <2>12, <2>13, BlockFrame
<1>5. ASSUME NEW e \in StatementErrors, Raise(t, e) PROVE SessionsOK'
  <2>1. e \in Errors /\ call[t].pc \in {"body", "commit"}
    BY <1>1, <1>3 DEF StatementErrors
  <2> QED BY <1>5, <2>1, RaiseKeeps
<1> QED BY <1>1, <1>4, <1>5 DEF Flush

\* The commit of a block begins: called by the body, or at its end.
LEMMA CommittingKeeps ==
    ASSUME SessionsOK, NEW t \in Tasks, call[t].pc = "body",
           call[t].asked < MaxCommits \/ call[t].kind \in CommitsAtExit,
           call' = [call EXCEPT ![t] = Committing(@)],
           UNCHANGED <<ctx, guc, rls, settings>>
    PROVE  SessionsOK'
<1>1. PICK c : c = call[t]
  OBVIOUS
<1>2. CallOK(c) /\ Isolated(c) /\ call \in [Tasks -> Call]
  BY <1>1, TaskKnown
<1>3. PICK r : r = Committing(c)
  OBVIOUS
<1>4. /\ CallOK(r) /\ r.base = c.base
      /\ r.saw = c.saw /\ r.staged = c.staged /\ r.tenant = c.tenant
  BY <1>1, <1>2, <1>3, CommittingOK
<1>5. Isolated(r)
  BY <1>2, <1>4 DEF Isolated
<1>6. call' = [call EXCEPT ![t] = r]
  BY <1>1, <1>2, <1>3
<1>7. r.base = call[t].base /\ call[t].pc # "ended"
  BY <1>1, <1>4
<1> QED BY <1>4, <1>5, <1>6, <1>7, BlockFrame

LEMMA CallCommitKeeps ==
    ASSUME SessionsOK, NEW t \in Tasks, CallCommit(t)
    PROVE  SessionsOK'
BY CommittingKeeps DEF CallCommit, InBody

\* The transaction of a block is over, and the block goes on or has ended.
LEMMA OverKeeps ==
    ASSUME SessionsOK, NEW t \in Tasks, call[t].pc # "ended", NEW r, CallOK(r),
           r.base = call[t].base, r.saw = {}, r.staged = {},
           call' = [call EXCEPT ![t] = r], guc' = Released(t),
           UNCHANGED <<ctx, rls, settings>>
    PROVE  SessionsOK'
<1>1. guc' = guc
  BY ReleasedSame
<1>2. Isolated(r)
  BY NothingIsolated
<1> QED BY <1>1, <1>2, BlockFrame

LEMMA CallRollbackKeeps ==
    ASSUME SessionsOK, NEW t \in Tasks, CallRollback(t)
    PROVE  SessionsOK'
<1>1. PICK c : c = call[t]
  OBVIOUS
<1>2. CallOK(c) /\ call \in [Tasks -> Call] /\ c.pc = "body"
  BY <1>1, TaskKnown DEF CallRollback, InBody
<1>3. PICK r : r = NoTransaction(c)
  OBVIOUS
<1>4. CallOK(r) /\ r.base = c.base /\ r.saw = {} /\ r.staged = {}
  BY <1>2, <1>3, RolledBackOK
<1>5. /\ call' = [call EXCEPT ![t] = r] /\ guc' = Released(t)
      /\ UNCHANGED <<ctx, rls, settings>>
  BY <1>1, <1>2, <1>3 DEF CallRollback
<1>6. r.base = call[t].base /\ call[t].pc # "ended"
  BY <1>1, <1>2, <1>4
<1> QED BY <1>4, <1>5, <1>6, OverKeeps

LEMMA LeaveKeeps ==
    ASSUME SessionsOK, NEW t \in Tasks, Leave(t)
    PROVE  SessionsOK'
<1>1. CASE call[t].kind \in CommitsAtExit
  <2>1. /\ call[t].pc = "body" /\ call' = [call EXCEPT ![t] = Committing(@)]
        /\ UNCHANGED <<ctx, guc, rls, settings>>
    BY <1>1 DEF Leave, InBody
  <2> QED BY <1>1, <2>1, CommittingKeeps
<1>2. CASE call[t].kind \notin CommitsAtExit
  <2>1. PICK c : c = call[t]
    OBVIOUS
  <2>2. CallOK(c) /\ call \in [Tasks -> Call] /\ c.pc = "body"
    BY <2>1, TaskKnown DEF Leave, InBody
  <2>3. PICK r : r = Closed(c)
    OBVIOUS
  <2>4. CallOK(r) /\ r.base = c.base /\ r.saw = {} /\ r.staged = {}
    BY <1>2, <2>1, <2>2, <2>3, ClosedOK
  <2>5. /\ call' = [call EXCEPT ![t] = r] /\ guc' = Released(t)
        /\ UNCHANGED <<ctx, rls, settings>>
    BY <1>2, <2>1, <2>2, <2>3 DEF Leave
  <2>6. r.base = call[t].base /\ call[t].pc # "ended"
    BY <2>1, <2>2, <2>4
  <2> QED BY <2>4, <2>5, <2>6, OverKeeps
<1> QED BY <1>1, <1>2

\* COMMIT: answered, refused, or without an answer.
LEMMA CommitKeeps ==
    ASSUME SessionsOK, NEW t \in Tasks, Commit(t)
    PROVE  SessionsOK'
<1>1. PICK c : c = call[t]
  OBVIOUS
<1>2. CallOK(c) /\ call \in [Tasks -> Call] /\ c.pc = "commit" /\ c.pending = {}
  BY <1>1, TaskKnown DEF Commit
<1>3. call[t].pc # "ended" /\ call[t].pc \in {"body", "commit"}
  BY <1>1, <1>2
<1>4. ASSUME call' = [call EXCEPT ![t] = AfterCommit(c, c.staged # {} /\ ~c.aborted)],
             guc' = Released(t), UNCHANGED <<ctx, rls, settings>>
      PROVE  SessionsOK'
  <2>1. PICK r : r = AfterCommit(c, c.staged # {} /\ ~c.aborted)
    OBVIOUS
  <2>2. CallOK(r) /\ r.base = c.base /\ r.saw = {} /\ r.staged = {}
    BY <1>2, <2>1, AfterCommitOK
  <2>3. call' = [call EXCEPT ![t] = r] /\ r.base = call[t].base
    BY <1>1, <1>4, <2>1, <2>2
  <2> QED BY <1>3, <1>4, <2>2, <2>3, OverKeeps
<1>5. ASSUME NEW e \in {"transient", "permanent"}, Raise(t, e) PROVE SessionsOK'
  <2>1. e \in Errors
    BY DEF Errors
  <2> QED BY <1>3, <1>5, <2>1, RaiseKeeps
<1>6. ASSUME NEW effect \in {FALSE, c.staged # {} /\ ~c.aborted}, NEW e \in {"lost", "cut"},
             call' = [call EXCEPT ![t] = Raised(AfterCommit(c, effect), e)],
             guc' = Released(t), ctx' = [ctx EXCEPT ![t] = SubSeq(@, 1, c.base)],
             UNCHANGED <<rls, settings>>
      PROVE  SessionsOK'
  <2>1. PICK r : r = Raised(AfterCommit(c, effect), e)
    OBVIOUS
  <2>2. CallOK(r) /\ r.base = c.base /\ r.saw = {} /\ r.staged = {}
    BY <1>2, <2>1, LostCommitOK
  <2>3. /\ call' = [call EXCEPT ![t] = r] /\ r.base = call[t].base
        /\ ctx' = [ctx EXCEPT ![t] = SubSeq(@, 1, call[t].base)]
    BY <1>1, <1>6, <2>1, <2>2
  <2> QED BY <1>3, <1>6, <2>2, <2>3, RaiseStep
<1> QED BY <1>1, <1>4, <1>5, <1>6 DEF Commit

-----------------------------------------------------------------------------
(* The rest of the system.                                                  *)

LEMMA DisposeKeeps ==
    ASSUME SessionsOK, Dispose
    PROVE  SessionsOK'
<1>1. guc = [c \in Conns |-> None]
  BY DEF SessionsOK
<1>2. guc' = guc /\ UNCHANGED <<ctx, call, rls, settings>>
  BY <1>1 DEF Dispose
<1> QED BY <1>2 DEF SessionsOK, CallOK, TransactionOK, AttemptOK, CountOK, EndOK,
                    ContextOK, Isolated, Guarded, Healthy

\* The policy is changed while no transaction is open, so that none has read or
\* written under another one.
LEMMA PolicyKeeps ==
    ASSUME SessionsOK, NoReaders, rls' \in RLS, UNCHANGED <<ctx, call, guc, settings>>
    PROVE  SessionsOK'
<1>1. ASSUME NEW t \in Tasks
      PROVE  CallOK(call[t])' /\ ContextOK(call[t], ctx[t])' /\ Isolated(call[t])'
  <2>1. CallOK(call[t]) /\ call[t] \in Call /\ ContextOK(call[t], ctx[t])
    BY TaskKnown
  <2>2. call[t].conn = None
    BY <2>1 DEF NoReaders, InUse, Call
  <2>3. call[t].saw = {} /\ call[t].staged = {}
    BY <2>1, <2>2 DEF CallOK, TransactionOK
  <2>4. Isolated(call[t])'
    BY <2>3 DEF Isolated
  <2> QED BY <2>1, <2>4 DEF CallOK, TransactionOK, AttemptOK, CountOK, EndOK, ContextOK
<1> QED BY <1>1 DEF SessionsOK

LEMMA EnableKeeps ==
    ASSUME SessionsOK, NEW force \in BOOLEAN, EnableTenantRls(force)
    PROVE  SessionsOK'
<1>1. rls \in RLS
  BY DEF SessionsOK
<1>2. PICK f \in BOOLEAN : f = (rls.force \/ force)
  OBVIOUS
<1>3. rls' = [rls EXCEPT !.enabled = TRUE, !.force = f, !.policy = TRUE]
  BY <1>1, <1>2 DEF EnableTenantRls, RLS
<1>4. rls' \in RLS
  BY <1>1, <1>3 DEF RLS
<1> QED BY <1>4, PolicyKeeps DEF EnableTenantRls

LEMMA DisableKeeps ==
    ASSUME SessionsOK, DisableTenantRls
    PROVE  SessionsOK'
<1>1. rls \in RLS
  BY DEF SessionsOK
<1>2. rls' \in RLS
  BY <1>1 DEF DisableTenantRls, RLS
<1> QED BY <1>2, PolicyKeeps DEF DisableTenantRls

-----------------------------------------------------------------------------
(* The theorems.                                                            *)

LEMMA InitOK == Init => SessionsOK
<1> SUFFICES ASSUME Init PROVE SessionsOK
  OBVIOUS
<1>1. PICK c : c = NewCall("session", FALSE, "ended", 0)
  OBVIOUS
<1>2. CallOK(c) /\ c.saw = {} /\ c.staged = {}
  <2>1. "session" \in Kinds /\ "ended" \in {"body", "ended"} /\ 0 \in 0..MaxDepth
    BY SessionAssumption DEF Kinds
  <2> QED BY <1>1, <2>1, NewCallOK
<1>3. c \in Call /\ c.pc = "ended"
  BY <1>1, <1>2 DEF CallOK, NewCall
<1>4. call = [t \in Tasks |-> c] /\ ctx = [t \in Tasks |-> <<>>]
  BY <1>1 DEF Init
<1>5. <<>> \in Seq(Tenants \cup {None}) /\ Len(<<>>) <= MaxDepth
  BY SessionAssumption
<1>6. ContextOK(c, <<>>)
  BY <1>3, <1>5 DEF ContextOK
<1>7. Isolated(c)
  BY <1>2, NothingIsolated
<1>8. \A t \in Tasks : call[t] = c /\ ctx[t] = <<>>
  BY <1>4
<1>9. \A t \in Tasks : CallOK(call[t]) /\ ContextOK(call[t], ctx[t]) /\ Isolated(call[t])
  BY <1>2, <1>6, <1>7, <1>8
<1>10. call \in [Tasks -> Call] /\ ctx \in [Tasks -> Seq(Tenants \cup {None})]
  BY <1>3, <1>4, <1>5
<1>11. guc = [x \in Conns |-> None] /\ rls \in RLS /\ settings \in Settings
  BY DEF Init, Settings
<1> QED BY <1>9, <1>10, <1>11 DEF SessionsOK

LEMMA NextOK == SessionsOK /\ [Next]_vars => SessionsOK'
<1> SUFFICES ASSUME SessionsOK, [Next]_vars PROVE SessionsOK'
  OBVIOUS
<1>1. CASE UNCHANGED vars
  BY <1>1 DEF vars, SessionsOK, CallOK, TransactionOK, AttemptOK, CountOK, EndOK,
              ContextOK, Isolated, Guarded, Healthy
<1>2. ASSUME NEW t \in Tasks, TaskStep(t) PROVE SessionsOK'
  <2>1. CASE \E k \in Kinds : Enter(t, k)
    BY <2>1, EnterKeeps
  <2>2. CASE \E n \in Tenants \cup {None} : EnterContext(t, n)
    BY <2>2, EnterContextKeeps
  <2>3. CASE LeaveContext(t)
    BY <2>3, LeaveContextKeeps
  <2>4. CASE Retry(t) \/ CancelRetry(t)
    BY <2>4, RetryKeeps, CancelRetryKeeps
  <2>5. CASE \E c \in Conns : Begin(t, c)
    BY <2>5, BeginKeeps
  <2>6. CASE PoolTimeout(t) \/ BodyRaises(t)
    BY <2>6, PoolTimeoutKeeps, BodyRaisesKeeps
  <2>7. CASE Select(t) \/ Execute(t)
    BY <2>7, SelectKeeps, ExecuteKeeps
  <2>8. CASE Add(t)
    BY <2>8, AddKeeps
  <2>9. CASE Flush(t)
    BY <2>9, FlushKeeps
  <2>10. CASE CallCommit(t)
    BY <2>10, CallCommitKeeps
  <2>11. CASE CallRollback(t)
    BY <2>11, CallRollbackKeeps
  <2>12. CASE Leave(t)
    BY <2>12, LeaveKeeps
  <2>13. CASE Commit(t)
    BY <2>13, CommitKeeps
  <2> QED BY <1>2, <2>1, <2>2, <2>3, <2>4, <2>5, <2>6, <2>7, <2>8, <2>9, <2>10, <2>11,
             <2>12, <2>13 DEF TaskStep
<1>3. CASE Dispose
  BY <1>3, DisposeKeeps
<1>4. CASE \E f \in BOOLEAN : EnableTenantRls(f)
  BY <1>4, EnableKeeps
<1>5. CASE DisableTenantRls
  BY <1>5, DisableKeeps
<1> QED BY <1>1, <1>2, <1>3, <1>4, <1>5 DEF Next

\* The inductive invariant holds of database sessions.
THEOREM SessionsInvariant == Spec => []SessionsOK
BY InitOK, NextOK, PTL DEF Spec

\* Every variable of runtime.py, context.py and tenant.py has its type; in
\* particular the retry loop makes at most max_attempts attempts.
THEOREM SessionsTypes == Spec => []TypeOK
<1>1. SessionsOK => TypeOK
  BY DEF SessionsOK, TypeOK, Settings
<1> QED BY <1>1, SessionsInvariant, PTL

\* Tenants are isolated by the hook of tenant.py and the policy of alembic/rls.py,
\* wherever verify_rls_* reports a healthy deployment with require_force_rls, or
\* without it and the runtime role is no member of the owner.
THEOREM IsolationTheorem == Spec => []TenantIsolation
<1>1. SessionsOK => TenantIsolation
  BY DEF SessionsOK, Isolated, TenantIsolation
<1> QED BY <1>1, SessionsInvariant, PTL

\* The blocks of runtime.py and the loop of transactions.py commit no more often
\* than their caller asked for.
THEOREM AppliedTheorem == Spec => []AppliedAsAsked
<1>1. SessionsOK => AppliedAsAsked
  BY DEF SessionsOK, CallOK, CountOK, AppliedAsAsked
<1> QED BY <1>1, SessionsInvariant, PTL

\* A block of runtime.py or transactions.py that ends well has been applied, and one
\* that ends otherwise has not, but for a lost connection, a timeout of the client
\* and a cancellation.
THEOREM OutcomeTheorem == Spec => []OutcomeIsTrue
<1>1. SessionsOK => OutcomeIsTrue
  BY DEF SessionsOK, CallOK, EndOK, OutcomeIsTrue, Idle
<1> QED BY <1>1, SessionsInvariant, PTL
=============================================================================
