------------------------------ MODULE Sessions ------------------------------
(***************************************************************************)
(* Database sessions: the transaction, read and session blocks of          *)
(* database/runtime.py, units of work (uow.py), the retry loop             *)
(* (transactions.py), raw snapshots (snapshot.py), and the tenant context  *)
(* (context.py) that the after_begin hook (tenant.py) copies into each     *)
(* transaction for the row level security policy of alembic/rls.py.        *)
(*                                                                         *)
(* A session takes a connection with the first statement of a transaction, *)
(* not at its begin: autoflush is off, so an added row is inserted by the  *)
(* flush of the commit, and the hook sees the context of that moment.      *)
(***************************************************************************)
EXTENDS Naturals, Sequences, FiniteSets

CONSTANTS
    Tasks,          \* threads or asyncio tasks, each with its own context
    Conns,          \* connections of the pool
    Tenants,
    None,           \* no tenant, no connection
    MaxAttempts,    \* max_attempts of the retry loop
    MaxCommits,     \* bound: commit() calls within one block
    MaxDepth,       \* bound: nested request contexts
    MaxRows,        \* bound: rows of different tenants in one transaction
    MaxFlaws        \* bound: flaws of a deployment

ASSUME SessionAssumption ==
    /\ MaxAttempts \in Nat \ {0} /\ MaxCommits \in Nat \ {0}
    /\ {MaxDepth, MaxRows, MaxFlaws} \subseteq Nat
    /\ None \notin Tenants /\ None \notin Conns

VARIABLES
    ctx,        \* the request contexts each task is in, as their tenants
    call,       \* the block each task is in
    guc,        \* app.tenant_id of each connection outside transactions
    rls,        \* the runtime role and the table's policy, in the database
    settings    \* tenant_rls_enabled and tenant_required

vars == <<ctx, call, guc, rls, settings>>

Kinds == {"transaction", "read", "session", "read_session", "uow", "retry", "snapshot"}

\* Blocks that commit when they are left without an exception.
CommitsAtExit == {"transaction", "read", "retry", "snapshot"}

\* Blocks that commit when their caller says so.
CommitsOnCall == {"session", "read_session", "uow"}

\* How a block ended: "transient" and "permanent" stand for server errors by
\* their SQLSTATE, "lost" for a lost connection, which has none, "cut" for a
\* call that the client gave up (the TimeoutError of command_timeout, a
\* CancelledError) and "app" for all other exceptions; the last two are no
\* DBAPIError.
Errors == {"app", "cut", "transient", "permanent", "lost"}

\* How a statement may fail.
StatementErrors == Errors \ {"app"}

Call == [kind: Kinds,
         handling: BOOLEAN,         \* called from the handler of a transient error
         pc: {"body", "commit", "backoff", "ended"},
         base: 0..MaxDepth,         \* contexts around the block
         attempt: 1..MaxAttempts,
         conn: Conns \cup {None},
         readOnly: BOOLEAN,
         tenant: Tenants \cup {None},   \* that the transaction was begun for
         setting: Tenants \cup {None},  \* app.tenant_id within the transaction
         pending: SUBSET (Tenants \cup {None}),  \* rows added, by their tenant
         staged: SUBSET (Tenants \cup {None}),   \* rows inserted
         saw: SUBSET Tenants,       \* whose rows the transaction has read
         aborted: BOOLEAN,          \* a statement failed and the caller went on
         swallowed: BOOLEAN,        \* so did one of any transaction of the block
         asked: 0..MaxCommits,      \* commits of new rows the caller asked for
         applied: Nat,              \* commits of new rows that took effect
         result: Errors \cup {"ok"}]

\* What may be wrong with a deployment: verify_rls_* is asked about a role or table
\* that does not exist, or policies do not bind the runtime role; "member" is a role
\* that is not the owner of the table but has the privileges of it.
Flaws == {"misnamed", "superuser", "bypass", "owner", "member"}

RLS == [misnamed: BOOLEAN,
        superuser: BOOLEAN, bypass: BOOLEAN, owner: BOOLEAN, member: BOOLEAN,
        enabled: BOOLEAN, force: BOOLEAN, policy: BOOLEAN]

-----------------------------------------------------------------------------
(* Context and policies.                                                    *)

\* get_tenant_id: the innermost context, if there is one.
TenantId(t) == IF ctx[t] = <<>> THEN None ELSE ctx[t][Len(ctx[t])]

\* PostgreSQL applies policies to the role.  Without FORCE they do not bind a role
\* that has the privileges of the owner, be it the owner or a member of it.
PolicyApplies ==
    /\ rls.enabled /\ ~rls.superuser /\ ~rls.bypass
    /\ rls.owner \/ rls.member => rls.force

\* USING: tenant_id = NULLIF(current_setting(...), '')::uuid
Visible(setting) ==
    IF PolicyApplies THEN {n \in Tenants : rls.policy /\ n = setting} ELSE Tenants

\* WITH CHECK, the same comparison; a row without tenant never passes it.
Insertable(setting) ==
    IF PolicyApplies THEN Visible(setting) ELSE Tenants \cup {None}

\* Mutant: a report that does not look at the owner.
Healthy_AnyOwner(requireForce) ==
    /\ ~rls.misnamed /\ ~rls.superuser /\ ~rls.bypass
    /\ rls.enabled /\ rls.policy /\ (requireForce => rls.force)

\* _build_report.  It compares the name of the role with that of the owner and
\* knows nothing of memberships.
Healthy(requireForce) ==
    /\ ~rls.misnamed
    /\ ~rls.superuser /\ ~rls.bypass /\ ~rls.owner
    /\ rls.enabled /\ rls.policy /\ (requireForce => rls.force)

\* Mutant: set_config for the session instead of the transaction.
LeftBehind_Session(before, during) == during

\* The value a connection keeps when a transaction that set it ends.
LeftBehind(before, during) == before

\* SET TRANSACTION READ ONLY, before anything that may end the hook.
ReadOnlyMode(kind) == kind \in {"read", "read_session"}

\* repeatable_read_sync: a raw connection, without the hook.
SnapshotBegin(readOnly, before) ==
    [readOnly |-> readOnly, tenant |-> None, setting |-> before, refused |-> FALSE]

\* _apply_context_after_begin: what it leaves in the transaction.
AfterBegin(kind, tenant, before) ==
    LET refused == settings.rls /\ settings.required /\ tenant = None
        applies == settings.rls /\ ~refused
    IN  [readOnly |-> ReadOnlyMode(kind),
         tenant   |-> IF applies THEN tenant ELSE None,
         setting  |-> IF applies THEN tenant ELSE before,
         refused  |-> refused]

\* How the transaction of a block may begin; read_only is an argument of snapshots.
Opened(kind, tenant, before) ==
    IF kind = "snapshot" THEN {SnapshotBegin(r, before) : r \in BOOLEAN}
                         ELSE {AfterBegin(kind, tenant, before)}

-----------------------------------------------------------------------------
(* Errors.                                                                  *)

\* get_sqlstate walks orig, __cause__ and __context__: an error without a state
\* of its own has that of the exception being handled when it was raised.
SqlState(e, handling) == IF e = "lost" /\ handling THEN "transient" ELSE e

\* Mutant: lost connections are transient.
Retryable_Lost(e, handling) == e \in {"transient", "lost"}

\* is_retryable_database_error
Retryable(e, handling) == e \notin {"app", "cut"} /\ SqlState(e, handling) = "transient"

\* The condition on which the loop raises.
GivesUp(c, e) == c.attempt = MaxAttempts \/ ~Retryable(e, c.handling)

-----------------------------------------------------------------------------
(* Blocks.                                                                  *)

Idle(t) == call[t].pc = "ended"
InBody(t) == call[t].pc = "body"
InUse(c) == \E t \in Tasks : call[t].conn = c

\* A session whose transaction is over: the connection is back in the pool.
NoTransaction(c) ==
    [c EXCEPT !.conn = None, !.readOnly = FALSE, !.tenant = None, !.setting = None,
              !.pending = {}, !.staged = {}, !.saw = {}, !.aborted = FALSE]

\* The end of t's transaction, on its connection.
Released(t) ==
    IF call[t].conn = None THEN guc
    ELSE [guc EXCEPT ![call[t].conn] = LeftBehind(@, call[t].setting)]

NewCall(kind, handling, pc, base) ==
    [kind |-> kind, handling |-> handling, pc |-> pc, base |-> base, attempt |-> 1,
     conn |-> None, readOnly |-> FALSE, tenant |-> None, setting |-> None,
     pending |-> {}, staged |-> {}, saw |-> {}, aborted |-> FALSE,
     swallowed |-> FALSE, asked |-> 0, applied |-> 0, result |-> "ok"]

\* transaction(), read_transaction(), session(), a unit of work, the retry loop or
\* a snapshot is entered.
Enter(t, kind) ==
    /\ Idle(t)
    /\ \E h \in IF kind = "retry" THEN BOOLEAN ELSE {FALSE} :
           call' = [call EXCEPT ![t] = NewCall(kind, h, "body", Len(ctx[t]))]
    /\ UNCHANGED <<ctx, guc, rls, settings>>

\* Mutant: the last attempt returns instead of raising.
Raised_Returns(c, e) ==
    IF c.kind = "retry" /\ ~GivesUp(c, e) THEN [c EXCEPT !.pc = "backoff"]
    ELSE [c EXCEPT !.pc = "ended", !.result = IF c.kind = "retry" THEN "ok" ELSE e]

\* An exception has left the block; the retry loop decides what follows.
Raised(c, e) ==
    IF c.kind = "retry" /\ ~GivesUp(c, e) THEN [c EXCEPT !.pc = "backoff"]
    ELSE [c EXCEPT !.pc = "ended", !.result = e]

\* An exception leaves the block: with statements unwind, and the transaction is
\* rolled back.
Raise(t, e) ==
    /\ ctx' = [ctx EXCEPT ![t] = SubSeq(@, 1, call[t].base)]
    /\ guc' = Released(t)
    /\ call' = [call EXCEPT ![t] = Raised(NoTransaction(@), e)]
    /\ UNCHANGED <<rls, settings>>

\* A statement raises e: the exception leaves the block, or the caller catches it
\* and goes on with a transaction that PostgreSQL has aborted; one that the client
\* gave up may have ended before PostgreSQL was told to cancel it.
Fail(t, e) ==
    \/ Raise(t, e)
    \/ /\ InBody(t) /\ e # "lost"
       /\ \E aborted \in {TRUE, call[t].aborted \/ e # "cut"} :
              call' = [call EXCEPT ![t].aborted = aborted, ![t].swallowed = TRUE]
       /\ UNCHANGED <<ctx, guc, rls, settings>>

\* The retry loop wakes up for its next attempt.
Retry(t) ==
    /\ call[t].pc = "backoff"
    /\ call' = [call EXCEPT ![t].pc = "body", ![t].attempt = @ + 1,
                            ![t].swallowed = FALSE, ![t].asked = 0]
    /\ UNCHANGED <<ctx, guc, rls, settings>>

\* The task is cancelled while the loop sleeps.
CancelRetry(t) == call[t].pc = "backoff" /\ Raise(t, "cut")

\* request_context and tenant_context; a block may open contexts of its own, and
\* leaves those only.
EnterContext(t, n) ==
    /\ call[t].pc \in {"ended", "body"} /\ Len(ctx[t]) < MaxDepth
    /\ ctx' = [ctx EXCEPT ![t] = Append(@, n)]
    /\ UNCHANGED <<call, guc, rls, settings>>

LeaveContext(t) ==
    /\ ctx[t] # <<>>
    /\ InBody(t) => Len(ctx[t]) > call[t].base
    /\ call[t].pc \in {"ended", "body"}
    /\ ctx' = [ctx EXCEPT ![t] = SubSeq(@, 1, Len(@) - 1)]
    /\ UNCHANGED <<call, guc, rls, settings>>

\* The first statement of a transaction takes a connection and runs the hook.  A
\* caller that catches the hook's TenantContextError keeps the connection: the
\* hook does not run again.
Begin(t, conn) ==
    LET c == call[t]
    IN  /\ c.pc = "body" \/ (c.pc = "commit" /\ c.pending # {})
        /\ c.conn = None /\ ~InUse(conn)
        /\ \E b \in Opened(c.kind, TenantId(t), guc[conn]) :
           \/ /\ b.refused
              /\ Raise(t, "app")
           \/ /\ b.refused => InBody(t)
              /\ call' = [call EXCEPT ![t].conn = conn, ![t].readOnly = b.readOnly,
                                      ![t].tenant = b.tenant, ![t].setting = b.setting,
                                      ![t].swallowed = @ \/ b.refused]
              /\ UNCHANGED <<ctx, guc, rls, settings>>

\* pool_timeout, or a cancellation of the wait: every connection is taken, by these
\* tasks or by others.
PoolTimeout(t) ==
    /\ InBody(t) \/ (call[t].pc = "commit" /\ call[t].pending # {})
    /\ call[t].conn = None
    /\ \E e \in {"app", "cut"} : Raise(t, e)

\* A query.
Select(t) ==
    /\ InBody(t) /\ call[t].conn # None
    /\ \/ /\ ~call[t].aborted
          /\ call' = [call EXCEPT ![t].saw = @ \cup Visible(call[t].setting)]
          /\ UNCHANGED <<ctx, guc, rls, settings>>
       \/ \E e \in StatementErrors : Fail(t, e)

\* An INSERT of a snapshot's caller, which has no session to flush; it fails as a
\* query does.
Execute(t) ==
    LET c == call[t]
    IN  /\ InBody(t) /\ c.kind = "snapshot" /\ c.conn # None
        /\ ~c.aborted /\ ~c.readOnly /\ TenantId(t) \in Insertable(c.setting)
        /\ Cardinality(c.staged \cup {TenantId(t)}) <= MaxRows
        /\ call' = [call EXCEPT ![t].staged = @ \cup {TenantId(t)}]
        /\ UNCHANGED <<ctx, guc, rls, settings>>

\* session.add of a row that carries the tenant of the context, as an audit or an
\* outbox event does.
Add(t) ==
    /\ InBody(t) /\ call[t].kind # "snapshot"
    /\ Cardinality(call[t].pending \cup call[t].staged \cup {TenantId(t)}) <= MaxRows
    /\ call' = [call EXCEPT ![t].pending = @ \cup {TenantId(t)}]
    /\ UNCHANGED <<ctx, guc, rls, settings>>

\* The flush of added rows, called by the body or by the commit.
Flush(t) ==
    LET c == call[t]
    IN  /\ c.pc \in {"body", "commit"} /\ c.pending # {} /\ c.conn # None
        /\ \/ /\ ~c.aborted /\ ~c.readOnly /\ c.pending \subseteq Insertable(c.setting)
              /\ call' = [call EXCEPT ![t].staged = @ \cup c.pending, ![t].pending = {}]
              /\ UNCHANGED <<ctx, guc, rls, settings>>
           \/ \E e \in StatementErrors : Raise(t, e)

\* The body raises an exception of its own, or is cancelled.
BodyRaises(t) == InBody(t) /\ \E e \in {"app", "cut"} : Raise(t, e)

\* The commit begins.
Committing(c) ==
    [c EXCEPT !.pc = "commit",
              !.asked = IF c.pending \cup c.staged = {} THEN @ ELSE @ + 1]

\* session.commit() or the unit of work's commit is called.
CallCommit(t) ==
    /\ InBody(t) /\ call[t].kind \in CommitsOnCall
    /\ call[t].asked < MaxCommits
    /\ call' = [call EXCEPT ![t] = Committing(@)]
    /\ UNCHANGED <<ctx, guc, rls, settings>>

\* session.rollback() or the unit of work's rollback.
CallRollback(t) ==
    /\ InBody(t) /\ call[t].kind \in CommitsOnCall
    /\ guc' = Released(t)
    /\ call' = [call EXCEPT ![t] = NoTransaction(@)]
    /\ UNCHANGED <<ctx, rls, settings>>

\* Mutant: a session that is closed commits what it has flushed.
Closed_Commits(c) ==
    [NoTransaction(c) EXCEPT !.pc = "ended",
                             !.applied = IF c.staged # {} THEN @ + 1 ELSE @]

\* session.close(), which rolls back what was not committed; the unit of work
\* rolls back first, unless it is finished.
Closed(c) == [NoTransaction(c) EXCEPT !.pc = "ended"]

\* The block is left without an exception.
Leave(t) ==
    /\ InBody(t) /\ Len(ctx[t]) = call[t].base
    /\ IF call[t].kind \in CommitsAtExit
         THEN call' = [call EXCEPT ![t] = Committing(@)] /\ UNCHANGED guc
         ELSE call' = [call EXCEPT ![t] = Closed(@)] /\ guc' = Released(t)
    /\ UNCHANGED <<ctx, rls, settings>>

\* The commit is over: the block goes on, or has ended.
AfterCommit(c, effect) ==
    [NoTransaction(c) EXCEPT
        !.pc = IF c.kind \in CommitsAtExit THEN "ended" ELSE "body",
        !.applied = IF effect THEN @ + 1 ELSE @]

\* COMMIT.  The server applies it or refuses it with a SQLSTATE; or the connection
\* is lost before the answer, or the client gives it up (command_timeout, or the
\* task is cancelled), and it may have been applied.  The server turns the COMMIT
\* of an aborted transaction into a rollback and reports no error.
Commit(t) ==
    LET c == call[t]
        work == c.staged # {}
    IN  /\ c.pc = "commit" /\ c.pending = {}
        /\ \/ /\ call' = [call EXCEPT ![t] = AfterCommit(c, work /\ ~c.aborted)]
              /\ guc' = Released(t)
              /\ UNCHANGED <<ctx, rls, settings>>
           \/ /\ c.conn # None
              /\ \E e \in {"transient", "permanent"} : Raise(t, e)
           \/ /\ c.conn # None
              /\ \E effect \in {FALSE, work /\ ~c.aborted}, e \in {"lost", "cut"} :
                     call' = [call EXCEPT ![t] = Raised(AfterCommit(c, effect), e)]
              /\ guc' = Released(t)
              /\ ctx' = [ctx EXCEPT ![t] = SubSeq(@, 1, c.base)]
              /\ UNCHANGED <<rls, settings>>

-----------------------------------------------------------------------------
(* The rest of the system.                                                  *)

\* dispose, or the pool's recycling: connections that are not in use are replaced.
Dispose ==
    /\ guc' = [c \in Conns |-> IF InUse(c) THEN guc[c] ELSE None]
    /\ UNCHANGED <<ctx, call, rls, settings>>

\* ALTER TABLE waits for the transactions on the table.
NoReaders == \A c \in Conns : ~InUse(c)

\* enable_tenant_rls, in a migration.
EnableTenantRls(force) ==
    /\ NoReaders /\ ~rls.policy
    /\ rls' = [rls EXCEPT !.enabled = TRUE, !.force = @ \/ force, !.policy = TRUE]
    /\ UNCHANGED <<ctx, call, guc, settings>>

\* disable_tenant_rls; it leaves FORCE as it is.
DisableTenantRls ==
    /\ NoReaders
    /\ rls' = [rls EXCEPT !.enabled = FALSE, !.policy = FALSE]
    /\ UNCHANGED <<ctx, call, guc, settings>>

-----------------------------------------------------------------------------
Init ==
    /\ ctx = [t \in Tasks |-> <<>>]
    /\ call = [t \in Tasks |-> NewCall("session", FALSE, "ended", 0)]
    /\ guc = [c \in Conns |-> None]
    /\ rls \in {r \in RLS : /\ ~r.enabled /\ ~r.policy /\ ~r.force
                            /\ Cardinality({f \in Flaws : r[f]}) <= MaxFlaws}
    /\ settings \in {x \in [rls: BOOLEAN, required: BOOLEAN] : x.required => x.rls}

TaskStep(t) ==
    \/ \E k \in Kinds : Enter(t, k)
    \/ \E n \in Tenants \cup {None} : EnterContext(t, n)
    \/ LeaveContext(t) \/ Retry(t) \/ CancelRetry(t)
    \/ \E c \in Conns : Begin(t, c)
    \/ PoolTimeout(t) \/ Select(t) \/ Execute(t) \/ Add(t) \/ Flush(t) \/ BodyRaises(t)
    \/ CallCommit(t) \/ CallRollback(t) \/ Leave(t) \/ Commit(t)

Next ==
    \/ \E t \in Tasks : TaskStep(t)
    \/ Dispose
    \/ \E f \in BOOLEAN : EnableTenantRls(f)
    \/ DisableTenantRls

Spec == Init /\ [][Next]_vars

-----------------------------------------------------------------------------
(* Properties.                                                              *)

\* Every variable has its type; the retry loop makes at most max_attempts attempts.
TypeOK ==
    /\ ctx \in [Tasks -> Seq(Tenants \cup {None})]
    /\ call \in [Tasks -> Call]
    /\ guc \in [Conns -> Tenants \cup {None}]
    /\ rls \in RLS
    /\ settings \in [rls: BOOLEAN, required: BOOLEAN]

\* A deployment that verify_rls_* reports healthy and whose policies bind the
\* runtime role: require_force_rls was asked for, or the role is no member of the
\* owner.  Without either the report may be healthy and no policy applies.
Guarded == Healthy(TRUE) \/ (Healthy(FALSE) /\ ~rls.member)

\* In a guarded deployment a transaction reads and writes rows of the tenant it was
\* begun for and of no other, and none at all without one: whatever contexts are
\* entered meanwhile, whoever had the connection before, and also when the caller
\* ignores the hook's error.
TenantIsolation ==
    Guarded => \A t \in Tasks :
        call[t].saw \cup call[t].staged \subseteq {call[t].tenant} \ {None}

\* Rows added in a block are committed no more often than the caller asked for
\* (once by the whole retry loop), although attempts are repeated and answers
\* lost.  A retry loop started in the handler of a transient error is the
\* exception: it takes a lost COMMIT for that error.
AppliedAsAsked ==
    \A t \in Tasks : ~call[t].handling => call[t].applied <= call[t].asked

\* A block that ended without an exception has committed what it was asked to,
\* unless its caller went on after a failed statement; one that ended with an error
\* of the server or of the caller has committed nothing of its last transaction.
\* Only a lost connection, a timeout of the client and a cancellation leave open
\* whether the COMMIT was applied.
OutcomeIsTrue ==
    \A t \in Tasks :
        LET c == call[t]
        IN  Idle(t) /\ ~c.handling /\ c.kind \in CommitsAtExit =>
                /\ c.result = "ok" /\ ~c.swallowed => c.applied = c.asked
                /\ c.result \in {"app", "transient", "permanent"} => c.applied = 0
=============================================================================
