------------------------------- MODULE Outbox -------------------------------
(***************************************************************************)
(* The transactional outbox (src/prodkit_storage/outbox.py and its model   *)
(* models/outbox.py): producers insert events, dispatch workers claim them *)
(* in batches under a per-claim lease token and settle them by token       *)
(* (complete / fail) or through the ORM object of the claim                *)
(* (mark_outbox_published / mark_outbox_failed), whose flush is guarded by *)
(* the optimistic version column.  What a worker does with an event before *)
(* it settles it is the caller's: outbox.py neither publishes nor checks   *)
(* that anybody did, so a worker may settle what it holds at any time.     *)
(*                                                                         *)
(* A claim is two steps, because the SELECT ... FOR UPDATE SKIP LOCKED and *)
(* the COMMIT of its transaction are far apart: the row images wait in     *)
(* txn[w] while the rows stay locked.  The settling calls are single       *)
(* statements that wait for a locked row, so each is one step.             *)
(***************************************************************************)
EXTENDS Integers, FiniteSets

CONSTANTS
    Events,         \* identities of the rows producers may insert
    Workers,        \* dispatcher processes
    None,           \* SQL NULL
    BatchSize,      \* batch_size of a claim
    StaleAfter,     \* stale_after of a claim
    MaxAttempts,    \* max_attempts of a failure
    BaseDelay,      \* base_delay_seconds of a failure
    MaxDelay,       \* the cap of the retry delay
    Delays,         \* how far in the future a producer may put available_at
    Skew,           \* how far each worker's clock runs ahead of the reference
    MaxClock,       \* bound: the reference clock stops here
    MaxClaims,      \* bound: claims started
    MaxFaults       \* bound: worker crashes and claim rollbacks

Token == Nat \X Events

ASSUME ConstantsAssumption ==
    /\ BatchSize \in Nat \ {0} /\ StaleAfter \in Nat \ {0}
    /\ MaxAttempts \in Nat \ {0}
    /\ BaseDelay \in Nat \ {0} /\ MaxDelay \in Nat
    /\ Delays \subseteq Nat
    /\ MaxClock \in Nat /\ MaxClaims \in Nat /\ MaxFaults \in Nat

ASSUME SkewAssumption == Skew \in [Workers -> Nat]

ASSUME FiniteAssumption == IsFiniteSet(Events)

VARIABLES
    rows,       \* committed storage_outbox_events, by event
    txn,        \* txn[w][e]: row image of e in w's open claim transaction, or None
    held,       \* held[w]: claimed events in the memory of worker w
    clock,      \* reference time
    nextClaim,  \* number of the next claim; makes lease tokens unique
    faults      \* worker crashes and rollbacks so far

vars == <<rows, txn, held, clock, nextClaim, faults>>

Status == {"absent", "pending", "processing", "published", "dead"}

\* A row; status "absent" stands for an event not inserted yet.
Row == [status: Status, attempts: Nat, available_at: Int, created_at: Nat,
        locked_at: Int \cup {None}, locked_by: Workers \cup {None},
        lock_token: Token \cup {None}, version: Nat]

\* What a worker keeps of the objects a claim returned: the event, its token
\* and its version.
Lease == [event: Events, token: Token, version: Nat]

ASSUME NoneAssumption == None \notin Token /\ None \notin Workers /\ None \notin Row

NoTxn == [e \in Events |-> None]

AbsentRow ==
    [status |-> "absent", attempts |-> 0, available_at |-> 0, created_at |-> 0,
     locked_at |-> None, locked_by |-> None, lock_token |-> None, version |-> 0]

\* datetime.now() on the host of worker w.
Now(w) == clock + Skew[w]

\* The row is locked by an open claim transaction.
Locked(e) == \E w \in Workers : txn[w][e] # None

-----------------------------------------------------------------------------
(* The statements of outbox.py as functions of a row.                       *)

\* Mutant: attempts without its default.
NewRow_NoAttempts(now, available) ==
    [status |-> "pending", attempts |-> None, available_at |-> available,
     created_at |-> now, locked_at |-> None, locked_by |-> None,
     lock_token |-> None, version |-> 1]

\* The row enqueue_outbox_event adds, with the defaults of the columns.
NewRow(now, available) ==
    [status |-> "pending", attempts |-> 0, available_at |-> available,
     created_at |-> now, locked_at |-> None, locked_by |-> None,
     lock_token |-> None, version |-> 1]

\* Mutant: a stale lease is never taken over.
Claimable_PendingOnly(row, now) ==
    row.available_at <= now /\ row.status = "pending"

\* The WHERE clause of the claim query.
Claimable(row, now) ==
    /\ row.available_at <= now
    /\ \/ row.status = "pending"
       \/ /\ row.status = "processing"
          /\ \/ row.locked_at = None
             \/ row.locked_at < now - StaleAfter

\* ORDER BY available_at, created_at.
Before(r, s) ==
    \/ r.available_at < s.available_at
    \/ r.available_at = s.available_at /\ r.created_at < s.created_at

\* The assignments of the claim loop and the version bump of its flush.
ClaimedRow(row, w, now, token) ==
    [row EXCEPT !.status = "processing", !.locked_at = now, !.locked_by = w,
                !.lock_token = token, !.attempts = @ + 1, !.version = @ + 1]

\* Mutants: the token is not cleared; the version is not bumped.
Released_KeepsToken(row) ==
    [row EXCEPT !.locked_at = None, !.locked_by = None, !.version = @ + 1]

Released_NoVersion(row) ==
    [row EXCEPT !.locked_at = None, !.locked_by = None, !.lock_token = None]

\* What every settlement writes: the lease is over, the version goes up.
Released(row) ==
    [row EXCEPT !.locked_at = None, !.locked_by = None, !.lock_token = None,
                !.version = @ + 1]

PublishedRow(row) == [Released(row) EXCEPT !.status = "published"]

\* min(base_delay_seconds * 2 ** max(attempts - 1, 0), 3600), MaxDelay = 3600.
RetryDelay(attempts) ==
    LET doublings == IF attempts > 0 THEN attempts - 1 ELSE 0
        delay     == BaseDelay * 2^doublings
    IN  IF delay \in 0..MaxDelay THEN delay ELSE MaxDelay

\* Mutant: one attempt too many.
FailedRow_OneMore(row, now) ==
    IF row.attempts > MaxAttempts
    THEN [Released(row) EXCEPT !.status = "dead"]
    ELSE [Released(row) EXCEPT !.status = "pending",
                               !.available_at = now + RetryDelay(row.attempts)]

\* mark_outbox_failed: dead once attempts are exhausted, else back to pending.
FailedRow(row, now) ==
    IF row.attempts >= MaxAttempts
    THEN [Released(row) EXCEPT !.status = "dead"]
    ELSE [Released(row) EXCEPT !.status = "pending",
                               !.available_at = now + RetryDelay(row.attempts)]

\* Mutants: the token, or the version, is not compared.
Owns_NoToken(row, l) == row.status = "processing"

Current_Unchecked(row, l) == TRUE

\* The WHERE clause of complete_outbox_event and fail_outbox_event.
Owns(row, l) == row.status = "processing" /\ row.lock_token = l.token

\* The WHERE clause SQLAlchemy adds to the flush of a versioned object.
Current(row, l) == row.version = l.version

-----------------------------------------------------------------------------
Init ==
    /\ rows = [e \in Events |-> AbsentRow]
    /\ txn = [w \in Workers |-> NoTxn]
    /\ held = [w \in Workers |-> {}]
    /\ clock = 0 /\ nextClaim = 1 /\ faults = 0

\* enqueue_outbox_event in a producer transaction that commits.
Enqueue(e, delay) ==
    /\ rows[e].status = "absent"
    /\ rows' = [rows EXCEPT ![e] = NewRow(clock, clock + delay)]
    /\ UNCHANGED <<txn, held, clock, nextClaim, faults>>

\* Mutant: no row locks.
Candidates_NotSkipping(now) == {e \in Events : Claimable(rows[e], now)}

\* The rows the claim query may lock: eligible and not locked by another.
Candidates(now) == {e \in Events : Claimable(rows[e], now) /\ ~Locked(e)}

\* The first batch_size candidates; ties in the order are broken arbitrarily.
Batches(now) ==
    {S \in SUBSET Candidates(now) :
        /\ S # {}
        /\ Cardinality(S) <= BatchSize
        /\ S # Candidates(now) => Cardinality(S) = BatchSize
        /\ \A e \in S, f \in Candidates(now) \ S : ~Before(rows[f], rows[e])}

\* claim_outbox_events up to its flush: lock a batch and write row images.
ClaimSelect(w) ==
    /\ txn[w] = NoTxn
    /\ nextClaim <= MaxClaims
    /\ \E S \in Batches(Now(w)) :
         txn' = [txn EXCEPT ![w] =
                   [e \in Events |->
                       IF e \in S THEN ClaimedRow(rows[e], w, Now(w), <<nextClaim, e>>)
                                  ELSE None]]
    /\ nextClaim' = nextClaim + 1
    /\ UNCHANGED <<rows, held, clock, faults>>

\* The claim transaction commits; only now are its tokens in use.
ClaimCommit(w) ==
    /\ txn[w] # NoTxn
    /\ rows' = [e \in Events |-> IF txn[w][e] # None THEN txn[w][e] ELSE rows[e]]
    /\ held' = [held EXCEPT ![w] = @ \cup
                  {[event |-> e, token |-> txn[w][e].lock_token,
                    version |-> txn[w][e].version] :
                      e \in {f \in Events : txn[w][f] # None}}]
    /\ txn' = [txn EXCEPT ![w] = NoTxn]
    /\ UNCHANGED <<clock, nextClaim, faults>>

\* The claim transaction rolls back (error, cancelled await, lost connection).
ClaimRollback(w) ==
    /\ faults < MaxFaults
    /\ txn[w] # NoTxn
    /\ txn' = [txn EXCEPT ![w] = NoTxn]
    /\ faults' = faults + 1
    /\ UNCHANGED <<rows, held, clock, nextClaim>>

\* Common to the four settling calls: write the row if the guard of the
\* statement matches, else raise; a worker whose COMMIT was answered, or that
\* was refused, forgets the lease, one whose answer was lost keeps it.
Settle(w, l, matches, row, answered) ==
    /\ l \in held[w]
    /\ ~Locked(l.event)
    /\ matches \/ answered
    /\ rows' = IF matches THEN [rows EXCEPT ![l.event] = row] ELSE rows
    /\ held' = IF answered THEN [held EXCEPT ![w] = @ \ {l}] ELSE held
    /\ UNCHANGED <<txn, clock, nextClaim, faults>>

\* complete_outbox_event
Complete(w, l, answered) ==
    Settle(w, l, Owns(rows[l.event], l), PublishedRow(rows[l.event]), answered)

\* fail_outbox_event
Fail(w, l, answered) ==
    Settle(w, l, Owns(rows[l.event], l), FailedRow(rows[l.event], Now(w)), answered)

\* mark_outbox_published on the claimed object, then flush and commit.  It has
\* cleared the token of the object, so there is nothing to retry with.
MarkPublished(w, l) ==
    Settle(w, l, Current(rows[l.event], l), PublishedRow(rows[l.event]), TRUE)

\* mark_outbox_failed on the claimed object, then flush and commit.
MarkFailed(w, l) ==
    Settle(w, l, Current(rows[l.event], l), FailedRow(rows[l.event], Now(w)), TRUE)

\* The process dies: its transaction rolls back and its memory is gone.
Crash(w) ==
    /\ faults < MaxFaults
    /\ txn[w] # NoTxn \/ held[w] # {}
    /\ txn' = [txn EXCEPT ![w] = NoTxn]
    /\ held' = [held EXCEPT ![w] = {}]
    /\ faults' = faults + 1
    /\ UNCHANGED <<rows, clock, nextClaim>>

Tick ==
    /\ clock < MaxClock
    /\ clock' = clock + 1
    /\ UNCHANGED <<rows, txn, held, nextClaim, faults>>

SettleStep(w, l) ==
    \/ \E answered \in BOOLEAN : Complete(w, l, answered) \/ Fail(w, l, answered)
    \/ MarkPublished(w, l)
    \/ MarkFailed(w, l)

WorkerStep(w) ==
    \/ ClaimSelect(w)
    \/ ClaimCommit(w)
    \/ ClaimRollback(w)
    \/ \E l \in held[w] : SettleStep(w, l)
    \/ Crash(w)

Next ==
    \/ \E e \in Events, delay \in Delays : Enqueue(e, delay)
    \/ \E w \in Workers : WorkerStep(w)
    \/ Tick

Spec == Init /\ [][Next]_vars

-----------------------------------------------------------------------------
(* Properties.                                                              *)

\* Every variable keeps its shape; an open transaction images rows it locked.
TypeOK ==
    /\ rows \in [Events -> Row]
    /\ txn \in [Workers -> [Events -> Row \cup {None}]]
    /\ held \in [Workers -> SUBSET Lease]
    /\ clock \in Nat /\ nextClaim \in Nat /\ faults \in Nat

\* CHECK processing_has_lock_token of models/outbox.py: committed rows never
\* carry a token without being in processing, nor the other way round.
TokenIffProcessing ==
    \A e \in Events : (rows[e].lock_token # None) <=> (rows[e].status = "processing")

\* The two fences agree: for every lease a worker remembers, however stale,
\* the version check of an ORM flush and the token check of complete/fail give
\* the same answer, so mixing the two APIs never lets a stale worker through.
VersionAgreesWithLease ==
    \A w \in Workers : \A l \in held[w] :
        Current(rows[l.event], l) <=> Owns(rows[l.event], l)

\* An event is dead-lettered only once its attempts are used up, and is offered
\* again only while some are left (mark_outbox_failed).
DeadIffExhausted ==
    \A e \in Events :
        /\ rows[e].status = "dead" => rows[e].attempts >= MaxAttempts
        /\ rows[e].status = "pending" => rows[e].attempts < MaxAttempts

\* At most one worker can settle an event, and it is the one the row names:
\* whichever claims overlapped, went stale or were rolled back, the token of a
\* row is in the memory of the worker in its locked_by and of nobody else.
SettlerIsNamed ==
    \A w \in Workers : \A l \in held[w] :
        Owns(rows[l.event], l) => rows[l.event].locked_by = w

\* A settled event is never claimed, completed or failed again: published and
\* dead rows do not change, whatever stale workers still do.
TerminalStable ==
    [][\A e \in Events :
          rows[e].status \in {"published", "dead"} => rows'[e] = rows[e]]_vars

\* No lost update: every change of a row is based on the row it replaces.
NoLostUpdate ==
    [][\A e \in Events :
          rows'[e] # rows[e] => rows'[e].version = rows[e].version + 1]_vars

-----------------------------------------------------------------------------
(* The promise of the outbox: an event's epoch is its version column.       *)

Ledger == INSTANCE OutboxLedger WITH
    state  <- [e \in Events |-> rows[e].status],
    epoch  <- [e \in Events |-> rows[e].version],
    grants <- [w \in Workers |-> {<<l.event, l.version>> : l \in held[w]}]

\* README: "A stale worker cannot complete an event after a newer worker
\* reclaims it."  Every step of the code is a step of OutboxLedger: tokens,
\* row locks and versions together admit only the holder of the current epoch.
ImplementsLedger == Ledger!Spec

-----------------------------------------------------------------------------
(* Progress, for dispatchers that keep polling and finish a batch before    *)
(* its lease goes stale: time passes only while no row waits to be claimed  *)
(* and no open claim or live lease would be stale on some worker's clock.   *)
(* Time with no open row only shifts what follows and is left out.          *)

Fresh(row) == \A w \in Workers : ~(row.locked_at < Now(w) + 1 - StaleAfter)

PromptTick ==
    /\ \E e \in Events : rows[e].status \in {"pending", "processing"}
    /\ \A w \in Workers : Candidates(Now(w)) = {}
    /\ \A w \in Workers : \A e \in Events : txn[w][e] # None => Fresh(txn[w][e])
    /\ \A w \in Workers : \A l \in held[w] :
           Owns(rows[l.event], l) => Fresh(rows[l.event])
    /\ Tick

PromptNext ==
    \/ \E e \in Events, delay \in Delays : Enqueue(e, delay)
    \/ \E w \in Workers : WorkerStep(w)
    \/ PromptTick

PromptSpec ==
    /\ Init /\ [][PromptNext]_vars
    /\ \A w \in Workers : WF_vars(WorkerStep(w))
    /\ WF_vars(PromptTick)

\* Every enqueued event is eventually published or dead-lettered, although
\* workers crash, claims roll back, leases are lost and answers go missing.
EveryEventSettles ==
    \A e \in Events :
        rows[e].status = "pending" ~> rows[e].status \in {"published", "dead"}
=============================================================================
