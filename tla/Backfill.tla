------------------------------ MODULE Backfill ------------------------------
(***************************************************************************)
(* The batched backfill of database/backfill.py: every batch loads the     *)
(* checkpoint, processes the rows after it and saves the next checkpoint,  *)
(* in one transaction.  The callbacks are those of the repository's own    *)
(* backfill (tests/integration/test_operational_backfill.py): rows by id,  *)
(* after the checkpoint, up to the batch size; the loader takes a          *)
(* transaction-scoped advisory lock (database/locks.py), as the module     *)
(* asks of callers that run several workers.                               *)
(***************************************************************************)
EXTENDS Integers, FiniteSets, FiniteSetsExt

CONSTANTS
    Workers,        \* processes that run the backfill
    MaxId,          \* bound: ids of the table
    BatchSize,      \* batch_size
    Limits          \* max_batches of a run; 0 stands for None

ASSUME BackfillAssumption ==
    MaxId \in Nat /\ BatchSize \in Nat \ {0} /\ Limits \subseteq Nat /\ Limits # {}

VARIABLES
    rows,       \* the column to fill, for every row
    fills,      \* how often each row has been processed, in committed batches
    checkpoint, \* the saved cursor; 0 before the first batch
    run         \* the run of each worker

backfillVars == <<rows, fills, checkpoint, run>>

Ids == 1..MaxId

\* "open": inserted by a transaction that has not committed; "null": the column is
\* not filled; "gone": the id of an insert that was rolled back.
RowStates == {"absent", "open", "null", "filled", "gone"}

\* What SELECT sees.
Present == {i \in Ids : rows[i] \in {"null", "filled"}}

Batch == [ids: SUBSET Ids, next: 0..MaxId, done: BOOLEAN]

NoBatch == [ids |-> {}, next |-> 0, done |-> FALSE]

Run == [pc: {"idle", "load", "process", "save"},
        limit: Limits,
        batches: Nat,
        cursor: 0..MaxId,           \* the checkpoint the transaction has loaded
        batch: Batch]

NewRun(pc, limit, batches) ==
    [pc |-> pc, limit |-> limit, batches |-> batches, cursor |-> 0, batch |-> NoBatch]

IdleRun == NewRun("idle", CHOOSE l \in Limits : TRUE, 0)

-----------------------------------------------------------------------------
(* One batch.                                                               *)

\* Mutant: a lock that is not acquired is not reported.
LockFree_Ignored == TRUE

\* pg_try_advisory_xact_lock: no other transaction of the backfill is open.
LockFree == \A w \in Workers : run[w].pc \notin {"process", "save"}

\* Mutant: the cursor is taken from the whole result instead of the batch.
NextBatch_LastId(cursor) ==
    LET after == {i \in Present : i > cursor}
        ids == {i \in after : Cardinality({j \in after : j <= i}) <= BatchSize}
    IN  [ids |-> ids, next |-> Max(after \cup {cursor}),
         done |-> Cardinality(ids) < BatchSize]

\* process_batch: the first rows after the cursor.
NextBatch(cursor) ==
    LET after == {i \in Present : i > cursor}
        ids == {i \in after : Cardinality({j \in after : j <= i}) <= BatchSize}
    IN  [ids |-> ids, next |-> Max(ids \cup {cursor}),
         done |-> Cardinality(ids) < BatchSize]

\* A processor that finds nothing to do and does not say that it is done.
StuckBatch(cursor) == [ids |-> {}, next |-> cursor, done |-> FALSE]

\* _validate_batch, of a batch and the count of rows it reports.
ValidBatch(batch, processed, cursor) ==
    /\ processed >= 0
    /\ batch.done \/ processed # 0 \/ batch.next # cursor

\* The run ends with an exception: the open transaction is rolled back.
Failed(w) == run' = [run EXCEPT ![w] = IdleRun]

\* run_batched_backfill_sync is called.
StartRun(w) ==
    /\ run[w].pc = "idle"
    /\ \E limit \in Limits : run' = [run EXCEPT ![w] = NewRun("load", limit, 0)]
    /\ UNCHANGED <<rows, fills, checkpoint>>

\* A transaction begins and load_checkpoint runs; LockNotAcquiredError ends the run.
LoadCheckpoint(w) ==
    /\ run[w].pc = "load"
    /\ IF LockFree
         THEN run' = [run EXCEPT ![w].pc = "process", ![w].cursor = checkpoint]
         ELSE Failed(w)
    /\ UNCHANGED <<rows, fills, checkpoint>>

\* process_batch and the validation of its answer, whose count may be wrong.
ProcessBatch(w) ==
    /\ run[w].pc = "process"
    /\ \E b \in {NextBatch(run[w].cursor), StuckBatch(run[w].cursor)} :
       \E processed \in {-1, Cardinality(b.ids)} :
         IF ValidBatch(b, processed, run[w].cursor)
           THEN run' = [run EXCEPT ![w].pc = "save", ![w].batch = b]
           ELSE Failed(w)
    /\ UNCHANGED <<rows, fills, checkpoint>>

\* The batch and its checkpoint take effect.
Apply(b) ==
    /\ rows' = [i \in Ids |-> IF i \in b.ids THEN "filled" ELSE rows[i]]
    /\ fills' = [i \in Ids |-> IF i \in b.ids THEN fills[i] + 1 ELSE fills[i]]
    /\ checkpoint' = b.next

\* The run after a batch: the loop goes on, or returns BackfillRun.  The batches of
\* a run without limit are not counted.
AfterBatch(r) ==
    LET n == IF r.limit = 0 THEN 0 ELSE r.batches + 1
    IN  IF r.batch.done \/ (r.limit > 0 /\ n = r.limit)
          THEN IdleRun
          ELSE NewRun("load", r.limit, n)

\* save_checkpoint and COMMIT.
CommitBatch(w) ==
    /\ run[w].pc = "save"
    /\ Apply(run[w].batch)
    /\ run' = [run EXCEPT ![w] = AfterBatch(@)]

\* Mutant: the checkpoint is saved outside the transaction of the batch.
LoseCommit_Apart(w) ==
    /\ run[w].pc = "save"
    /\ checkpoint' = run[w].batch.next
    /\ UNCHANGED <<rows, fills>>
    /\ Failed(w)

\* The connection is lost at COMMIT: the batch and its checkpoint are both there
\* or both gone, and the run ends with an exception.
LoseCommit(w) ==
    /\ run[w].pc = "save"
    /\ \/ Apply(run[w].batch)
       \/ UNCHANGED <<rows, fills, checkpoint>>
    /\ Failed(w)

\* The process dies; its transaction is rolled back.
CrashRun(w) ==
    /\ run[w].pc # "idle"
    /\ Failed(w)
    /\ UNCHANGED <<rows, fills, checkpoint>>

BackfillInit ==
    /\ fills = [i \in Ids |-> 0]
    /\ checkpoint = 0
    /\ run = [w \in Workers |-> IdleRun]

\* Every variable has its type; a run makes at most max_batches batches.
BackfillTypeOK ==
    /\ rows \in [Ids -> RowStates]
    /\ fills \in [Ids -> Nat]
    /\ checkpoint \in 0..MaxId
    /\ run \in [Workers -> Run]
    /\ \A w \in Workers : run[w].limit > 0 => run[w].batches < run[w].limit

\* No row is processed by two batches, whatever crashes, repetitions and second
\* workers there are.
EachRowOnce == \A i \in Ids : fills[i] <= 1
=============================================================================
