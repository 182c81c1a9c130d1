--------------------------- MODULE MigrationProofs ---------------------------
(***************************************************************************)
(* A rollout for any number of workers, processes, release jobs and rows   *)
(* and any batch size.  The backfill processes no row twice, and its       *)
(* checkpoint passes no row that was there to be filled; the version table *)
(* is true of the catalog, and processes that were let in can write; and   *)
(* a revision of any length that the linter can read and passes does no    *)
(* harm.                                                                   *)
(***************************************************************************)
EXTENDS Migration, FiniteSetTheorems, TLAPS

-----------------------------------------------------------------------------
(* The inductive invariant.                                                 *)

\* A worker has a transaction of the backfill open.
Open(w) == run[w].pc \in {"process", "save"}

BatchType == [ids: SUBSET Ids, next: 0..MaxId, done: BOOLEAN]

RunType == [pc: {"idle", "load", "process", "save"}, limit: Limits, batches: Nat,
            cursor: 0..MaxId, batch: BatchType]

AppType == [up: BOOLEAN, seen: SUBSET Revisions, row: 0..MaxId]

Types ==
    /\ rows \in [Ids -> RowStates] /\ fills \in [Ids -> Nat] /\ checkpoint \in 0..MaxId
    /\ run \in [Workers -> RunType]
    /\ app \in [Apps -> AppType]
    /\ behind \subseteq Ids

\* The advisory lock admits one transaction at a time.
OneOpen == \A v, w \in Workers : v # w => ~(Open(v) /\ Open(w))

\* The checkpoint a transaction has loaded is still the checkpoint.
CursorIsCurrent == \A w \in Workers : Open(w) => run[w].cursor = checkpoint

\* A batch fills rows after the checkpoint and up to its next one, and all of those
\* but the ones that were committed since.
BatchOK(w) ==
    run[w].pc = "save" =>
        LET b == run[w].batch
        IN  /\ checkpoint <= b.next
            /\ \A i \in b.ids : checkpoint < i /\ i <= b.next
            /\ \A i \in Ids : checkpoint < i /\ i <= b.next /\ rows[i] = "null"
                 => i \in b.ids \cup behind

\* Only rows up to the checkpoint have been processed, each of them once.
FillsOK == \A i \in Ids : fills[i] <= 1 /\ (fills[i] = 1 => i <= checkpoint)

BackfillOK ==
    /\ Types /\ OneOpen /\ CursorIsCurrent
    /\ \A w \in Workers : BatchOK(w)
    /\ FillsOK /\ CheckpointCovers

\* The version table after the first n revisions.
HeadsOf(n) == IF n = 0 THEN {} ELSE {n}

JobType == [rev: {0, 1, 2, 3, 4, 6}, at: Nat \ {0}, lock: {"none", "queued", "held"},
            tx: Schema, building: BOOLEAN, made: BOOLEAN]

\* Before its call "at" the transaction of a revision sees in tx what its calls have
\* made of the catalog s.
Sees(tx, rev, at, s) ==
    /\ tx.table <=> s.table \/ rev = 1
    /\ tx.column = IF rev = 2 THEN "nullable"
                   ELSE IF rev = 4 /\ at >= 4 THEN "notnull" ELSE s.column
    /\ tx.check = IF rev # 4 THEN s.check
                  ELSE IF at = 2 THEN "not_valid" ELSE IF at \in {3, 4} THEN "valid" ELSE "none"
    /\ tx.index = s.index

\* A release job, in a database with n revisions and the catalog s, is never more than
\* one revision ahead.  Revision 3 takes no table lock; the others hold it from their
\* first call to their end, and a job that is not outdated sees what its own calls
\* have made of the catalog.
JobOK(m, n, s) ==
    /\ m.rev \in 0..4 /\ m.rev <= n + 1
    /\ m.rev \in {0, 3} => m.lock = "none"
    /\ m.rev \in {1, 2, 4} => (m.lock = "held" <=> m.at > 1)
    /\ m.building => m.rev = 3 /\ m.at = 1 /\ n = 2 /\ s.index = "invalid"
    /\ m.rev = 3 /\ m.at > 1 => s.index = "valid"
    /\ m.lock = "held" /\ m.rev = n + 1 => Sees(m.tx, m.rev, m.at, s)

RolloutTypes ==
    /\ schema \in Schema /\ heads \subseteq Revisions
    /\ mig \in [Deployers -> JobType] /\ app \in [Apps -> AppType]

\* Nobody else holds the table or builds its index at the same time.
TableOK ==
    \A d, e \in Deployers : d # e =>
        /\ ~(Holds(d) /\ (Holds(e) \/ mig[e].building))
        /\ ~(mig[d].building /\ mig[e].building)

\* The version table tells the truth, and every job is where it can be.
StageOK(n) ==
    heads = HeadsOf(n) /\ schema \in Applied(n) /\ \A d \in Deployers : JobOK(mig[d], n, schema)

\* A database that is given revision 6.
OtherOK == heads \in {{5}, {6}} /\ \A d \in Deployers : mig[d].rev \in {0, 6}

\* A process was let in by the schema check.
AppOK == \A a \in Apps : app[a].up => Compatible(app[a].seen, Policy(a))

RolloutOK ==
    /\ RolloutTypes /\ AppOK
    /\ Rollout => TableOK /\ \E n \in 0..4 : StageOK(n)
    /\ ~Rollout => OtherOK

MigrationOK == BackfillOK /\ RolloutOK

-----------------------------------------------------------------------------
(* The batch that process_batch takes.                                      *)

\* A set of ids has a greatest one.
LEMMA MaxExists ==
    ASSUME NEW n \in Nat, NEW S \in SUBSET (0..n), S # {}
    PROVE  Max(S) \in S /\ \A y \in S : y <= Max(S)
<1> DEFINE D == {k \in Nat : \E x \in S : k = n - x}
<1>1. D \subseteq Nat /\ D # {}
  <2>1. PICK x : x \in S
    OBVIOUS
  <2>2. x \in 0..n
    BY <2>1
  <2>3. n - x \in Nat
    BY <2>2
  <2>4. n - x \in D
    BY <2>1, <2>3
  <2> QED BY <2>4
<1>2. PICK d \in D : \A y \in D : ~(<<y, d>> \in OpToRel(<, Nat))
  BY <1>1, NatLessThanWellFounded, WFMin
<1>3. \A y \in D : d <= y
  <2> SUFFICES ASSUME NEW y \in D PROVE d <= y
    OBVIOUS
  <2>1. d \in Nat /\ y \in Nat
    OBVIOUS
  <2>2. ~(<<y, d>> \in OpToRel(<, Nat))
    BY <1>2
  <2>3. ~(y < d)
    BY <2>1, <2>2 DEF OpToRel
  <2> QED BY <2>1, <2>3
<1>4. PICK m \in S : d = n - m
  BY <1>2
<1>5. \A y \in S : m >= y
  BY <1>3, <1>4
<1>6. \E x \in S : \A y \in S : x >= y
  BY <1>5
<1>7. Max(S) \in S /\ \A y \in S : Max(S) >= y
  BY <1>6 DEF Max
<1> QED BY <1>7

\* The first rows after the cursor: the next cursor is the last of them, and no row
\* before it is left out.
LEMMA NextBatchOK ==
    ASSUME NEW cursor \in 0..MaxId
    PROVE  LET b == NextBatch(cursor)
           IN  /\ b \in BatchType /\ cursor <= b.next
               /\ \A i \in b.ids : cursor < i /\ i <= b.next
               /\ \A i \in Present : cursor < i /\ i <= b.next => i \in b.ids
<1> DEFINE after == {i \in Present : i > cursor}
           Upto(i) == {j \in after : j <= i}
           ids == {i \in after : Cardinality(Upto(i)) <= BatchSize}
           next == Max(ids \cup {cursor})
<1>1. /\ after \subseteq Ids /\ ids \subseteq after /\ Ids \subseteq Nat
      /\ MaxId \in Nat /\ BatchSize \in Nat
  BY BackfillAssumption DEF Present, Ids
<1>2. next \in ids \cup {cursor} /\ \A y \in ids \cup {cursor} : y <= next
  <2>1. ids \cup {cursor} \in SUBSET (0..MaxId)
    BY <1>1 DEF Ids
  <2> QED BY <1>1, <2>1, MaxExists
<1>3. next \in Nat /\ next <= MaxId
  BY <1>1, <1>2 DEF Ids
<1>4. ASSUME NEW i \in Present, cursor < i, i <= next PROVE i \in ids
  <2>1. i \in after /\ i \in Nat
    BY <1>1, <1>4 DEF Ids, Present
  <2>2. next \in ids /\ next \in after
    BY <1>2, <1>3, <1>4, <2>1
  <2>3. Upto(i) \subseteq Upto(next)
    <3> SUFFICES ASSUME NEW j \in Upto(i) PROVE j \in Upto(next)
      OBVIOUS
    <3>1. j \in after /\ j <= i /\ j \in Nat
      BY <1>1
    <3>2. j <= next
      <4> HIDE DEF next
      <4> QED BY <1>3, <1>4, <2>1, <3>1
    <3> QED BY <3>1, <3>2
  <2>4. IsFiniteSet(Upto(next))
    <3>1. Upto(next) \in SUBSET Nat /\ \A k \in Upto(next) : k <= MaxId
      BY <1>1 DEF Ids
    <3> HIDE DEF Upto
    <3> QED BY <1>1, <3>1, FS_BoundedSetOfNaturals
  <2>5. Cardinality(Upto(i)) <= Cardinality(Upto(next)) /\ IsFiniteSet(Upto(i))
    <3> HIDE DEF Upto
    <3> QED BY <2>3, <2>4, FS_Subset
  <2>6. Cardinality(Upto(next)) <= BatchSize
    BY <2>2
  <2>7. Cardinality(Upto(i)) \in Nat /\ Cardinality(Upto(next)) \in Nat
    BY <2>4, <2>5, FS_CardinalityType
  <2>8. Cardinality(Upto(i)) <= BatchSize
    <3> HIDE DEF Upto
    <3> QED BY <1>1, <2>5, <2>6, <2>7
  <2> QED BY <2>1, <2>8
<1>5. PICK b : b = NextBatch(cursor)
  OBVIOUS
<1>6. b.ids = ids /\ b.next = next /\ b \in BatchType
  <2>1. b = [ids |-> ids, next |-> next, done |-> Cardinality(ids) < BatchSize]
    BY <1>5 DEF NextBatch
  <2>2. ids \subseteq Ids
    BY <1>1
  <2> HIDE DEF ids, next
  <2> QED BY <1>3, <2>1, <2>2 DEF BatchType
<1>7. \A i \in ids : cursor < i /\ i <= next
  BY <1>1, <1>2
<1> HIDE DEF ids, next
<1> QED BY <1>2, <1>3, <1>4, <1>5, <1>6, <1>7

-----------------------------------------------------------------------------
(* Steps of the backfill.                                                   *)

\* A run that begins or ends holds no batch.
LEMMA NewRunOK ==
    ASSUME NEW pc \in {"idle", "load"}, NEW limit \in Limits, NEW batches \in Nat
    PROVE  NewRun(pc, limit, batches) \in RunType /\ NewRun(pc, limit, batches).pc = pc
<1>1. 0 \in 0..MaxId
  BY BackfillAssumption
<1>2. NoBatch \in BatchType
  BY <1>1 DEF NoBatch, BatchType
<1> QED BY <1>1, <1>2 DEF NewRun, RunType

\* The run of a worker that does nothing.
LEMMA IdleRunOK == IdleRun \in RunType /\ IdleRun.pc = "idle"
<1>1. (CHOOSE l \in Limits : TRUE) \in Limits
  BY BackfillAssumption
<1> QED BY <1>1, NewRunOK DEF IdleRun

\* One worker takes a step that leaves the table and the checkpoint alone.
LEMMA RunStep ==
    ASSUME BackfillOK, NEW w \in Workers, NEW new \in RunType,
           run' = [run EXCEPT ![w] = new],
           UNCHANGED <<rows, fills, checkpoint, app, behind>>,
           new.pc \in {"process", "save"} =>
               new.cursor = checkpoint /\ \A v \in Workers \ {w} : ~Open(v),
           new.pc = "save" =>
               /\ checkpoint <= new.batch.next
               /\ \A i \in new.batch.ids : checkpoint < i /\ i <= new.batch.next
               /\ \A i \in Ids : checkpoint < i /\ i <= new.batch.next /\ rows[i] = "null"
                    => i \in new.batch.ids \cup behind
    PROVE  BackfillOK'
<1>1. /\ run' \in [Workers -> RunType] /\ run'[w] = new
      /\ \A v \in Workers : v # w => run'[v] = run[v]
  BY DEF BackfillOK, Types
<1>2. Types'
  BY <1>1 DEF BackfillOK, Types, Apps, Ids
<1>3. OneOpen'
  BY <1>1 DEF BackfillOK, OneOpen, Open
<1>4. CursorIsCurrent'
  BY <1>1 DEF BackfillOK, CursorIsCurrent, Open
<1>5. ASSUME NEW v \in Workers PROVE BatchOK(v)'
  BY <1>1 DEF BackfillOK, BatchOK
<1>6. FillsOK' /\ CheckpointCovers'
  BY DEF BackfillOK, FillsOK, CheckpointCovers
<1> QED BY <1>2, <1>3, <1>4, <1>5, <1>6 DEF BackfillOK

\* The run of a worker ends, and its transaction with it.
LEMMA FailedOK ==
    ASSUME BackfillOK, NEW w \in Workers, Failed(w),
           UNCHANGED <<rows, fills, checkpoint, app, behind>>
    PROVE  BackfillOK'
<1>1. PICK new \in RunType : new = IdleRun /\ new.pc = "idle"
  BY IdleRunOK
<1>2. run' = [run EXCEPT ![w] = new]
  BY <1>1 DEF Failed
<1> QED BY <1>1, <1>2, RunStep

\* The batch and its checkpoint are committed together.
LEMMA ApplyStep ==
    ASSUME BackfillOK, NEW w \in Workers, run[w].pc = "save", Apply(run[w].batch),
           NEW new \in RunType, new.pc \in {"idle", "load"},
           run' = [run EXCEPT ![w] = new], UNCHANGED <<app, behind>>
    PROVE  BackfillOK'
<1>1. /\ run' \in [Workers -> RunType] /\ run'[w] = new
      /\ \A v \in Workers : v # w => run'[v] = run[v]
  BY DEF BackfillOK, Types
<1>2. PICK b \in BatchType : b = run[w].batch
  BY DEF BackfillOK, Types, RunType
<1>3. /\ rows' = [i \in Ids |-> IF i \in b.ids THEN "filled" ELSE rows[i]]
      /\ fills' = [i \in Ids |-> IF i \in b.ids THEN fills[i] + 1 ELSE fills[i]]
      /\ checkpoint' = b.next
  BY <1>2 DEF Apply
<1>4. /\ b.next \in 0..MaxId /\ b.ids \subseteq Ids
      /\ checkpoint \in Nat /\ b.next \in Nat /\ Ids \subseteq Nat
  BY <1>2, BackfillAssumption DEF BatchType, BackfillOK, Types, Ids
<1>5. /\ checkpoint <= b.next
      /\ \A i \in b.ids : checkpoint < i /\ i <= b.next
      /\ \A i \in Ids : checkpoint < i /\ i <= b.next /\ rows[i] = "null"
           => i \in b.ids \cup behind
  BY <1>2 DEF BackfillOK, BatchOK
<1>6. Types'
  <2>1. rows' \in [Ids -> RowStates]
    BY <1>3 DEF BackfillOK, Types, RowStates
  <2>2. fills' \in [Ids -> Nat]
    BY <1>3 DEF BackfillOK, Types
  <2> QED BY <1>1, <1>3, <1>4, <2>1, <2>2 DEF BackfillOK, Types
<1>7. \A v \in Workers : ~Open(v)'
  BY <1>1 DEF BackfillOK, OneOpen, Open
<1>8. OneOpen' /\ CursorIsCurrent' /\ \A v \in Workers : BatchOK(v)'
  BY <1>7 DEF OneOpen, CursorIsCurrent, BatchOK, Open
<1>9. FillsOK'
  <2> SUFFICES ASSUME NEW i \in Ids
               PROVE  fills'[i] <= 1 /\ (fills'[i] = 1 => i <= checkpoint')
    BY DEF FillsOK
  <2>1. fills[i] \in Nat /\ fills[i] <= 1 /\ (fills[i] = 1 => i <= checkpoint) /\ i \in Nat
    BY <1>4 DEF BackfillOK, Types, FillsOK
  <2>2. CASE i \in b.ids
    BY <1>3, <1>4, <1>5, <2>1, <2>2
  <2>3. CASE i \notin b.ids
    BY <1>3, <1>4, <1>5, <2>1, <2>3
  <2> QED BY <2>2, <2>3
<1>10. CheckpointCovers'
  <2> SUFFICES ASSUME NEW i \in Ids, i <= checkpoint', rows'[i] = "null"
               PROVE  i \in behind
    BY DEF CheckpointCovers
  <2>1. i \notin b.ids /\ rows[i] = "null" /\ i <= b.next /\ i \in Nat
    BY <1>3, <1>4
  <2>2. CASE i <= checkpoint
    BY <2>1, <2>2 DEF BackfillOK, CheckpointCovers
  <2>3. CASE checkpoint < i
    BY <1>5, <2>1, <2>3
  <2> QED BY <1>4, <2>1, <2>2, <2>3
<1> QED BY <1>6, <1>8, <1>9, <1>10 DEF BackfillOK

\* A run is started.
LEMMA StartRunOK ==
    ASSUME BackfillOK, NEW w \in Workers, StartRun(w), UNCHANGED <<app, behind>>
    PROVE  BackfillOK'
<1>1. PICK limit \in Limits : run' = [run EXCEPT ![w] = NewRun("load", limit, 0)]
  BY DEF StartRun
<1>2. PICK new \in RunType : new = NewRun("load", limit, 0) /\ new.pc = "load"
  BY NewRunOK
<1>3. UNCHANGED <<rows, fills, checkpoint, app, behind>>
  BY DEF StartRun
<1> QED BY <1>1, <1>2, <1>3, RunStep

\* load_checkpoint, under the advisory lock.
LEMMA LoadCheckpointOK ==
    ASSUME BackfillOK, NEW w \in Workers, LoadCheckpoint(w), UNCHANGED <<app, behind>>
    PROVE  BackfillOK'
<1>1. UNCHANGED <<rows, fills, checkpoint, app, behind>>
  BY DEF LoadCheckpoint
<1>2. CASE ~LockFree
  BY <1>1, <1>2, FailedOK DEF LoadCheckpoint
<1>3. CASE LockFree
  <2>1. PICK new : new = [run[w] EXCEPT !.pc = "process", !.cursor = checkpoint]
    OBVIOUS
  <2>2. run \in [Workers -> RunType] /\ checkpoint \in 0..MaxId /\ run[w] \in RunType
    BY DEF BackfillOK, Types
  <2>3. new \in RunType /\ new.pc = "process" /\ new.cursor = checkpoint
    BY <2>1, <2>2 DEF RunType
  <2>4. run' = [run EXCEPT ![w] = new]
    BY <1>3, <2>1, <2>2 DEF LoadCheckpoint
  <2>5. \A v \in Workers \ {w} : ~Open(v)
    BY <1>3 DEF LockFree, Open
  <2> QED BY <1>1, <2>3, <2>4, <2>5, RunStep
<1> QED BY <1>2, <1>3

\* process_batch: a stuck answer is refused, the other one covers what it passes.
LEMMA ProcessBatchOK ==
    ASSUME BackfillOK, NEW w \in Workers, ProcessBatch(w), UNCHANGED <<app, behind>>
    PROVE  BackfillOK'
<1>1. UNCHANGED <<rows, fills, checkpoint, app, behind>> /\ run[w].pc = "process"
  BY DEF ProcessBatch
<1>2. CASE Failed(w)
  BY <1>1, <1>2, FailedOK
<1>3. CASE ~Failed(w)
  <2>1. PICK cursor \in 0..MaxId : cursor = run[w].cursor
    BY DEF BackfillOK, Types, RunType
  <2>2. cursor = checkpoint
    BY <1>1, <2>1 DEF BackfillOK, CursorIsCurrent, Open
  <2>3. PICK b, processed :
          /\ b \in {NextBatch(cursor), StuckBatch(cursor)}
          /\ processed \in {-1, Cardinality(b.ids)}
          /\ ValidBatch(b, processed, cursor)
          /\ run' = [run EXCEPT ![w].pc = "save", ![w].batch = b]
    BY <1>3, <2>1 DEF ProcessBatch
  <2>4. b # StuckBatch(cursor)
    <3>1. ASSUME b = StuckBatch(cursor) PROVE FALSE
      <4>1. b.ids = {} /\ ~b.done /\ b.next = cursor
        BY <3>1 DEF StuckBatch
      <4>2. Cardinality(b.ids) = 0
        BY <4>1, FS_EmptySet
      <4> QED BY <2>3, <4>1, <4>2 DEF ValidBatch
    <3> QED BY <3>1
  <2>5. /\ b \in BatchType /\ cursor <= b.next
        /\ \A i \in b.ids : cursor < i /\ i <= b.next
        /\ \A i \in Present : cursor < i /\ i <= b.next => i \in b.ids
    BY <2>1, <2>3, <2>4, NextBatchOK
  <2>6. PICK new : new = [run[w] EXCEPT !.pc = "save", !.batch = b]
    OBVIOUS
  <2>7. /\ new \in RunType /\ new.pc = "save" /\ new.cursor = cursor /\ new.batch = b
    BY <2>1, <2>5, <2>6 DEF BackfillOK, Types, RunType
  <2>8. run' = [run EXCEPT ![w] = new]
    BY <2>3, <2>6 DEF BackfillOK, Types
  <2>9. \A v \in Workers \ {w} : ~Open(v)
    BY <1>1 DEF BackfillOK, OneOpen, Open
  <2>10. \A i \in Ids : rows[i] = "null" => i \in Present
    BY DEF Present
  <2> QED BY <1>1, <2>2, <2>5, <2>7, <2>8, <2>9, <2>10, RunStep
<1> QED BY <1>2, <1>3

\* COMMIT: the loop goes on, or the run returns.
LEMMA CommitBatchOK ==
    ASSUME BackfillOK, NEW w \in Workers, CommitBatch(w), UNCHANGED <<app, behind>>
    PROVE  BackfillOK'
<1>1. PICK new : new = AfterBatch(run[w])
  OBVIOUS
<1>2. run' = [run EXCEPT ![w] = new] /\ run[w].pc = "save" /\ Apply(run[w].batch)
  BY <1>1 DEF CommitBatch
<1>3. run[w].limit \in Limits /\ run[w].batches \in Nat
  BY DEF BackfillOK, Types, RunType
<1>4. PICK n \in Nat : n = IF run[w].limit = 0 THEN 0 ELSE run[w].batches + 1
  BY <1>3
<1>5. new = IdleRun \/ new = NewRun("load", run[w].limit, n)
  BY <1>1, <1>4 DEF AfterBatch
<1>6. new \in RunType /\ new.pc \in {"idle", "load"}
  BY <1>3, <1>4, <1>5, IdleRunOK, NewRunOK
<1> QED BY <1>2, <1>6, ApplyStep

\* The answer of that COMMIT is lost.
LEMMA LoseCommitOK ==
    ASSUME BackfillOK, NEW w \in Workers, LoseCommit(w), UNCHANGED <<app, behind>>
    PROVE  BackfillOK'
<1>1. CASE Apply(run[w].batch)
  <2>1. PICK new \in RunType : new = IdleRun /\ new.pc = "idle"
    BY IdleRunOK
  <2>2. run' = [run EXCEPT ![w] = new] /\ run[w].pc = "save"
    BY <2>1 DEF LoseCommit, Failed
  <2> QED BY <1>1, <2>1, <2>2, ApplyStep
<1>2. CASE UNCHANGED <<rows, fills, checkpoint>>
  BY <1>2, FailedOK DEF LoseCommit
<1> QED BY <1>1, <1>2 DEF LoseCommit

\* A worker's step of the rollout.
LEMMA BackfillStepOK ==
    ASSUME BackfillOK, NEW w \in Workers, BackfillStep(w)
    PROVE  BackfillOK'
<1>1. UNCHANGED <<app, behind>>
  BY DEF BackfillStep, rolloutVars
<1>2. CASE StartRun(w)
  BY <1>1, <1>2, StartRunOK
<1>3. CASE LoadCheckpoint(w)
  BY <1>1, <1>3, LoadCheckpointOK
<1>4. CASE ProcessBatch(w)
  BY <1>1, <1>4, ProcessBatchOK
<1>5. CASE CommitBatch(w)
  BY <1>1, <1>5, CommitBatchOK
<1>6. CASE LoseCommit(w)
  BY <1>1, <1>6, LoseCommitOK
<1>7. CASE CrashRun(w)
  BY <1>1, <1>7, FailedOK DEF CrashRun
<1> QED BY <1>2, <1>3, <1>4, <1>5, <1>6, <1>7 DEF BackfillStep

-----------------------------------------------------------------------------
(* Steps of the application processes.                                      *)

\* A row that becomes one to be filled is one no batch has passed, or is behind.
LEMMA RowStep ==
    ASSUME BackfillOK, UNCHANGED <<fills, checkpoint, run>>,
           rows' \in [Ids -> RowStates], app' \in [Apps -> AppType],
           behind \subseteq behind', behind' \subseteq Ids,
           \A i \in Ids : rows'[i] = "null"
               => rows[i] = "null" \/ i \in behind' \/ ~Passed(i)
    PROVE  BackfillOK'
<1>1. Types'
  BY DEF BackfillOK, Types
<1>2. OneOpen' /\ CursorIsCurrent' /\ FillsOK'
  BY DEF BackfillOK, OneOpen, CursorIsCurrent, FillsOK, Open
<1>3. CheckpointCovers'
  BY DEF BackfillOK, CheckpointCovers, Passed
<1>4. ASSUME NEW w \in Workers PROVE BatchOK(w)'
  <2> SUFFICES ASSUME run[w].pc = "save", NEW i \in Ids, checkpoint < i,
                      i <= run[w].batch.next, rows'[i] = "null"
               PROVE  i \in run[w].batch.ids \cup behind'
    BY DEF BackfillOK, BatchOK
  <2>1. Passed(i)
    BY DEF Passed
  <2> QED BY <2>1 DEF BackfillOK, BatchOK
<1> QED BY <1>1, <1>2, <1>3, <1>4 DEF BackfillOK

-----------------------------------------------------------------------------
(* The revisions of the rollout.                                            *)

\* The calls of enforce_not_null.
LEMMA EnforceCalls ==
    ASSUME NEW table
    PROVE  LET body == enforce_not_null(table)
           IN  /\ Len(body) = 4 /\ DOMAIN body = 1..4
               /\ body[1] = Call("create_check_constraint", table, {"helper", "not_valid"})
               /\ body[2] = Call("execute", table, {"helper", "validate"})
               /\ body[3] = Call("alter_column", table, {"helper", "non_null"})
               /\ body[4] = Call("drop_constraint", table, {"helper"})
BY DEF enforce_not_null, add_check_constraint_not_valid, validate_constraint

\* The calls of the rollout.
LEMMA BodyCalls ==
    /\ Len(Body(1)) = 1 /\ Body(1)[1] = Call("create_table", "t", {})
    /\ Len(Body(2)) = 1 /\ Body(2)[1] = Call("add_column", "t", {})
    /\ Len(Body(3)) = 1
    /\ Body(3)[1] = Call("create_index", "t", {"helper", "concurrently", "autocommit"})
    /\ Len(Body(4)) = 4
    /\ Body(4)[1] = Call("create_check_constraint", "t", {"helper", "not_valid"})
    /\ Body(4)[2] = Call("execute", "t", {"helper", "validate"})
    /\ Body(4)[3] = Call("alter_column", "t", {"helper", "non_null"})
    /\ Body(4)[4] = Call("drop_constraint", "t", {"helper"})
<1>1. Body(4) = enforce_not_null("t")
  BY DEF Body
<1>2. Body(1) = <<Call("create_table", "t", {})>> /\ Body(2) = <<Call("add_column", "t", {})>>
  BY DEF Body
<1>3. Body(3) = <<Call("create_index", "t", {"helper", "concurrently", "autocommit"})>>
  BY DEF Body, create_index_concurrently
<1> QED BY <1>1, <1>2, <1>3, EnforceCalls

\* Revision 3 is one CREATE INDEX CONCURRENTLY; the others are calls in a transaction.
\* None is in a branch, and all are about table t.
LEMMA CallKinds ==
    ASSUME NEW rev \in 1..4, NEW at \in 1..Len(Body(rev))
    PROVE  /\ Concurrent(Body(rev)[at]) <=> rev = 3
           /\ ~Has(Body(rev)[at], "if") /\ Body(rev)[at].table = "t"
<1>1. CASE rev = 1
  <2>1. at = 1
    <3>1. Len(Body(rev)) = 1
      BY <1>1, BodyCalls
    <3> QED BY <3>1
  <2> QED BY <1>1, <2>1, BodyCalls DEF Concurrent, Has, Call
<1>2. CASE rev = 2
  <2>1. at = 1
    <3>1. Len(Body(rev)) = 1
      BY <1>2, BodyCalls
    <3> QED BY <3>1
  <2> QED BY <1>2, <2>1, BodyCalls DEF Concurrent, Has, Call
<1>3. CASE rev = 3
  <2>1. at = 1
    <3>1. Len(Body(rev)) = 1
      BY <1>3, BodyCalls
    <3> QED BY <3>1
  <2> QED BY <1>3, <2>1, BodyCalls DEF Concurrent, Has, Call
<1>4. CASE rev = 4
  <2>1. at = 1 \/ at = 2 \/ at = 3 \/ at = 4
    <3>1. Len(Body(rev)) = 4
      BY <1>4, BodyCalls
    <3> QED BY <3>1
  <2> QED BY <1>4, <2>1, BodyCalls DEF Concurrent, Has, Call
<1> QED BY <1>1, <1>2, <1>3, <1>4

\* A call of the rollout makes of the catalog what Sees says.
LEMMA CallEffect ==
    ASSUME NEW rev \in {1, 2, 4}, NEW at \in 1..Len(Body(rev)), NEW s \in Schema,
           NEW tx \in Schema, at = 1 => tx = s, at > 1 => Sees(tx, rev, at, s)
    PROVE  Sees(AfterCall(Body(rev)[at], tx), rev, at + 1, s)
<1>1. CASE rev = 1
  <2>1. at = 1 /\ Body(rev)[at] = Call("create_table", "t", {})
    <3>1. Len(Body(rev)) = 1
      BY <1>1, BodyCalls
    <3>2. at = 1
      BY <3>1
    <3> QED BY <1>1, <3>2, BodyCalls
  <2>2. AfterCall(Body(rev)[at], tx) = [s EXCEPT !.table = TRUE]
    BY <2>1 DEF AfterCall, Call, Has
  <2> QED BY <1>1, <2>2 DEF Sees, Schema
<1>2. CASE rev = 2
  <2>1. at = 1 /\ Body(rev)[at] = Call("add_column", "t", {})
    <3>1. Len(Body(rev)) = 1
      BY <1>2, BodyCalls
    <3>2. at = 1
      BY <3>1
    <3> QED BY <1>2, <3>2, BodyCalls
  <2>2. AfterCall(Body(rev)[at], tx) = [s EXCEPT !.column = "nullable"]
    BY <2>1 DEF AfterCall, Call, Has
  <2> QED BY <1>2, <2>2 DEF Sees, Schema
<1>3. CASE rev = 4
  <2>1. at = 1 \/ at = 2 \/ at = 3 \/ at = 4
    <3>1. Len(Body(rev)) = 4
      BY <1>3, BodyCalls
    <3> QED BY <3>1
  <2>2. CASE at = 1
    <3>1. Body(rev)[at] = Call("create_check_constraint", "t", {"helper", "not_valid"})
      BY <1>3, <2>2, BodyCalls
    <3>2. AfterCall(Body(rev)[at], tx) = [s EXCEPT !.check = "not_valid"]
      BY <2>2, <3>1 DEF AfterCall, Call, Has
    <3> QED BY <1>3, <2>2, <3>2 DEF Sees, Schema
  <2>3. CASE at = 2
    <3>1. Body(rev)[at] = Call("execute", "t", {"helper", "validate"})
      BY <1>3, <2>3, BodyCalls
    <3>2. AfterCall(Body(rev)[at], tx) = [tx EXCEPT !.check = "valid"]
      BY <3>1 DEF AfterCall, Call, Has
    <3> QED BY <1>3, <2>3, <3>2 DEF Sees, Schema
  <2>4. CASE at = 3
    <3>1. Body(rev)[at] = Call("alter_column", "t", {"helper", "non_null"})
      BY <1>3, <2>4, BodyCalls
    <3>2. AfterCall(Body(rev)[at], tx) = [tx EXCEPT !.column = "notnull"]
      BY <3>1 DEF AfterCall, Call, Has
    <3> QED BY <1>3, <2>4, <3>2 DEF Sees, Schema
  <2>5. CASE at = 4
    <3>1. Body(rev)[at] = Call("drop_constraint", "t", {"helper"})
      BY <1>3, <2>5, BodyCalls
    <3>2. AfterCall(Body(rev)[at], tx) = [tx EXCEPT !.check = "none"]
      BY <3>1 DEF AfterCall, Call, Has
    <3> QED BY <1>3, <2>5, <3>2 DEF Sees, Schema
  <2> QED BY <2>1, <2>2, <2>3, <2>4, <2>5
<1> QED BY <1>1, <1>2, <1>3

\* When a job of revision n + 1 has made its calls, its catalog is that of n + 1 revisions.
LEMMA SeesApplied ==
    ASSUME NEW n \in 0..3, n # 2, NEW s \in Applied(n), NEW at \in Nat, n = 3 => at > 4,
           NEW tx \in Schema, Sees(tx, n + 1, at, s)
    PROVE  tx \in Applied(n + 1)
<1>1. s \in Schema /\ (s.table <=> n >= 1) /\ s.check = "none"
  BY DEF Applied
<1>2. tx.table = (n + 1 >= 1)
  <2>1. tx.table
    BY <1>1 DEF Sees
  <2>2. tx.table = TRUE
    BY <2>1 DEF Schema
  <2>3. (n + 1 >= 1) = TRUE
    OBVIOUS
  <2> QED BY <2>2, <2>3
<1>3. CASE n = 0
  BY <1>2, <1>3 DEF Sees, Applied
<1>4. CASE n = 1
  BY <1>2, <1>4 DEF Sees, Applied
<1>5. CASE n = 3
  BY <1>2, <1>5 DEF Sees, Applied
<1> QED BY <1>3, <1>4, <1>5

\* A call leaves a catalog.
LEMMA AfterCallType ==
    ASSUME NEW call, NEW s \in Schema
    PROVE  AfterCall(call, s) \in Schema
<1>1. NoSchema \in Schema
  BY DEF NoSchema, Schema
<1>2. /\ \A x \in BOOLEAN : [s EXCEPT !.table = x] \in Schema
      /\ \A x \in {"absent", "nullable", "notnull"} : [s EXCEPT !.column = x] \in Schema
      /\ \A x \in {"none", "not_valid", "valid"} : [s EXCEPT !.check = x] \in Schema
      /\ \A x \in {"none", "invalid", "valid"} : [s EXCEPT !.index = x] \in Schema
  BY DEF Schema
<1> QED BY <1>1, <1>2 DEF AfterCall

-----------------------------------------------------------------------------
(* Steps of the release jobs.                                               *)

\* The job holds the table, or builds its index, alone.
Alone(d) == \A e \in Deployers \ {d} : ~Holds(e) /\ ~mig[e].building

\* One job takes a step.
LEMMA CatalogStep ==
    ASSUME RolloutOK, NEW d \in Deployers, NEW new \in JobType,
           mig' = [mig EXCEPT ![d] = new], UNCHANGED <<app, program>>,
           schema' \in Schema, heads' \subseteq Revisions,
           Rollout => (new.lock = "held" \/ new.building => Alone(d)),
           Rollout => \E n \in 0..4 :
               /\ heads' = HeadsOf(n) /\ schema' \in Applied(n) /\ JobOK(new, n, schema')
               /\ \A e \in Deployers \ {d} : JobOK(mig[e], n, schema'),
           ~Rollout => heads' \in {{5}, {6}} /\ new.rev \in {0, 6}
    PROVE  RolloutOK'
<1>1. /\ mig' \in [Deployers -> JobType] /\ mig'[d] = new
      /\ \A e \in Deployers : e # d => mig'[e] = mig[e]
  BY DEF RolloutOK, RolloutTypes
<1>2. RolloutTypes' /\ AppOK' /\ (Rollout' <=> Rollout)
  BY <1>1 DEF RolloutOK, RolloutTypes, AppOK, Rollout
<1>3. ASSUME Rollout PROVE TableOK'
  BY <1>1, <1>3 DEF RolloutOK, TableOK, Alone, Holds
<1>4. ASSUME Rollout PROVE \E n \in 0..4 : StageOK(n)'
  <2>1. PICK n \in 0..4 :
          /\ heads' = HeadsOf(n) /\ schema' \in Applied(n) /\ JobOK(new, n, schema')
          /\ \A e \in Deployers \ {d} : JobOK(mig[e], n, schema')
    BY <1>4
  <2>2. \A e \in Deployers : JobOK(mig'[e], n, schema')
    BY <1>1, <2>1
  <2> QED BY <2>1, <2>2 DEF StageOK
<1>5. ASSUME ~Rollout PROVE OtherOK'
  BY <1>1, <1>5 DEF RolloutOK, OtherOK
<1> QED BY <1>2, <1>3, <1>4, <1>5 DEF RolloutOK

\* The same, where the catalog and the version table stay.
LEMMA JobStep ==
    ASSUME RolloutOK, NEW d \in Deployers, NEW new \in JobType,
           mig' = [mig EXCEPT ![d] = new], UNCHANGED <<schema, heads, app, program>>,
           Rollout => (new.lock = "held" \/ new.building => Alone(d)),
           Rollout => \A n \in 0..4 : StageOK(n) => JobOK(new, n, schema),
           ~Rollout => new.rev \in {0, 6}
    PROVE  RolloutOK'
<1>1. schema' \in Schema /\ heads' \subseteq Revisions
  BY DEF RolloutOK, RolloutTypes
<1>2. ASSUME Rollout
      PROVE  \E n \in 0..4 :
               /\ heads' = HeadsOf(n) /\ schema' \in Applied(n) /\ JobOK(new, n, schema')
               /\ \A e \in Deployers \ {d} : JobOK(mig[e], n, schema')
  BY <1>2 DEF RolloutOK, StageOK
<1>3. ~Rollout => heads' \in {{5}, {6}}
  BY DEF RolloutOK, OtherOK
<1> QED BY <1>1, <1>2, <1>3, CatalogStep

\* A job that does nothing.
LEMMA IdleOK ==
    /\ Idle \in JobType /\ Idle.rev = 0 /\ Idle.lock = "none" /\ ~Idle.building
    /\ \A n \in 0..4 : \A s : JobOK(Idle, n, s)
<1>1. NoSchema \in Schema
  BY DEF NoSchema, Schema
<1>2. /\ Idle \in JobType /\ Idle.rev = 0 /\ Idle.lock = "none" /\ ~Idle.building
  BY <1>1 DEF Idle, Deploy, JobType
<1> QED BY <1>2 DEF JobOK

\* A job that begins with a revision at most one ahead.
LEMMA DeployOK ==
    ASSUME NEW rev \in {1, 2, 3, 4, 6}
    PROVE  /\ Deploy(rev) \in JobType /\ Deploy(rev).rev = rev
           /\ Deploy(rev).lock = "none" /\ ~Deploy(rev).building
           /\ \A n \in 0..4 : \A s : rev \in 1..(n + 1) /\ rev \in 1..4 => JobOK(Deploy(rev), n, s)
<1>1. NoSchema \in Schema
  BY DEF NoSchema, Schema
<1>2. PICK m : m = Deploy(rev)
  OBVIOUS
<1>3. /\ m \in JobType /\ m.rev = rev /\ m.lock = "none" /\ ~m.building /\ m.at = 1
  BY <1>1, <1>2 DEF Deploy, JobType
<1>4. \A n \in 0..4 : \A s : rev \in 1..(n + 1) /\ rev \in 1..4 => JobOK(m, n, s)
  BY <1>3 DEF JobOK
<1> QED BY <1>2, <1>3, <1>4

\* A job ends without a trace: it fails, dies, or finds its revision stamped.
LEMMA EndJobOK ==
    ASSUME RolloutOK, NEW d \in Deployers, mig' = [mig EXCEPT ![d] = Idle],
           UNCHANGED <<schema, heads, app, program>>
    PROVE  RolloutOK'
<1>1. PICK new \in JobType : new = Idle
  BY IdleOK
<1> QED BY <1>1, IdleOK, JobStep

\* The revision after the first n is n + 1.
LEMMA DownRevisionOf ==
    ASSUME NEW n \in Nat, NEW rev \in Nat \ {0}, HeadsOf(n) = DownRevision(rev)
    PROVE  rev = n + 1
<1>1. CASE n = 0
  <2>1. DownRevision(rev) = {}
    BY <1>1 DEF HeadsOf
  <2> QED BY <1>1, <2>1 DEF DownRevision
<1>2. CASE n # 0
  <2>1. n \in DownRevision(rev)
    BY <1>2 DEF HeadsOf
  <2> QED BY <2>1 DEF DownRevision
<1> QED BY <1>1, <1>2

\* alembic upgrade head begins with the revision after the stamped one.
LEMMA UpgradeOK ==
    ASSUME RolloutOK, NEW d \in Deployers, Upgrade(d)
    PROVE  RolloutOK'
<1>1. PICK rev \in Revisions \ {5} :
        heads = DownRevision(rev) /\ mig' = [mig EXCEPT ![d] = Deploy(rev)]
  BY DEF Upgrade
<1>2. rev \in {1, 2, 3, 4, 6}
  BY <1>1 DEF Revisions
<1>3. PICK new \in JobType : new = Deploy(rev) /\ new.rev = rev
  BY <1>2, DeployOK
<1>4. UNCHANGED <<schema, heads, app, program>>
  BY DEF Upgrade
<1>5. ASSUME Rollout, NEW n \in 0..4, StageOK(n) PROVE JobOK(new, n, schema)
  <2>1. HeadsOf(n) = DownRevision(rev)
    BY <1>1, <1>5 DEF StageOK
  <2>2. rev = n + 1
    BY <1>2, <2>1, DownRevisionOf
  <2> QED BY <1>2, <1>3, <2>2, DeployOK
<1>6. ~Rollout => new.rev \in {0, 6}
  BY <1>1, <1>2, <1>3 DEF RolloutOK, OtherOK, DownRevision
<1> QED BY <1>1, <1>2, <1>3, <1>4, <1>5, <1>6, JobStep, DeployOK

\* The job is at a call of the rollout.
LEMMA JobAtCall ==
    ASSUME RolloutOK, Rollout, NEW d \in Deployers, AtCall(d)
    PROVE  /\ mig[d].rev \in 1..4 /\ mig[d].at \in 1..Len(Body(mig[d].rev))
           /\ Concurrent(CurrentCall(d)) <=> mig[d].rev = 3
           /\ ~Has(CurrentCall(d), "if") /\ CurrentCall(d).table = "t"
<1>1. PICK rev \in 1..4 : rev = mig[d].rev
  BY DEF RolloutOK, StageOK, JobOK, AtCall
<1>2. PICK at \in Nat \ {0} : at = mig[d].at
  BY DEF RolloutOK, RolloutTypes, JobType
<1>3. at <= Len(Body(rev)) /\ CurrentCall(d) = Body(rev)[at]
  BY <1>1, <1>2 DEF AtCall, CurrentCall
<1>4. Len(Body(rev)) \in Nat
  <2>1. rev = 1 \/ rev = 2 \/ rev = 3 \/ rev = 4
    BY <1>1
  <2> QED BY <2>1, BodyCalls
<1>5. at \in 1..Len(Body(rev))
  BY <1>2, <1>3, <1>4
<1>6. /\ Concurrent(CurrentCall(d)) <=> rev = 3
      /\ ~Has(CurrentCall(d), "if") /\ CurrentCall(d).table = "t"
  BY <1>1, <1>3, <1>5, CallKinds
<1> QED BY <1>1, <1>2, <1>5, <1>6

\* A call asks for its lock.
LEMMA RequestLockOK ==
    ASSUME RolloutOK, NEW d \in Deployers, RequestLock(d)
    PROVE  RolloutOK'
<1>1. PICK old \in JobType : old = mig[d]
  BY DEF RolloutOK, RolloutTypes
<1>2. PICK new : new = [old EXCEPT !.lock = "queued"]
  OBVIOUS
<1>3. /\ new \in JobType /\ new.rev = old.rev /\ new.at = old.at /\ new.lock = "queued"
      /\ new.building = old.building
  BY <1>1, <1>2 DEF JobType
<1>4. /\ AtCall(d) /\ ~Concurrent(CurrentCall(d)) /\ old.lock = "none"
      /\ UNCHANGED <<schema, heads, app, program>>
  BY <1>1 DEF RequestLock
<1>5. mig' = [mig EXCEPT ![d] = new]
  BY <1>1, <1>2 DEF RequestLock, RolloutOK, RolloutTypes
<1>6. ASSUME Rollout, NEW n \in 0..4, StageOK(n) PROVE JobOK(new, n, schema) /\ ~new.building
  <2>1. old.rev \in 1..4 /\ old.rev # 3
    BY <1>1, <1>4, <1>6, JobAtCall
  <2>2. JobOK(old, n, schema)
    BY <1>1, <1>6 DEF StageOK
  <2> QED BY <1>3, <1>4, <2>1, <2>2 DEF JobOK
<1>7. ~Rollout => new.rev \in {0, 6}
  BY <1>1, <1>3 DEF RolloutOK, OtherOK
<1>8. Rollout => ~new.building
  BY <1>6 DEF RolloutOK
<1> QED BY <1>3, <1>4, <1>5, <1>6, <1>7, <1>8, JobStep

\* A call in the transaction of its revision.
LEMMA ExecuteOK ==
    ASSUME RolloutOK, NEW d \in Deployers, Execute(d)
    PROVE  RolloutOK'
<1>1. PICK old \in JobType : old = mig[d]
  BY DEF RolloutOK, RolloutTypes
<1>2. PICK call : call = CurrentCall(d)
  OBVIOUS
<1>3. PICK s \in Schema : s = View(d)
  BY <1>1 DEF View, RolloutOK, RolloutTypes, JobType
<1>4. PICK tx \in Schema : tx = AfterCall(call, s)
  BY <1>3, AfterCallType
<1>5. PICK made \in BOOLEAN : made = (old.made \/ (call.op = "create_table" /\ call.table = "n"))
  OBVIOUS
<1>6. PICK new : new = [old EXCEPT !.at = old.at + 1, !.lock = "held", !.tx = tx, !.made = made]
  OBVIOUS
<1>7. /\ new \in JobType /\ new.rev = old.rev /\ new.at = old.at + 1 /\ new.lock = "held"
      /\ new.tx = tx /\ new.building = old.building
  <2>1. PICK at \in Nat \ {0} : at = old.at + 1
    BY <1>1 DEF JobType
  <2>2. new = [old EXCEPT !.at = at, !.lock = "held", !.tx = tx, !.made = made]
    BY <1>6, <2>1
  <2>3. /\ new \in JobType /\ new.rev = old.rev /\ new.at = at /\ new.lock = "held"
        /\ new.tx = tx /\ new.building = old.building
    BY <1>1, <1>4, <1>5, <2>1, <2>2 DEF JobType
  <2> QED BY <2>1, <2>3
<1>8. /\ AtCall(d) /\ ~Concurrent(CurrentCall(d)) /\ old.lock # "none" /\ ~TableInUse(d)
      /\ UNCHANGED <<schema, heads, app, program>>
  BY <1>1 DEF Execute
<1>9. Alone(d)
  BY <1>8 DEF TableInUse, Alone
<1>10. CASE mig' = [mig EXCEPT ![d] = Idle]
  BY <1>8, <1>10, EndJobOK
<1>11. CASE mig' = [mig EXCEPT ![d] = new]
  <2>1. ASSUME Rollout, NEW n \in 0..4, StageOK(n) PROVE JobOK(new, n, schema)
    <3>1. PICK rev \in {1, 2, 4} : rev = old.rev
      <4>1. old.rev \in 1..4 /\ old.rev # 3
        BY <1>1, <1>8, <2>1, JobAtCall
      <4> QED BY <4>1
    <3>2. PICK at \in 1..Len(Body(rev)) : at = old.at
      BY <1>1, <1>8, <2>1, <3>1, JobAtCall
    <3>3. call = Body(rev)[at] /\ at \in Nat \ {0}
      BY <1>1, <1>2, <3>1, <3>2 DEF CurrentCall, JobType
    <3>4. JobOK(old, n, schema)
      BY <1>1, <2>1 DEF StageOK
    <3>5. rev = n + 1 => Sees(tx, rev, at + 1, schema)
      <4> SUFFICES ASSUME rev = n + 1 PROVE Sees(tx, rev, at + 1, schema)
        OBVIOUS
      <4>1. PICK sc \in Schema : sc = schema
        BY DEF RolloutOK, RolloutTypes
      <4>2. at = 1 => s = sc
        BY <1>1, <1>3, <3>1, <3>2, <3>4, <4>1 DEF JobOK, View, Holds
      <4>3. at > 1 => Sees(s, rev, at, sc)
        BY <1>1, <1>3, <3>1, <3>2, <3>4, <4>1 DEF JobOK, View, Holds
      <4>4. Sees(AfterCall(Body(rev)[at], s), rev, at + 1, sc)
        BY <1>3, <3>1, <3>2, <4>1, <4>2, <4>3, CallEffect
      <4> QED BY <1>4, <3>3, <4>1, <4>4
    <3> QED BY <1>7, <3>1, <3>2, <3>3, <3>4, <3>5 DEF JobOK
  <2>2. ~Rollout => new.rev \in {0, 6}
    BY <1>1, <1>7 DEF RolloutOK, OtherOK
  <2> QED BY <1>7, <1>8, <1>9, <1>11, <2>1, <2>2, JobStep
<1>12. mig' = [mig EXCEPT ![d] = Idle] \/ mig' = [mig EXCEPT ![d] = new]
  <2>1. mig' = [mig EXCEPT ![d] =
                  IF CallFails(call, s, old.made)
                    THEN Idle
                    ELSE [old EXCEPT !.at = old.at + 1, !.lock = "held",
                                     !.tx = AfterCall(call, s),
                                     !.made = old.made \/ (call.op = "create_table"
                                                           /\ call.table = "n")]]
    BY <1>1, <1>2, <1>3 DEF Execute
  <2>2. [old EXCEPT !.at = old.at + 1, !.lock = "held", !.tx = AfterCall(call, s),
                    !.made = old.made \/ (call.op = "create_table" /\ call.table = "n")] = new
    BY <1>4, <1>5, <1>6
  <2> QED BY <2>1, <2>2
<1> QED BY <1>10, <1>11, <1>12

\* No call of the rollout is in a branch.
LEMMA SkipCallOK ==
    ASSUME RolloutOK, NEW d \in Deployers, SkipCall(d)
    PROVE  RolloutOK'
<1>1. PICK old \in JobType : old = mig[d]
  BY DEF RolloutOK, RolloutTypes
<1>2. PICK at \in Nat \ {0} : at = old.at + 1
  BY <1>1 DEF JobType
<1>3. PICK new : new = [old EXCEPT !.at = at]
  OBVIOUS
<1>4. new \in JobType /\ new.rev = old.rev
  BY <1>1, <1>2, <1>3 DEF JobType
<1>5. AtCall(d) /\ Has(CurrentCall(d), "if") /\ UNCHANGED <<schema, heads, app, program>>
  BY DEF SkipCall
<1>6. mig' = [mig EXCEPT ![d] = new]
  BY <1>1, <1>2, <1>3 DEF SkipCall, RolloutOK, RolloutTypes
<1>7. ~Rollout
  BY <1>5, JobAtCall
<1>8. new.rev \in {0, 6}
  BY <1>1, <1>4, <1>7 DEF RolloutOK, OtherOK
<1> QED BY <1>4, <1>5, <1>6, <1>7, <1>8, JobStep

\* CREATE INDEX CONCURRENTLY begins, or finds an index of that name.
LEMMA StartBuildOK ==
    ASSUME RolloutOK, NEW d \in Deployers, StartBuild(d)
    PROVE  RolloutOK'
<1>1. PICK old \in JobType : old = mig[d]
  BY DEF RolloutOK, RolloutTypes
<1>2. PICK s \in Schema : s = View(d)
  BY <1>1 DEF View, RolloutOK, RolloutTypes, JobType
<1>3. PICK fresh \in BOOLEAN : fresh = (CurrentCall(d).table = "n")
  OBVIOUS
<1>4. /\ AtCall(d) /\ Concurrent(CurrentCall(d)) /\ ~old.building
      /\ Holds(d) \/ Unlocked
      /\ heads' = heads /\ UNCHANGED <<app, program>>
  BY <1>1 DEF StartBuild, Autocommit
<1>5. heads \subseteq Revisions /\ schema \in Schema
  BY DEF RolloutOK, RolloutTypes
<1>6. ASSUME Rollout
      PROVE  /\ old.rev = 3 /\ old.at = 1 /\ old.lock = "none" /\ s = schema /\ ~fresh
             /\ \A e \in Deployers : ~Holds(e)
  <2>1. old.rev = 3 /\ old.at \in 1..Len(Body(old.rev)) /\ CurrentCall(d).table = "t"
    BY <1>1, <1>4, <1>6, JobAtCall
  <2>2. old.at = 1
    <3>1. old.at \in 1..Len(Body(3))
      BY <2>1
    <3>2. Len(Body(3)) = 1
      BY BodyCalls
    <3>3. old.at \in 1..1
      BY <3>1, <3>2
    <3> QED BY <3>3
  <2>3. old.lock = "none"
    BY <1>1, <1>6, <2>1 DEF RolloutOK, StageOK, JobOK
  <2> QED BY <1>1, <1>2, <1>3, <1>4, <2>1, <2>2, <2>3 DEF Holds, View, Unlocked
<1>7. CASE (fresh /\ ~old.made) \/ (~fresh /\ (~s.table \/ s.index # "none"))
  <2>1. mig' = [mig EXCEPT ![d] = Idle] /\ schema' = s
    BY <1>1, <1>2, <1>3, <1>7 DEF StartBuild
  <2>2. PICK new \in JobType : new = Idle
    BY IdleOK
  <2>3. ASSUME Rollout
        PROVE  \E n \in 0..4 :
                 /\ heads' = HeadsOf(n) /\ schema' \in Applied(n) /\ JobOK(new, n, schema')
                 /\ \A e \in Deployers \ {d} : JobOK(mig[e], n, schema')
    BY <1>4, <1>6, <2>1, <2>2, <2>3, IdleOK DEF RolloutOK, StageOK
  <2>4. ~Rollout => heads' \in {{5}, {6}}
    BY <1>4 DEF RolloutOK, OtherOK
  <2> QED BY <1>2, <1>4, <1>5, <2>1, <2>2, <2>3, <2>4, IdleOK, CatalogStep
<1>8. CASE ~((fresh /\ ~old.made) \/ (~fresh /\ (~s.table \/ s.index # "none")))
  <2>1. PICK at \in Nat \ {0} : at = IF fresh THEN old.at + 1 ELSE old.at
    BY <1>1 DEF JobType
  <2>2. PICK building \in BOOLEAN : building = ~fresh
    OBVIOUS
  <2>3. PICK new : new = [old EXCEPT !.lock = "none", !.tx = NoSchema, !.building = building,
                                     !.at = at]
    OBVIOUS
  <2>4. /\ new \in JobType /\ new.rev = old.rev /\ new.at = at /\ new.lock = "none"
        /\ new.building = building
    <3>1. NoSchema \in Schema
      BY DEF NoSchema, Schema
    <3> QED BY <1>1, <2>1, <2>2, <2>3, <3>1 DEF JobType
  <2>5. PICK index \in {"none", "invalid", "valid"} :
          index = IF fresh THEN s.index ELSE "invalid"
    BY <1>2 DEF Schema
  <2>6. schema' = [s EXCEPT !.index = index]
    BY <1>1, <1>2, <1>3, <1>8, <2>5 DEF StartBuild
  <2>7. /\ schema' \in Schema /\ schema'.table = s.table /\ schema'.column = s.column
        /\ schema'.check = s.check /\ schema'.index = index
    BY <1>2, <2>5, <2>6 DEF Schema
  <2>8. mig' = [mig EXCEPT ![d] = new]
    <3>1. mig' = [mig EXCEPT ![d].lock = "none", ![d].tx = NoSchema,
                             ![d].building = building, ![d].at = at]
      BY <1>1, <1>2, <1>3, <1>8, <2>1, <2>2 DEF StartBuild, RolloutOK, RolloutTypes, JobType
    <3> QED BY <1>1, <2>3, <3>1 DEF RolloutOK, RolloutTypes
  <2>9. ASSUME Rollout, NEW n \in 0..4, StageOK(n)
        PROVE  /\ Alone(d) /\ heads' = HeadsOf(n) /\ schema' \in Applied(n)
               /\ JobOK(new, n, schema')
               /\ \A e \in Deployers \ {d} : JobOK(mig[e], n, schema')
    <3>1. ~fresh /\ s.index = "none" /\ s = schema /\ index = "invalid" /\ building /\ at = 1
      BY <1>6, <1>8, <2>1, <2>2, <2>5, <2>9
    <3>2. n = 2
      BY <1>1, <1>6, <2>9, <3>1 DEF StageOK, JobOK, Applied
    <3>3. schema' \in Applied(n)
      BY <2>7, <2>9, <3>1, <3>2 DEF StageOK, Applied
    <3>4. JobOK(new, n, schema')
      BY <1>6, <2>4, <2>7, <2>9, <3>1, <3>2 DEF JobOK
    <3>5. ASSUME NEW e \in Deployers \ {d}
          PROVE  JobOK(mig[e], n, schema') /\ ~mig[e].building /\ ~Holds(e)
      <4>1. JobOK(mig[e], n, schema) /\ mig[e].lock # "held"
        BY <1>6, <2>9 DEF StageOK, Holds
      <4>2. schema.index = "none" /\ "none" # "invalid" /\ "none" # "valid"
        BY <3>1
      <4> QED BY <4>1, <4>2 DEF JobOK, Holds
    <3> QED BY <1>4, <2>9, <3>3, <3>4, <3>5 DEF Alone, StageOK
  <2>10. ~Rollout => heads' \in {{5}, {6}} /\ new.rev \in {0, 6}
    BY <1>1, <1>4, <2>4 DEF RolloutOK, OtherOK
  <2>11. Rollout => Alone(d) /\ \E n \in 0..4 :
           /\ heads' = HeadsOf(n) /\ schema' \in Applied(n) /\ JobOK(new, n, schema')
           /\ \A e \in Deployers \ {d} : JobOK(mig[e], n, schema')
    BY <2>9 DEF RolloutOK
  <2> QED BY <1>4, <1>5, <2>4, <2>7, <2>8, <2>10, <2>11, CatalogStep
<1> QED BY <1>7, <1>8

\* The build ends.
LEMMA FinishBuildOK ==
    ASSUME RolloutOK, NEW d \in Deployers, FinishBuild(d)
    PROVE  RolloutOK'
<1>1. PICK old \in JobType : old = mig[d]
  BY DEF RolloutOK, RolloutTypes
<1>2. PICK at \in Nat \ {0} : at = old.at + 1
  BY <1>1 DEF JobType
<1>3. PICK new : new = [old EXCEPT !.building = FALSE, !.at = at]
  OBVIOUS
<1>4. /\ new \in JobType /\ new.rev = old.rev /\ new.at = at /\ new.lock = old.lock
      /\ ~new.building
  BY <1>1, <1>2, <1>3 DEF JobType
<1>5. /\ mig' = [mig EXCEPT ![d] = new] /\ old.building
      /\ heads' = heads /\ UNCHANGED <<app, program>>
  BY <1>1, <1>2, <1>3 DEF FinishBuild, RolloutOK, RolloutTypes, JobType
<1>6. /\ schema' \in Schema /\ schema'.table = schema.table /\ schema'.column = schema.column
      /\ schema'.check = schema.check /\ schema'.index = "valid"
  BY DEF FinishBuild, RolloutOK, RolloutTypes, Schema
<1>7. heads \subseteq Revisions
  BY DEF RolloutOK, RolloutTypes
<1>8. ASSUME Rollout, NEW n \in 0..4, StageOK(n)
      PROVE  /\ new.lock # "held" /\ heads' = HeadsOf(n) /\ schema' \in Applied(n)
             /\ JobOK(new, n, schema')
             /\ \A e \in Deployers \ {d} : JobOK(mig[e], n, schema')
  <2>1. old.rev = 3 /\ n = 2 /\ schema.index = "invalid" /\ old.lock = "none"
    BY <1>1, <1>5, <1>8 DEF StageOK, JobOK
  <2>2. schema' \in Applied(n)
    BY <1>6, <1>8, <2>1 DEF StageOK, Applied
  <2>3. JobOK(new, n, schema')
    BY <1>4, <1>6, <1>8, <2>1 DEF JobOK
  <2>4. ASSUME NEW e \in Deployers \ {d} PROVE JobOK(mig[e], n, schema')
    <3>1. JobOK(mig[e], n, schema) /\ mig[e].lock # "held" /\ ~mig[e].building
      BY <1>1, <1>5, <1>8 DEF StageOK, RolloutOK, TableOK, Holds
    <3> QED BY <1>6, <2>1, <3>1 DEF JobOK
  <2> QED BY <1>4, <1>5, <1>8, <2>1, <2>2, <2>3, <2>4 DEF StageOK
<1>9. ~Rollout => heads' \in {{5}, {6}} /\ new.rev \in {0, 6}
  BY <1>1, <1>4, <1>5 DEF RolloutOK, OtherOK
<1>10. Rollout => new.lock # "held" /\ \E n \in 0..4 :
         /\ heads' = HeadsOf(n) /\ schema' \in Applied(n) /\ JobOK(new, n, schema')
         /\ \A e \in Deployers \ {d} : JobOK(mig[e], n, schema')
  BY <1>8 DEF RolloutOK
<1> QED BY <1>4, <1>5, <1>6, <1>7, <1>9, <1>10, CatalogStep

\* The COMMIT of a revision that is not stamped yet.
LEMMA StampedOK ==
    ASSUME RolloutOK, NEW d \in Deployers, mig[d].rev # 0, ~AtCall(d),
           Stampable(mig[d].rev), schema' = View(d), heads' = {mig[d].rev},
           UNCHANGED <<app, program>>,
           \/ mig' = [mig EXCEPT ![d] = Idle]
           \/ /\ mig[d].rev \in 1..3
              /\ mig' = [mig EXCEPT ![d] = Deploy(mig[d].rev + 1)]
    PROVE  RolloutOK'
<1>1. PICK old \in JobType : old = mig[d]
  BY DEF RolloutOK, RolloutTypes
<1>2. PICK rev \in {1, 2, 3, 4, 6} : rev = old.rev
  BY <1>1 DEF JobType
<1>3. schema' \in Schema
  BY <1>1 DEF View, RolloutOK, RolloutTypes, JobType
<1>4. heads = DownRevision(rev) /\ heads' = {rev} /\ heads' \subseteq Revisions
  BY <1>1, <1>2 DEF Stampable, Revisions
<1>5. PICK new \in JobType :
        /\ mig' = [mig EXCEPT ![d] = new] /\ new.lock = "none" /\ ~new.building
        /\ new = Idle \/ (rev \in 1..3 /\ new = Deploy(rev + 1))
  <2>1. CASE mig' = [mig EXCEPT ![d] = Idle]
    BY <2>1, IdleOK
  <2>2. CASE rev \in 1..3 /\ mig' = [mig EXCEPT ![d] = Deploy(rev + 1)]
    <3>1. PICK next \in {1, 2, 3, 4, 6} : next = rev + 1
      BY <2>2
    <3> QED BY <2>2, <3>1, DeployOK
  <2> QED BY <1>1, <1>2, <2>1, <2>2
<1>6. ASSUME Rollout, NEW n \in 0..4, StageOK(n)
      PROVE  /\ rev \in 0..4 /\ heads' = HeadsOf(rev) /\ schema' \in Applied(rev)
             /\ JobOK(new, rev, schema')
             /\ \A e \in Deployers \ {d} : JobOK(mig[e], rev, schema')
  <2>1. JobOK(old, n, schema) /\ schema \in Applied(n) /\ HeadsOf(n) = DownRevision(rev)
    BY <1>1, <1>4, <1>6 DEF StageOK
  <2>2. rev = n + 1 /\ rev \in 1..4
    BY <1>2, <1>6, <2>1, DownRevisionOf DEF JobOK
  <2>3. heads' = HeadsOf(rev)
    BY <1>4, <2>2 DEF HeadsOf
  <2>4. JobOK(new, rev, schema')
    <3>1. CASE new = Idle
      BY <2>2, <3>1, IdleOK
    <3>2. CASE rev \in 1..3 /\ new = Deploy(rev + 1)
      <4>1. PICK next \in {1, 2, 3, 4, 6} : next = rev + 1 /\ next \in 1..4
        BY <3>2
      <4> QED BY <3>2, <4>1, DeployOK
    <3> QED BY <1>5, <3>1, <3>2
  <2>5. PICK at \in Nat \ {0} : at = old.at /\ at > Len(Body(rev))
    BY <1>1, <1>2, <2>2, BodyCalls DEF AtCall, JobType
  <2>6. schema' \in Applied(rev) /\ schema'.index = schema.index
    <3>1. CASE rev = 3
      <4>1. schema' = schema /\ schema.index = "valid"
        BY <1>1, <1>2, <2>1, <2>5, <3>1, BodyCalls DEF JobOK, View, Holds
      <4> QED BY <2>1, <2>2, <3>1, <4>1 DEF Applied
    <3>2. CASE rev # 3
      <4>1. at > 1 /\ (rev = 4 => at > 4)
        <5>1. Len(Body(rev)) >= 1 /\ (rev = 4 => Len(Body(rev)) = 4)
          <6>1. rev = 1 \/ rev = 2 \/ rev = 4
            BY <2>2, <3>2
          <6> QED BY <6>1, BodyCalls
        <5>2. Len(Body(rev)) = 1 \/ Len(Body(rev)) = 4
          <6>1. rev = 1 \/ rev = 2 \/ rev = 4
            BY <2>2, <3>2
          <6> QED BY <6>1, BodyCalls
        <5> QED BY <2>5, <5>1, <5>2
      <4>2. old.lock = "held" /\ Sees(old.tx, rev, at, schema)
        BY <1>2, <2>1, <2>2, <2>5, <3>2, <4>1 DEF JobOK
      <4>3. PICK tx \in Schema : tx = old.tx /\ schema' = tx
        BY <1>1, <4>2 DEF JobType, View, Holds
      <4>4. PICK sc \in Applied(n) : sc = schema
        BY <2>1
      <4>5. tx \in Applied(n + 1)
        BY <2>2, <2>5, <3>2, <4>1, <4>2, <4>3, <4>4, SeesApplied
      <4> QED BY <2>2, <4>2, <4>3, <4>5 DEF Sees
    <3> QED BY <3>1, <3>2
  <2>7. ASSUME NEW e \in Deployers \ {d} PROVE JobOK(mig[e], rev, schema')
    <3>1. JobOK(mig[e], n, schema)
      BY <1>6 DEF StageOK
    <3>2. ~mig[e].building
      <4>1. mig[e].building => n = 2 /\ schema.index = "invalid"
        BY <3>1 DEF JobOK
      <4>2. n = 2 => schema.index = "valid"
        BY <1>2, <2>1, <2>2, <2>5, BodyCalls DEF JobOK
      <4> QED BY <4>1, <4>2
    <3> QED BY <1>6, <2>2, <2>6, <3>1, <3>2 DEF JobOK
  <2> QED BY <2>2, <2>3, <2>4, <2>6, <2>7
<1>7. Rollout => \E n \in 0..4 :
        /\ heads' = HeadsOf(n) /\ schema' \in Applied(n) /\ JobOK(new, n, schema')
        /\ \A e \in Deployers \ {d} : JobOK(mig[e], n, schema')
  BY <1>6 DEF RolloutOK
<1>8. ~Rollout => heads' \in {{5}, {6}} /\ new.rev \in {0, 6}
  BY <1>1, <1>2, <1>4, <1>5, IdleOK DEF RolloutOK, OtherOK
<1> QED BY <1>3, <1>4, <1>5, <1>7, <1>8, CatalogStep

\* The revision is stamped, or was stamped by another job.
LEMMA StampOK ==
    ASSUME RolloutOK, NEW d \in Deployers, Stamp(d)
    PROVE  RolloutOK'
<1>1. /\ mig[d].rev # 0 /\ ~AtCall(d) /\ UNCHANGED <<app, program>>
      /\ mig[d].rev \in {0, 1, 2, 3, 4, 6}
  BY DEF Stamp, RolloutOK, RolloutTypes, JobType
<1>2. CASE Stampable(mig[d].rev)
  <2>1. schema' = View(d) /\ heads' = {mig[d].rev}
    BY <1>2 DEF Stamp
  <2>2. \/ mig' = [mig EXCEPT ![d] = Idle]
        \/ /\ mig[d].rev \in 1..3
           /\ mig' = [mig EXCEPT ![d] = Deploy(mig[d].rev + 1)]
    <3>1. CASE mig[d].rev \in {4, 6}
      BY <1>2, <3>1 DEF Stamp
    <3>2. CASE mig[d].rev \notin {4, 6}
      BY <1>1, <1>2, <3>2 DEF Stamp
    <3> QED BY <3>1, <3>2
  <2> QED BY <1>1, <1>2, <2>1, <2>2, StampedOK
<1>3. CASE ~Stampable(mig[d].rev)
  BY <1>1, <1>3, EndJobOK DEF Stamp
<1> QED BY <1>2, <1>3

\* The job's answer to that COMMIT is lost.
LEMMA LoseStampOK ==
    ASSUME RolloutOK, NEW d \in Deployers, LoseStamp(d)
    PROVE  RolloutOK'
BY StampedOK DEF LoseStamp

\* The operator drops an index that no stamp vouches for.
LEMMA RepairIndexOK ==
    ASSUME RolloutOK, RepairIndex
    PROVE  RolloutOK'
<1>1. /\ heads = {2} /\ UNCHANGED <<heads, mig, app, program>>
      /\ \A d \in Deployers : mig[d] = Idle
  BY DEF RepairIndex
<1>2. /\ schema' \in Schema /\ schema'.table = schema.table /\ schema'.column = schema.column
      /\ schema'.check = schema.check /\ schema'.index = "none"
  BY DEF RepairIndex, RolloutOK, RolloutTypes, Schema
<1>3. Rollout
  <2>1. 2 \in heads /\ 2 \notin {5} /\ 2 \notin {6}
    BY <1>1
  <2> QED BY <2>1 DEF RolloutOK, OtherOK
<1>4. RolloutTypes' /\ AppOK' /\ Rollout'
  BY <1>1, <1>2, <1>3 DEF RolloutOK, RolloutTypes, AppOK, Rollout
<1>5. TableOK'
  BY <1>1, IdleOK DEF TableOK, Holds
<1>6. PICK n \in 0..4 : StageOK(n)
  BY <1>3 DEF RolloutOK
<1>7. n = 2
  BY <1>1, <1>6 DEF StageOK, HeadsOf
<1>8. schema' \in Applied(n)
  BY <1>2, <1>6, <1>7 DEF StageOK, Applied
<1>9. StageOK(n)'
  BY <1>1, <1>6, <1>8, IdleOK DEF StageOK
<1> QED BY <1>4, <1>5, <1>9 DEF RolloutOK

\* A job's step of the rollout.
LEMMA DeployStepOK ==
    ASSUME RolloutOK, NEW d \in Deployers, DeployStep(d)
    PROVE  RolloutOK'
<1>1. CASE FailUpgrade(d)
  BY <1>1, EndJobOK DEF FailUpgrade
<1>2. CASE Proceed(d)
  BY <1>2, RequestLockOK, ExecuteOK, SkipCallOK, StartBuildOK, FinishBuildOK, StampOK
  DEF Proceed
<1> QED BY <1>1, <1>2, UpgradeOK, LoseStampOK DEF DeployStep

\* Nothing but the application processes changes.
LEMMA AppFrame ==
    ASSUME RolloutOK, UNCHANGED <<schema, heads, mig, program>>,
           app' \in [Apps -> AppType],
           \A a \in Apps : app'[a].up => Compatible(app'[a].seen, Policy(a))
    PROVE  RolloutOK'
<1>1. RolloutTypes' /\ AppOK' /\ (Rollout' <=> Rollout)
  BY DEF RolloutOK, RolloutTypes, AppOK, Rollout
<1>2. TableOK => TableOK'
  BY DEF TableOK, Holds
<1>3. \A n \in 0..4 : StageOK(n) => StageOK(n)'
  BY DEF StageOK
<1>4. OtherOK => OtherOK'
  BY DEF OtherOK
<1> QED BY <1>1, <1>2, <1>3, <1>4 DEF RolloutOK

\* A process without an open row.
LEMMA NoRowOpen ==
    ASSUME NEW up \in BOOLEAN, NEW seen \in SUBSET Revisions
    PROVE  [up |-> up, seen |-> seen, row |-> 0] \in AppType
<1>1. 0 \in 0..MaxId
  BY BackfillAssumption
<1> QED BY <1>1 DEF AppType

\* A process starts, inserts and commits rows, and ends.
LEMMA AppStepOK ==
    ASSUME MigrationOK, NEW a \in Apps, AppStep(a)
    PROVE  MigrationOK'
<1>1. /\ app \in [Apps -> AppType] /\ rows \in [Ids -> RowStates] /\ behind \subseteq Ids
      /\ heads \subseteq Revisions /\ app[a].row \in 0..MaxId /\ MaxId \in Nat
      /\ \A b \in Apps : app[b].up => Compatible(app[b].seen, Policy(b))
  BY BackfillAssumption
  DEF MigrationOK, BackfillOK, Types, RolloutOK, RolloutTypes, AppOK, AppType
<1>2. UNCHANGED <<schema, heads, mig, program, fills, checkpoint, run>>
  BY DEF AppStep, StartApp, StopApp, Insert, CommitRow, backfillVars
<1>3. CASE StartApp(a)
  <2>1. PICK new \in AppType : new = [up |-> TRUE, seen |-> heads, row |-> 0]
    <3>1. PICK seen \in SUBSET Revisions : seen = heads
      BY <1>1
    <3> QED BY <3>1, NoRowOpen
  <2>2. app' = [app EXCEPT ![a] = new] /\ UNCHANGED <<rows, behind>>
    BY <1>3, <2>1 DEF StartApp, backfillVars
  <2>3. new.seen = heads /\ Compatible(heads, Policy(a))
    BY <1>3, <2>1 DEF StartApp
  <2>4. app' \in [Apps -> AppType]
    BY <1>1, <2>1, <2>2
  <2>5. \A b \in Apps : app'[b].up => Compatible(app'[b].seen, Policy(b))
    BY <1>1, <2>2, <2>3
  <2> QED BY <1>1, <1>2, <2>2, <2>4, <2>5, AppFrame, RowStep DEF MigrationOK
<1>4. CASE StopApp(a)
  <2>1. PICK new \in AppType : new = [up |-> FALSE, seen |-> {}, row |-> 0]
    BY NoRowOpen
  <2>2. /\ app' = [app EXCEPT ![a] = new] /\ behind' = behind /\ ~new.up
        /\ rows' = [i \in Ids |-> IF i = app[a].row THEN "gone" ELSE rows[i]]
    BY <1>4, <2>1 DEF StopApp
  <2>3. app' \in [Apps -> AppType] /\ rows' \in [Ids -> RowStates]
    BY <1>1, <2>1, <2>2 DEF RowStates
  <2>4. \A b \in Apps : app'[b].up => Compatible(app'[b].seen, Policy(b))
    BY <1>1, <2>2
  <2>5. \A i \in Ids : rows'[i] = "null" => rows[i] = "null"
    BY <2>2
  <2> QED BY <1>1, <1>2, <2>2, <2>3, <2>4, <2>5, AppFrame, RowStep DEF MigrationOK
<1>5. CASE Insert(a)
  <2>1. PICK i \in Ids : /\ rows' = [rows EXCEPT ![i] = "open"]
                         /\ app' = [app EXCEPT ![a].row = i]
    BY <1>5 DEF Insert
  <2>2. behind' = behind
    BY <1>5 DEF Insert
  <2>3. PICK new : new = [app[a] EXCEPT !.row = i]
    OBVIOUS
  <2>4. new \in AppType /\ new.up = app[a].up /\ new.seen = app[a].seen
    <3>1. app[a] \in AppType /\ i \in 0..MaxId
      BY <1>1, <2>1 DEF Ids
    <3> QED BY <2>3, <3>1 DEF AppType
  <2>5. app' = [app EXCEPT ![a] = new]
    BY <1>1, <2>1, <2>3
  <2>6. app' \in [Apps -> AppType] /\ rows' \in [Ids -> RowStates]
    BY <1>1, <2>1, <2>4, <2>5 DEF RowStates
  <2>7. \A b \in Apps : app'[b].up => Compatible(app'[b].seen, Policy(b))
    BY <1>1, <2>4, <2>5
  <2>8. \A j \in Ids : rows'[j] = "null" => rows[j] = "null"
    BY <1>1, <2>1
  <2> QED BY <1>1, <1>2, <2>2, <2>6, <2>7, <2>8, AppFrame, RowStep DEF MigrationOK
<1>6. CASE CommitRow(a)
  <2>1. PICK i \in Ids : i = app[a].row
    BY <1>1, <1>6 DEF CommitRow, Ids
  <2>2. /\ rows' = [rows EXCEPT ![i] = IF a \in OldApps THEN "null" ELSE "filled"]
        /\ behind' = IF a \in OldApps /\ Passed(i) THEN behind \cup {i} ELSE behind
        /\ app' = [app EXCEPT ![a].row = 0]
    BY <1>6, <2>1 DEF CommitRow
  <2>3. PICK new : new = [app[a] EXCEPT !.row = 0]
    OBVIOUS
  <2>4. new \in AppType /\ new.up = app[a].up /\ new.seen = app[a].seen
    BY <1>1, <2>3 DEF AppType
  <2>5. app' = [app EXCEPT ![a] = new]
    BY <1>1, <2>2, <2>3
  <2>6. /\ app' \in [Apps -> AppType] /\ rows' \in [Ids -> RowStates]
        /\ behind \subseteq behind' /\ behind' \subseteq Ids
    BY <1>1, <2>1, <2>2, <2>4, <2>5 DEF RowStates
  <2>7. \A b \in Apps : app'[b].up => Compatible(app'[b].seen, Policy(b))
    BY <1>1, <2>4, <2>5
  <2>8. \A j \in Ids : rows'[j] = "null" => rows[j] = "null" \/ j \in behind' \/ ~Passed(j)
    BY <1>1, <2>2
  <2> QED BY <1>1, <1>2, <2>6, <2>7, <2>8, AppFrame, RowStep DEF MigrationOK
<1> QED BY <1>3, <1>4, <1>5, <1>6 DEF AppStep

-----------------------------------------------------------------------------
(* The theorems.                                                            *)

\* Init: nothing is applied, or the database is at revision 5.
LEMMA InitOK == Init => MigrationOK
<1> SUFFICES ASSUME Init PROVE MigrationOK
  OBVIOUS
<1>1. /\ checkpoint = 0 /\ fills = [i \in Ids |-> 0] /\ behind = {}
      /\ run = [w \in Workers |-> IdleRun] /\ rows \in [Ids -> RowStates]
  BY DEF Init, BackfillInit, RowStates
<1>2. PICK none \in AppType : none = [up |-> FALSE, seen |-> {}, row |-> 0]
  BY NoRowOpen
<1>3. app = [a \in Apps |-> none] /\ ~none.up
  BY <1>2 DEF Init
<1>4. Types
  BY <1>1, <1>2, <1>3, IdleRunOK, BackfillAssumption DEF Types
<1>5. \A w \in Workers : run[w].pc = "idle"
  BY <1>1, IdleRunOK
<1>6. OneOpen /\ CursorIsCurrent /\ \A w \in Workers : BatchOK(w)
  BY <1>5 DEF OneOpen, CursorIsCurrent, BatchOK, Open
<1>7. FillsOK /\ CheckpointCovers
  BY <1>1, BackfillAssumption DEF FillsOK, CheckpointCovers, Ids
<1>8. mig = [d \in Deployers |-> Idle] /\ NoSchema \in Schema
  BY DEF Init, NoSchema, Schema
<1>9. schema \in Schema /\ heads \subseteq Revisions
  <2>1. [NoSchema EXCEPT !.table = TRUE] \in Schema
    BY DEF NoSchema, Schema
  <2>2. {5} \subseteq Revisions
    BY DEF Revisions
  <2>3. CASE Rollout
    <3>1. heads = {} /\ schema = NoSchema
      BY <2>3 DEF Init
    <3> QED BY <1>8, <3>1
  <2>4. CASE ~Rollout
    <3>1. heads = {5} /\ schema = [NoSchema EXCEPT !.table = TRUE]
      BY <2>4 DEF Init
    <3> QED BY <2>1, <2>2, <3>1
  <2> QED BY <2>3, <2>4
<1>10. RolloutTypes /\ AppOK
  BY <1>2, <1>3, <1>8, <1>9, IdleOK DEF RolloutTypes, AppOK
<1>11. ASSUME Rollout PROVE TableOK /\ StageOK(0)
  <2>1. heads = {} /\ schema = NoSchema
    BY <1>11 DEF Init
  <2>2. schema \in Applied(0) /\ heads = HeadsOf(0)
    <3>1. /\ schema.table = FALSE /\ schema.column = "absent" /\ schema.check = "none"
          /\ schema.index = "none" /\ (0 >= 1) = FALSE
      BY <2>1 DEF NoSchema
    <3>2. schema.table = (0 >= 1)
      BY <3>1
    <3>3. schema \in Applied(0)
      BY <1>9, <3>1, <3>2 DEF Applied
    <3> QED BY <2>1, <3>3 DEF HeadsOf
  <2> QED BY <1>8, <2>2, IdleOK DEF TableOK, StageOK, Holds
<1>12. ASSUME ~Rollout PROVE OtherOK
  BY <1>8, <1>12, IdleOK DEF Init, OtherOK
<1> QED BY <1>4, <1>6, <1>7, <1>10, <1>11, <1>12 DEF MigrationOK, BackfillOK, RolloutOK

\* Every step of the rollout keeps the invariant.
LEMMA NextOK == MigrationOK /\ [Next]_vars => MigrationOK'
<1> SUFFICES ASSUME MigrationOK, [Next]_vars PROVE MigrationOK'
  OBVIOUS
<1>1. /\ app \in [Apps -> AppType] /\ rows \in [Ids -> RowStates] /\ behind \subseteq Ids
      /\ \A a \in Apps : app[a].up => Compatible(app[a].seen, Policy(a))
  BY DEF MigrationOK, BackfillOK, Types, RolloutOK, AppOK
<1>2. CASE UNCHANGED vars
  <2>1. UNCHANGED <<rows, fills, checkpoint, run, schema, heads, mig, app, behind, program>>
    BY <1>2 DEF vars
  <2> QED BY <1>1, <2>1, AppFrame, RowStep DEF MigrationOK
<1>3. ASSUME NEW w \in Workers, BackfillStep(w) PROVE MigrationOK'
  <2>1. UNCHANGED <<schema, heads, mig, app, program>>
    BY <1>3 DEF BackfillStep, rolloutVars
  <2> QED BY <1>1, <1>3, <2>1, BackfillStepOK, AppFrame DEF MigrationOK
<1>4. ASSUME NEW a \in Apps, AppStep(a) PROVE MigrationOK'
  BY <1>4, AppStepOK
<1>5. ASSUME NEW d \in Deployers, DeployStep(d) PROVE MigrationOK'
  <2>1. UNCHANGED <<rows, fills, checkpoint, run, app, behind>>
    BY <1>5
    DEF DeployStep, Upgrade, Proceed, RequestLock, Execute, SkipCall, StartBuild, Autocommit,
        FinishBuild, Stamp, LoseStamp, FailUpgrade, backfillVars
  <2> QED BY <1>1, <1>5, <2>1, DeployStepOK, RowStep DEF MigrationOK
<1>6. ASSUME RepairIndex PROVE MigrationOK'
  <2>1. UNCHANGED <<rows, fills, checkpoint, run, app, behind>>
    BY <1>6 DEF RepairIndex, backfillVars
  <2> QED BY <1>1, <1>6, <2>1, RepairIndexOK, RowStep DEF MigrationOK
<1> QED BY <1>2, <1>3, <1>4, <1>5, <1>6 DEF Next

\* The inductive invariant of the rollout and of the backfill in it.
THEOREM MigrationInvariant == Spec => []MigrationOK
BY InitOK, NextOK, PTL DEF Spec

\* No row is processed by two batches, whatever crashes, lost answers, repetitions and
\* second workers there are: a batch holds the advisory lock from the load of the
\* checkpoint to the commit, and takes rows after the checkpoint only.
THEOREM OnceTheorem == Spec => []EachRowOnce
<1>1. MigrationOK => EachRowOnce
  BY DEF MigrationOK, BackfillOK, FillsOK, EachRowOnce
<1> QED BY <1>1, MigrationInvariant, PTL

\* The checkpoint of the backfill passes no row that was there to be filled.
THEOREM CoverTheorem == Spec => []CheckpointCovers
<1>1. MigrationOK => CheckpointCovers
  BY DEF MigrationOK, BackfillOK
<1> QED BY <1>1, MigrationInvariant, PTL

\* The version table tells the truth about the catalog, for any number of release jobs
\* that race, die or lose the answer of their COMMIT.
THEOREM StampTheorem == Spec => []StampedIsApplied
<1>1. ASSUME MigrationOK PROVE StampedIsApplied
  <2> SUFFICES ASSUME Rollout
               PROVE  schema \in Applied(IF heads = {} THEN 0 ELSE Max(heads))
    BY DEF StampedIsApplied
  <2>1. PICK n \in 0..4 : heads = HeadsOf(n) /\ schema \in Applied(n)
    BY <1>1 DEF MigrationOK, RolloutOK, StageOK
  <2>2. (IF heads = {} THEN 0 ELSE Max(heads)) = n
    <3>1. CASE n = 0
      BY <2>1, <3>1 DEF HeadsOf
    <3>2. CASE n # 0
      <4>1. heads = {n} /\ heads # {}
        BY <2>1, <3>2 DEF HeadsOf
      <4>2. Max({n}) = n
        BY <2>1, MaxExists
      <4> QED BY <4>1, <4>2
    <3> QED BY <3>1, <3>2
  <2> QED BY <2>1, <2>2
<1> QED BY <1>1, MigrationInvariant, PTL

\* A process that the schema check has let in can write as long as the revision it saw
\* is the stamped one.
THEOREM AdmissionTheorem == Spec => []AdmittedCanWrite
<1>1. ASSUME MigrationOK PROVE AdmittedCanWrite
  <2> SUFFICES ASSUME NEW a \in Apps, app[a].up, app[a].seen = heads PROVE CanWrite(a)
    BY DEF AdmittedCanWrite
  <2>1. Compatible(heads, Policy(a))
    BY <1>1 DEF MigrationOK, RolloutOK, AppOK
  <2>2. \/ heads = {Policy(a).expected_revision}
        \/ heads # {} /\ heads \subseteq Policy(a).compatible_revisions
    BY <2>1 DEF Compatible, State
  <2>3. /\ heads # {}
        /\ a \in OldApps => heads \subseteq {1, 2, 3}
        /\ a \notin OldApps => heads \subseteq {2, 3, 4}
    BY <2>2 DEF Policy
  <2>4. Rollout
    <3>1. 5 \notin heads /\ 6 \notin heads
      BY <2>3
    <3> QED BY <1>1, <3>1 DEF MigrationOK, RolloutOK, OtherOK
  <2>5. PICK n \in 0..4 : heads = HeadsOf(n) /\ schema \in Applied(n)
    BY <1>1, <2>4 DEF MigrationOK, RolloutOK, StageOK
  <2>6. /\ n >= 1 /\ (a \in OldApps => n <= 3) /\ (a \notin OldApps => n >= 2)
    BY <2>3, <2>5 DEF HeadsOf
  <2>7. schema.table
    BY <2>5, <2>6 DEF Applied
  <2>8. /\ n < 4 => schema.column # "notnull"
        /\ n >= 2 => schema.column # "absent"
    BY <2>5 DEF Applied
  <2> QED BY <2>5, <2>6, <2>7, <2>8 DEF CanWrite
<1> QED BY <1>1, MigrationInvariant, PTL

-----------------------------------------------------------------------------
(* The linter.                                                              *)

\* The revision creates table t by its name in call k.
Recreates(body, k) ==
    k \in DOMAIN body /\ body[k].op = "create_table" /\ body[k].table = "t"

\* A revision that does so finds the table there.
TableStays(body, s) == (\E k \in DOMAIN body : Recreates(body, k)) => s.table

\* A job that has come to a call has not created t before it; what it builds is
\* the index of a concurrent call.
LintJob(body, m) ==
    m.rev = 6 =>
        /\ \A k \in 1..(m.at - 1) : ~Recreates(body, k)
        /\ m.building => m.at \in DOMAIN body /\ Concurrent(body[m.at])
        /\ m.lock = "held" => TableStays(body, m.tx)

Waived == {HarmOf(code) : code \in program.waivers}

LintOK ==
    /\ program \in Programs
    /\ Rollout => harms = {}
    /\ ~Rollout /\ Judged =>
         /\ harms \subseteq Waived
         /\ TableStays(program.body, schema)
         /\ \A d \in Deployers : LintJob(program.body, mig[d])

\* What a helper calls besides its concurrent index build, the validation and the
\* ALTER COLUMN of enforce_not_null scans nothing.
LEMMA HelperShape ==
    ASSUME NEW call \in HelperCalls
    PROVE  \/ call.op = "create_index" /\ call.opts = {"helper", "concurrently", "autocommit"}
           \/ /\ call.op \in {"create_check_constraint", "create_foreign_key"}
              /\ call.opts = {"helper", "not_valid"}
           \/ "validate" \in call.opts
           \/ {"helper", "non_null"} \subseteq call.opts
           \/ call.op = "drop_constraint" /\ call.opts = {"helper"}
<1>1. PICK table \in Tables :
         \/ \E i \in DOMAIN create_index_concurrently(table) :
               call = create_index_concurrently(table)[i]
         \/ \E i \in DOMAIN add_foreign_key_not_valid(table) :
               call = add_foreign_key_not_valid(table)[i]
         \/ \E i \in DOMAIN enforce_not_null(table) : call = enforce_not_null(table)[i]
  BY DEF HelperCalls
<1>2. CASE \E i \in DOMAIN create_index_concurrently(table) :
               call = create_index_concurrently(table)[i]
  BY <1>2 DEF create_index_concurrently, Call
<1>3. CASE \E i \in DOMAIN add_foreign_key_not_valid(table) :
               call = add_foreign_key_not_valid(table)[i]
  BY <1>3 DEF add_foreign_key_not_valid, Call
<1>4. CASE \E i \in DOMAIN enforce_not_null(table) : call = enforce_not_null(table)[i]
  <2>1. PICK body : body = enforce_not_null(table)
    OBVIOUS
  <2>2. PICK i \in 1..4 : call = body[i]
    BY <1>4, <2>1, EnforceCalls
  <2>3. i = 1 \/ i = 2 \/ i = 3 \/ i = 4
    BY <2>2
  <2>4. \/ call = Call("create_check_constraint", table, {"helper", "not_valid"})
        \/ call = Call("execute", table, {"helper", "validate"})
        \/ call = Call("alter_column", table, {"helper", "non_null"})
        \/ call = Call("drop_constraint", table, {"helper"})
    BY <2>1, <2>2, <2>3, EnforceCalls
  <2> QED BY <2>4 DEF Call
<1> QED BY <1>1, <1>2, <1>3, <1>4

\* A harm on table t that the linter looks at is the one a code stands for.
LEMMA HarmHasCode ==
    ASSUME NEW body, NEW i, NEW d, NEW h, h \in Harm(d, body[i]), OnExistingTable(body, i),
           "drop_sql" \in body[i].opts => body[i].op = "execute",
           "validate" \notin body[i].opts, Readable(body[i]),
           WarningCodes(body[i]) = {}
    PROVE  \E code \in ErrorCodes(body, i) : HarmOf(code) = h
<1>1. h = "lost" \/ h = "blocked" \/ h = "failed"
  BY DEF Harm, Harms, Has, Readable, KnownOps, DESTRUCTIVE_OPS
<1>2. CASE h = "lost"
  <2>1. body[i].op \in {"drop_table", "drop_column"} \/ "drop_sql" \in body[i].opts
    BY <1>2 DEF Harm, Has
  <2>2. CASE body[i].op \in {"drop_table", "drop_column"}
    <3>1. "destructive-change" \in ErrorCodes(body, i)
      BY <2>2 DEF ErrorCodes, DESTRUCTIVE_OPS
    <3> QED BY <1>2, <3>1 DEF HarmOf
  <2>3. CASE "drop_sql" \in body[i].opts
    <3>1. "raw-sql-review" \notin WarningCodes(body[i])
      OBVIOUS
    <3>2. Literal(body[i], "drop_sql")
      BY <2>3, <3>1 DEF WarningCodes
    <3>3. "destructive-sql" \in ErrorCodes(body, i)
      BY <2>3, <3>2 DEF ErrorCodes
    <3> QED BY <1>2, <3>3 DEF HarmOf
  <2> QED BY <2>1, <2>2, <2>3
<1>3. CASE h = "blocked"
  <2>1. Scans(body[i], View(d)) /\ "concurrently" \notin body[i].opts
    BY <1>3 DEF Harm, Has
  <2>2. CASE body[i].op = "create_index"
    <3>1. "blocking-index" \in ErrorCodes(body, i)
      BY <2>1, <2>2 DEF ErrorCodes, Literal
    <3> QED BY <1>3, <3>1 DEF HarmOf
  <2>3. CASE /\ body[i].op \in {"create_check_constraint", "create_foreign_key"}
             /\ "not_valid" \notin body[i].opts
    <3>1. "immediate-constraint-validation" \in ErrorCodes(body, i)
      BY <2>3 DEF ErrorCodes, Literal
    <3> QED BY <1>3, <3>1 DEF HarmOf
  <2>4. CASE body[i].op = "alter_column" /\ "type" \in body[i].opts
    <3>1. "column-type-rewrite" \in ErrorCodes(body, i)
      BY <2>4 DEF ErrorCodes
    <3> QED BY <1>3, <3>1 DEF HarmOf
  <2>5. CASE body[i].op = "alter_column" /\ "non_null" \in body[i].opts
    <3>1. "set-not-null" \notin WarningCodes(body[i])
      OBVIOUS
    <3> QED BY <2>5, <3>1 DEF WarningCodes, Literal, Readable
  <2>6. body[i].op # "create_unique_constraint" /\ "computed" \notin body[i].opts
    BY DEF Readable, KnownOps, DESTRUCTIVE_OPS
  <2> QED BY <2>1, <2>2, <2>3, <2>4, <2>5, <2>6 DEF Scans, Has
<1>4. CASE h = "failed"
  <2>1. \/ /\ body[i].op = "create_index" /\ "concurrently" \in body[i].opts
           /\ "autocommit" \notin body[i].opts
        \/ /\ body[i].op = "add_column" /\ "non_null" \in body[i].opts
           /\ "server_default" \notin body[i].opts
    BY <1>4 DEF Harm, Has
  <2>2. CASE /\ body[i].op = "create_index" /\ "concurrently" \in body[i].opts
             /\ "autocommit" \notin body[i].opts
    <3>1. Literal(body[i], "concurrently")
      BY <2>2 DEF Readable, Literal
    <3>2. "concurrent-index-transaction" \in ErrorCodes(body, i)
      BY <2>2, <3>1 DEF ErrorCodes
    <3> QED BY <1>4, <3>2 DEF HarmOf
  <2>3. CASE /\ body[i].op = "add_column" /\ "non_null" \in body[i].opts
             /\ "server_default" \notin body[i].opts
    <3>1. Literal(body[i], "non_null")
      BY <2>3 DEF Readable, Literal
    <3>2. "non-null-column-without-backfill" \in ErrorCodes(body, i)
      BY <2>3, <3>1 DEF ErrorCodes
    <3> QED BY <1>4, <3>2 DEF HarmOf
  <2> QED BY <2>1, <2>2, <2>3
<1> QED BY <1>1, <1>2, <1>3, <1>4

\* The call of a judged revision that runs in its transaction does no harm but what
\* is waived.
LEMMA HarmIsWaived ==
    ASSUME program \in Programs, Judged, NEW d, NEW i \in DOMAIN program.body,
           ~Concurrent(program.body[i]),
           \A k \in 1..(i - 1) : ~Recreates(program.body, k)
    PROVE  Harm(d, program.body[i]) \subseteq Waived
<1> SUFFICES ASSUME NEW h \in Harm(d, program.body[i]) PROVE h \in Waived
  OBVIOUS
<1>1. PICK body : body = program.body
  OBVIOUS
<1>2. /\ body \in Seq(Calls) /\ Authored(body) /\ i \in DOMAIN body
      /\ h \in Harm(d, body[i]) /\ ~Concurrent(body[i])
  BY <1>1, MigrationAssumption DEF Authored
<1>3. /\ Safe(program) /\ Warnings(body) = {}
      /\ \A j \in DOMAIN body : "validate" \notin body[j].opts /\ Readable(body[j])
  BY <1>1 DEF Judged, Has
<1>4. body[i].table # "n" /\ body[i] \in Calls
  BY <1>2 DEF Harm
<1>5. CASE "helper" \in body[i].opts
  <2>1. body[i] \in HelperCalls /\ ~({"helper", "non_null"} \subseteq body[i].opts)
    BY <1>2, <1>3, <1>5 DEF Authored
  <2>2. \/ /\ body[i].op \in {"create_check_constraint", "create_foreign_key"}
           /\ body[i].opts = {"helper", "not_valid"}
        \/ body[i].op = "drop_constraint" /\ body[i].opts = {"helper"}
    <3>1. body[i].opts # {"helper", "concurrently", "autocommit"}
      BY <1>2 DEF Concurrent
    <3>2. "validate" \notin body[i].opts
      BY <1>2, <1>3
    <3> QED BY <2>1, <3>1, <3>2, HelperShape
  <2>3. h = "lost" \/ h = "blocked" \/ h = "renamed" \/ h = "failed"
    BY <1>2 DEF Harm, Harms
  <2>4. h # "lost" /\ h # "renamed" /\ h # "failed"
    BY <1>2, <2>2 DEF Harm, Has
  <2>5. h # "blocked"
    BY <1>2, <2>2 DEF Harm, Has, Scans
  <2> QED BY <2>3, <2>4, <2>5
<1>6. CASE "helper" \notin body[i].opts
  <2>1. Seen(body[i]) /\ i \in SeenCalls(body)
    BY <1>2, <1>3, <1>6 DEF Seen, SeenCalls, Readable
  <2>2. OnExistingTable(body, i)
    <3>1. body[i].table \in {"t", "?"}
      BY <1>4 DEF Calls, Tables
    <3>2. "?" \notin CreatedTables(body, i)
      BY DEF CreatedTables
    <3>3. ASSUME "t" \in CreatedTables(body, i) PROVE FALSE
      <4>1. PICK k \in 1..(i - 1) : body[k].op = "create_table" /\ body[k].table = "t"
        BY <3>3 DEF CreatedTables
      <4>2. k \in DOMAIN body
        BY <1>2, <4>1
      <4> QED BY <1>1, <4>1, <4>2 DEF Recreates
    <3> QED BY <3>1, <3>2, <3>3 DEF OnExistingTable
  <2>3. WarningCodes(body[i]) = {}
    BY <1>3, <2>1 DEF Warnings
  <2>4. "drop_sql" \in body[i].opts => body[i].op = "execute"
    BY <1>2 DEF Authored
  <2>5. "validate" \notin body[i].opts /\ Readable(body[i])
    BY <1>2, <1>3
  <2>6. PICK code \in ErrorCodes(body, i) : HarmOf(code) = h
    <3>1. h \in Harm(d, body[i])
      BY <1>2
    <3> QED BY <2>2, <2>3, <2>4, <2>5, <3>1, HarmHasCode
  <2>7. code \in Errors(body)
    BY <2>1, <2>6 DEF Errors
  <2>8. code \in program.waivers
    BY <1>1, <1>3, <2>7 DEF Safe
  <2> QED BY <2>6, <2>8 DEF Waived
<1> QED BY <1>5, <1>6

\* Nothing but drop_table and rename_table takes table t away.
LEMMA AfterCallTable ==
    ASSUME NEW s \in Schema, NEW call, s.table,
           call.op # "rename_table", ~(call.op = "drop_table" /\ call.table # "n")
    PROVE  AfterCall(call, s).table
<1>1. PICK r : r = AfterCall(call, s)
  OBVIOUS
<1>2. \/ r = s \/ r = [s EXCEPT !.table = TRUE]
      \/ \E x \in {"nullable", "notnull", "absent"} : r = [s EXCEPT !.column = x]
      \/ \E x \in {"valid", "none"} : r = [s EXCEPT !.index = x]
      \/ \E x \in {"not_valid", "valid", "none"} : r = [s EXCEPT !.check = x]
  BY <1>1 DEF AfterCall
<1>3. r = s => r.table
  OBVIOUS
<1>4. r = [s EXCEPT !.table = TRUE] => r.table
  BY DEF Schema
<1>5. ASSUME NEW x, r = [s EXCEPT !.column = x] PROVE r.table
  BY <1>5 DEF Schema
<1>6. ASSUME NEW x, r = [s EXCEPT !.index = x] PROVE r.table
  BY <1>6 DEF Schema
<1>7. ASSUME NEW x, r = [s EXCEPT !.check = x] PROVE r.table
  BY <1>7 DEF Schema
<1> QED BY <1>1, <1>2, <1>3, <1>4, <1>5, <1>6, <1>7

\* A judged revision is the one of its job, and its calls are those of its body.
LEMMA JudgedCall ==
    ASSUME RolloutOK, program \in Programs, ~Rollout, NEW d \in Deployers, AtCall(d)
    PROVE  /\ mig[d].rev = 6 /\ mig[d].at \in DOMAIN program.body
           /\ CurrentCall(d) = program.body[mig[d].at]
           /\ program.body \in Seq(Calls) /\ mig[d].at \in Nat \ {0}
           /\ Authored(program.body)
<1>1. mig[d].rev = 6
  BY DEF RolloutOK, OtherOK, AtCall
<1>2. Body(6) = program.body
  BY DEF Body
<1>3. mig[d].at \in Nat \ {0}
  BY DEF RolloutOK, RolloutTypes, JobType
<1>4. Authored(program.body)
  BY MigrationAssumption
<1>5. program.body \in Seq(Calls)
  BY <1>4 DEF Authored
<1>6. mig[d].at <= Len(program.body) /\ CurrentCall(d) = program.body[mig[d].at]
  BY <1>1, <1>2 DEF AtCall, CurrentCall
<1> QED BY <1>1, <1>3, <1>4, <1>5, <1>6

\* A step of one job.
LEMMA LintStep ==
    ASSUME RolloutOK, LintOK, NEW d \in Deployers, NEW new,
           mig' = [mig EXCEPT ![d] = new], program' = program,
           Rollout => harms' = harms,
           ~Rollout /\ Judged => /\ harms' \subseteq Waived
                                 /\ TableStays(program.body, schema')
                                 /\ LintJob(program.body, new)
    PROVE  LintOK'
<1>1. (Rollout' <=> Rollout) /\ (Judged' <=> Judged) /\ Waived' = Waived
  BY DEF Rollout, Judged, Waived
<1>2. (Rollout => harms' = {}) /\ program' \in Programs
  BY DEF LintOK
<1>3. ASSUME ~Rollout, Judged, NEW e \in Deployers
      PROVE  LintJob(program.body, mig'[e])
  <2>1. LintJob(program.body, mig[e])
    BY <1>3 DEF LintOK
  <2>2. mig'[e] = IF e = d THEN new ELSE mig[e]
    BY DEF RolloutOK, RolloutTypes
  <2>3. LintJob(program.body, new)
    BY <1>3
  <2>4. CASE e = d
    BY <2>2, <2>3, <2>4
  <2>5. CASE e # d
    BY <2>1, <2>2, <2>5
  <2> QED BY <2>4, <2>5
<1>4. program'.body = program.body
  OBVIOUS
<1> QED BY <1>1, <1>2, <1>3, <1>4 DEF LintOK

\* A step of no job.
LEMMA LintFrame ==
    ASSUME RolloutOK, LintOK, mig' = mig, program' = program, harms' = harms,
           ~Rollout => schema' = schema
    PROVE  LintOK'
<1>1. (Rollout' <=> Rollout) /\ (Judged' <=> Judged) /\ Waived' = Waived
  BY DEF Rollout, Judged, Waived
<1> QED BY <1>1 DEF LintOK, LintJob, TableStays, Recreates

\* A job that is at no revision, or at the first call of one.
LEMMA LintDeploy ==
    ASSUME NEW body, NEW rev
    PROVE  LintJob(body, Deploy(rev)) /\ LintJob(body, Idle)
<1>1. /\ Deploy(rev).at = 1 /\ ~Deploy(rev).building /\ Deploy(rev).lock = "none"
      /\ Idle.rev = 0
  BY DEF Deploy, Idle
<1> QED BY <1>1 DEF LintJob

\* The catalog a job commits.
LEMMA LintView ==
    ASSUME RolloutOK, LintOK, ~Rollout, Judged, NEW d \in Deployers, mig[d].rev = 6
    PROVE  TableStays(program.body, View(d)) /\ TableStays(program.body, schema)
BY DEF LintOK, LintJob, View, Holds

LEMMA LintUpgrade ==
    ASSUME RolloutOK, LintOK, NEW d \in Deployers, Upgrade(d)
    PROVE  LintOK'
<1>1. PICK rev : mig' = [mig EXCEPT ![d] = Deploy(rev)]
  BY DEF Upgrade
<1>2. PICK new : new = Deploy(rev)
  OBVIOUS
<1>3. mig' = [mig EXCEPT ![d] = new] /\ UNCHANGED <<program, harms, schema>>
  BY <1>1, <1>2 DEF Upgrade
<1>4. PICK body : body = program.body
  OBVIOUS
<1>5. LintJob(body, new)
  BY <1>2, LintDeploy
<1>6. ~Rollout /\ Judged => harms' \subseteq Waived /\ TableStays(program.body, schema')
  BY <1>3 DEF LintOK
<1> QED BY <1>3, <1>4, <1>5, <1>6, LintStep

\* A job ends, with or without a commit of what it sees.
LEMMA LintEnd ==
    ASSUME RolloutOK, LintOK, NEW d \in Deployers, mig[d].rev # 0,
           mig' = [mig EXCEPT ![d] = Idle], schema' \in {schema, View(d)},
           UNCHANGED <<program, harms>>
    PROVE  LintOK'
<1>1. PICK new : new = Idle
  OBVIOUS
<1>2. PICK body : body = program.body
  OBVIOUS
<1>3. LintJob(body, new)
  BY <1>1, LintDeploy
<1>4. ASSUME ~Rollout, Judged
      PROVE  harms' \subseteq Waived /\ TableStays(program.body, schema')
  <2>1. mig[d].rev = 6
    BY <1>4 DEF RolloutOK, OtherOK
  <2>2. TableStays(program.body, View(d)) /\ TableStays(program.body, schema)
    BY <1>4, <2>1, LintView
  <2>3. CASE schema' = schema
    BY <1>4, <2>2, <2>3 DEF LintOK
  <2>4. CASE schema' = View(d)
    BY <1>4, <2>2, <2>4 DEF LintOK
  <2> QED BY <2>3, <2>4
<1>5. mig' = [mig EXCEPT ![d] = new] /\ program' = program /\ harms' = harms
  BY <1>1
<1> QED BY <1>2, <1>3, <1>4, <1>5, LintStep

LEMMA LintRequestLock ==
    ASSUME RolloutOK, LintOK, NEW d \in Deployers, RequestLock(d)
    PROVE  LintOK'
<1>1. PICK old \in JobType : old = mig[d]
  BY DEF RolloutOK, RolloutTypes
<1>2. PICK new : new = [old EXCEPT !.lock = "queued"]
  OBVIOUS
<1>3. /\ new.rev = old.rev /\ new.at = old.at /\ new.lock = "queued"
      /\ new.building = old.building
  BY <1>1, <1>2 DEF JobType
<1>4. mig' = [mig EXCEPT ![d] = new] /\ UNCHANGED <<program, harms, schema>>
  BY <1>1, <1>2 DEF RequestLock, RolloutOK, RolloutTypes
<1>5. ASSUME ~Rollout, Judged
      PROVE  /\ harms' \subseteq Waived /\ TableStays(program.body, schema')
             /\ LintJob(program.body, new)
  <2>1. LintJob(program.body, old)
    BY <1>1, <1>5 DEF LintOK
  <2>2. LintJob(program.body, new)
    BY <1>3, <2>1 DEF LintJob
  <2> QED BY <1>4, <1>5, <2>2 DEF LintOK
<1> QED BY <1>4, <1>5, LintStep

\* A call that is passed without having created t.
LEMMA LintPast ==
    ASSUME NEW body, NEW old \in JobType, NEW new \in JobType, LintJob(body, old),
           new.rev = old.rev, new.at = old.at + 1, ~new.building,
           ~Recreates(body, old.at),
           new.lock = "held" => TableStays(body, new.tx)
    PROVE  LintJob(body, new)
<1>1. old.at \in Nat \ {0}
  BY DEF JobType
<1>2. ASSUME new.rev = 6, NEW k \in 1..(new.at - 1) PROVE ~Recreates(body, k)
  <2>1. k \in 1..(old.at - 1) \/ k = old.at
    BY <1>1, <1>2
  <2> QED BY <1>2, <2>1 DEF LintJob
<1> QED BY <1>2 DEF LintJob

LEMMA LintSkip ==
    ASSUME RolloutOK, LintOK, NEW d \in Deployers, SkipCall(d)
    PROVE  LintOK'
<1>1. PICK old \in JobType : old = mig[d]
  BY DEF RolloutOK, RolloutTypes
<1>2. PICK at \in Nat \ {0} : at = old.at + 1
  BY <1>1 DEF JobType
<1>3. PICK new : new = [old EXCEPT !.at = at]
  OBVIOUS
<1>4. /\ new \in JobType /\ new.rev = old.rev /\ new.at = old.at + 1 /\ new.lock = old.lock
      /\ new.building = old.building /\ new.tx = old.tx
  BY <1>1, <1>2, <1>3 DEF JobType
<1>5. mig' = [mig EXCEPT ![d] = new] /\ UNCHANGED <<program, harms, schema>>
  BY <1>1, <1>2, <1>3 DEF SkipCall, RolloutOK, RolloutTypes
<1>6. AtCall(d) /\ Has(CurrentCall(d), "if") /\ ~old.building
  BY <1>1 DEF SkipCall
<1>7. ASSUME ~Rollout, Judged
      PROVE  /\ harms' \subseteq Waived /\ TableStays(program.body, schema')
             /\ LintJob(program.body, new)
  <2>1. PICK body : body = program.body
    OBVIOUS
  <2>2. LintJob(body, old) /\ program \in Programs
    BY <1>1, <1>7, <2>1 DEF LintOK
  <2>3. old.rev = 6 /\ old.at \in DOMAIN body /\ Has(body[old.at], "if")
    BY <1>1, <1>6, <1>7, <2>1, <2>2, JudgedCall
  <2>4. ~Recreates(body, old.at)
    BY <1>7, <2>1, <2>3 DEF Judged, Recreates
  <2>5. new.lock = "held" => TableStays(body, new.tx)
    BY <1>4, <2>2, <2>3 DEF LintJob
  <2>6. LintJob(body, new)
    BY <1>1, <1>4, <1>6, <2>2, <2>4, <2>5, LintPast
  <2> QED BY <1>5, <1>7, <2>1, <2>6 DEF LintOK
<1> QED BY <1>5, <1>7, LintStep

\* A call in the transaction: the linter has seen what it does, and a second
\* create_table of t fails.
LEMMA LintExecute ==
    ASSUME RolloutOK, LintOK, NEW d \in Deployers, Execute(d)
    PROVE  LintOK'
<1>1. PICK old \in JobType : old = mig[d]
  BY DEF RolloutOK, RolloutTypes
<1>2. PICK call : call = CurrentCall(d)
  OBVIOUS
<1>3. PICK s \in Schema : s = View(d)
  BY <1>1 DEF View, RolloutOK, RolloutTypes, JobType
<1>4. PICK tx \in Schema : tx = AfterCall(call, s)
  BY <1>3, AfterCallType
<1>5. PICK made \in BOOLEAN : made = (old.made \/ (call.op = "create_table" /\ call.table = "n"))
  OBVIOUS
<1>6. PICK at \in Nat \ {0} : at = old.at + 1
  BY <1>1 DEF JobType
<1>7. PICK new : new = [old EXCEPT !.at = at, !.lock = "held", !.tx = tx, !.made = made]
  OBVIOUS
<1>8. /\ new \in JobType /\ new.rev = old.rev /\ new.at = old.at + 1 /\ new.lock = "held"
      /\ new.tx = tx /\ new.building = old.building
  BY <1>1, <1>4, <1>5, <1>6, <1>7 DEF JobType
<1>9. /\ AtCall(d) /\ ~Concurrent(call) /\ UNCHANGED <<schema, program>>
      /\ harms' = harms \cup IF old.rev = 6 THEN Harm(d, call) ELSE {}
  BY <1>1, <1>2 DEF Execute
<1>10. \/ mig' = [mig EXCEPT ![d] = Idle]
       \/ mig' = [mig EXCEPT ![d] = new] /\ ~CallFails(call, s, old.made)
  <2>1. mig' = [mig EXCEPT ![d] =
                  IF CallFails(call, s, old.made)
                    THEN Idle
                    ELSE [old EXCEPT !.at = old.at + 1, !.lock = "held",
                                     !.tx = AfterCall(call, s),
                                     !.made = old.made \/ (call.op = "create_table"
                                                           /\ call.table = "n")]]
    BY <1>1, <1>2, <1>3 DEF Execute
  <2>2. [old EXCEPT !.at = old.at + 1, !.lock = "held", !.tx = AfterCall(call, s),
                    !.made = old.made \/ (call.op = "create_table" /\ call.table = "n")] = new
    BY <1>4, <1>5, <1>6, <1>7
  <2> QED BY <2>1, <2>2
<1>11. Rollout => harms' = harms
  <2>1. Rollout => old.rev # 6
    BY <1>1 DEF RolloutOK, StageOK, JobOK
  <2> QED BY <1>9, <2>1
<1>12. PICK body : body = program.body
  OBVIOUS
<1>13. ASSUME ~Rollout, Judged
       PROVE  /\ old.rev = 6 /\ old.at \in DOMAIN body /\ call = body[old.at]
              /\ body \in Seq(Calls) /\ Authored(body)
              /\ LintJob(body, old) /\ TableStays(body, s) /\ TableStays(body, schema)
              /\ harms' \subseteq Waived
  <2>1. program \in Programs /\ LintJob(body, old) /\ harms \subseteq Waived
    BY <1>1, <1>12, <1>13 DEF LintOK
  <2>2. /\ old.rev = 6 /\ old.at \in DOMAIN body /\ call = body[old.at]
        /\ body \in Seq(Calls) /\ Authored(body)
    BY <1>1, <1>2, <1>9, <1>12, <1>13, <2>1, JudgedCall
  <2>3. TableStays(body, s) /\ TableStays(body, schema)
    BY <1>1, <1>3, <1>12, <1>13, <2>2, LintView
  <2>4. \A k \in 1..(old.at - 1) : ~Recreates(program.body, k)
    BY <1>12, <2>1, <2>2 DEF LintJob
  <2>5. PICK i \in DOMAIN program.body : i = old.at
    BY <1>12, <2>2
  <2>6. ~Concurrent(program.body[i]) /\ call = program.body[i]
    BY <1>9, <1>12, <2>2, <2>5
  <2>7. \A k \in 1..(i - 1) : ~Recreates(program.body, k)
    BY <2>4, <2>5
  <2>8. Harm(d, program.body[i]) \subseteq Waived
    BY <1>13, <2>1, <2>6, <2>7, HarmIsWaived
  <2>9. Harm(d, call) \subseteq Waived
    BY <2>6, <2>8
  <2> QED BY <1>9, <2>1, <2>2, <2>3, <2>9
<1>14. CASE mig' = [mig EXCEPT ![d] = Idle]
  <2>1. PICK idle : idle = Idle
    OBVIOUS
  <2>2. LintJob(body, idle)
    BY <2>1, LintDeploy
  <2>3. mig' = [mig EXCEPT ![d] = idle] /\ program' = program /\ schema' = schema
    BY <1>9, <1>14, <2>1
  <2>4. ~Rollout /\ Judged => /\ harms' \subseteq Waived
                              /\ TableStays(program.body, schema')
                              /\ LintJob(program.body, idle)
    BY <1>12, <1>13, <2>2, <2>3
  <2> QED BY <1>11, <2>3, <2>4, LintStep
<1>15. CASE mig' = [mig EXCEPT ![d] = new] /\ ~CallFails(call, s, old.made)
  <2>1. ASSUME ~Rollout, Judged PROVE LintJob(body, new)
    <3>1. /\ old.rev = 6 /\ old.at \in DOMAIN body /\ call = body[old.at]
          /\ LintJob(body, old) /\ TableStays(body, s)
      BY <1>13, <2>1
    <3>2. ~Recreates(body, old.at)
      <4>1. ASSUME Recreates(body, old.at) PROVE FALSE
        <5>1. s.table /\ call.op = "create_table" /\ call.table = "t"
          BY <3>1, <4>1 DEF TableStays, Recreates
        <5>2. CallFails(call, s, old.made)
          BY <5>1 DEF CallFails
        <5> QED BY <1>15, <5>2
      <4> QED BY <4>1
    <3>3. ~new.building
      <4>1. ASSUME old.building PROVE FALSE
        BY <1>9, <3>1, <4>1 DEF LintJob
      <4> QED BY <1>8, <4>1
    <3>4. TableStays(body, new.tx)
      <4>1. ASSUME NEW k \in DOMAIN body, Recreates(body, k) PROVE tx.table
        <5>1. s.table
          BY <3>1, <4>1 DEF TableStays
        <5>2. ~(call.op = "drop_table" /\ call.table # "n")
          BY <1>12, <2>1, <3>1, <4>1 DEF Judged, Recreates
        <5>3. call.op # "rename_table"
          BY <1>12, <2>1, <3>1 DEF Judged, Readable, KnownOps, DESTRUCTIVE_OPS
        <5> QED BY <1>4, <5>1, <5>2, <5>3, AfterCallTable
      <4> QED BY <1>8, <4>1 DEF TableStays
    <3> QED BY <1>1, <1>8, <3>1, <3>2, <3>3, <3>4, LintPast
  <2>2. ~Rollout /\ Judged => /\ harms' \subseteq Waived
                              /\ TableStays(program.body, schema')
                              /\ LintJob(program.body, new)
    BY <1>9, <1>12, <1>13, <2>1
  <2> QED BY <1>9, <1>11, <1>15, <2>2, LintStep
<1> QED BY <1>10, <1>14, <1>15

\* A concurrent call creates an index and no table.
LEMMA ConcurrentCall ==
    ASSUME NEW body, Authored(body), NEW k, k \in DOMAIN body, Concurrent(body[k])
    PROVE  ~Recreates(body, k)
<1>1. "concurrently" \in body[k].opts
  BY DEF Concurrent
<1>2. body[k].op = "create_index"
  BY <1>1 DEF Authored
<1> QED BY <1>2 DEF Recreates

\* The autocommit block commits what precedes it and begins a build.
LEMMA LintStartBuild ==
    ASSUME RolloutOK, LintOK, NEW d \in Deployers, StartBuild(d)
    PROVE  LintOK'
<1>1. PICK old \in JobType : old = mig[d]
  BY DEF RolloutOK, RolloutTypes
<1>2. PICK s \in Schema : s = View(d)
  BY <1>1 DEF View, RolloutOK, RolloutTypes, JobType
<1>3. PICK fresh \in BOOLEAN : fresh = (CurrentCall(d).table = "n")
  OBVIOUS
<1>4. /\ AtCall(d) /\ Concurrent(CurrentCall(d)) /\ UNCHANGED <<program, harms>>
  BY DEF StartBuild, Autocommit
<1>5. CASE (fresh /\ ~old.made) \/ (~fresh /\ (~s.table \/ s.index # "none"))
  <2>1. mig' = [mig EXCEPT ![d] = Idle] /\ schema' \in {schema, View(d)}
    BY <1>1, <1>2, <1>3, <1>5 DEF StartBuild
  <2>2. mig[d].rev # 0
    BY <1>4 DEF AtCall
  <2> QED BY <1>4, <2>1, <2>2, LintEnd
<1>6. CASE ~((fresh /\ ~old.made) \/ (~fresh /\ (~s.table \/ s.index # "none")))
  <2>1. PICK at \in Nat \ {0} : at = IF fresh THEN old.at + 1 ELSE old.at
    BY <1>1 DEF JobType
  <2>2. PICK building \in BOOLEAN : building = ~fresh
    OBVIOUS
  <2>3. PICK new : new = [old EXCEPT !.lock = "none", !.tx = NoSchema, !.building = building,
                                     !.at = at]
    OBVIOUS
  <2>4. /\ new \in JobType /\ new.rev = old.rev /\ new.at = at /\ new.lock = "none"
        /\ new.building = building
    <3>1. NoSchema \in Schema
      BY DEF NoSchema, Schema
    <3> QED BY <1>1, <2>1, <2>2, <2>3, <3>1 DEF JobType
  <2>5. PICK index \in {"none", "invalid", "valid"} :
          index = IF fresh THEN s.index ELSE "invalid"
    BY <1>2 DEF Schema
  <2>6. schema' = [s EXCEPT !.index = index]
    BY <1>1, <1>2, <1>3, <1>6, <2>5 DEF StartBuild
  <2>7. schema'.table = s.table
    BY <1>2, <2>5, <2>6 DEF Schema
  <2>8. mig' = [mig EXCEPT ![d] = new]
    <3>1. mig' = [mig EXCEPT ![d].lock = "none", ![d].tx = NoSchema,
                             ![d].building = building, ![d].at = at]
      BY <1>1, <1>2, <1>3, <1>6, <2>1, <2>2 DEF StartBuild, RolloutOK, RolloutTypes, JobType
    <3> QED BY <1>1, <2>3, <3>1 DEF RolloutOK, RolloutTypes
  <2>9. ASSUME ~Rollout, Judged
        PROVE  /\ harms' \subseteq Waived /\ TableStays(program.body, schema')
               /\ LintJob(program.body, new)
    <3>1. PICK body : body = program.body
      OBVIOUS
    <3>2. LintJob(body, old) /\ program \in Programs /\ harms \subseteq Waived
      BY <1>1, <2>9, <3>1 DEF LintOK
    <3>3. /\ old.rev = 6 /\ old.at \in DOMAIN body /\ Concurrent(body[old.at])
          /\ Authored(body)
      BY <1>1, <1>4, <2>9, <3>1, <3>2, JudgedCall
    <3>4. TableStays(body, s)
      BY <1>1, <1>2, <2>9, <3>1, <3>3, LintView
    <3>5. ~Recreates(body, old.at)
      BY <3>3, ConcurrentCall
    <3>6. CASE fresh
      <4>1. new.at = old.at + 1 /\ ~new.building /\ new.lock # "held"
        BY <2>1, <2>2, <2>4, <3>6
      <4>2. LintJob(body, new)
        BY <1>1, <2>4, <3>2, <3>5, <4>1, LintPast
      <4> QED BY <1>4, <2>7, <3>1, <3>2, <3>4, <4>2 DEF TableStays
    <3>7. CASE ~fresh
      <4>1. new.at = old.at /\ new.lock # "held"
        BY <2>1, <2>4, <3>7
      <4>2. LintJob(body, new)
        BY <2>4, <3>2, <3>3, <4>1 DEF LintJob
      <4> QED BY <1>4, <2>7, <3>1, <3>2, <3>4, <4>2 DEF TableStays
    <3> QED BY <3>6, <3>7
  <2> QED BY <1>4, <2>8, <2>9, LintStep
<1> QED BY <1>5, <1>6

\* The build ends.
LEMMA LintFinishBuild ==
    ASSUME RolloutOK, LintOK, NEW d \in Deployers, FinishBuild(d)
    PROVE  LintOK'
<1>1. PICK old \in JobType : old = mig[d]
  BY DEF RolloutOK, RolloutTypes
<1>2. PICK at \in Nat \ {0} : at = old.at + 1
  BY <1>1 DEF JobType
<1>3. PICK new : new = [old EXCEPT !.building = FALSE, !.at = at]
  OBVIOUS
<1>4. /\ new \in JobType /\ new.rev = old.rev /\ new.at = old.at + 1 /\ new.lock = old.lock
      /\ ~new.building /\ new.tx = old.tx
  BY <1>1, <1>2, <1>3 DEF JobType
<1>5. /\ mig' = [mig EXCEPT ![d] = new] /\ old.building /\ UNCHANGED <<program, harms>>
  BY <1>1, <1>2, <1>3 DEF FinishBuild, RolloutOK, RolloutTypes, JobType
<1>6. schema'.table = schema.table
  BY DEF FinishBuild, RolloutOK, RolloutTypes, Schema
<1>7. ASSUME ~Rollout, Judged
      PROVE  /\ harms' \subseteq Waived /\ TableStays(program.body, schema')
             /\ LintJob(program.body, new)
  <2>1. PICK body : body = program.body
    OBVIOUS
  <2>2. /\ LintJob(body, old) /\ harms \subseteq Waived
        /\ TableStays(body, schema) /\ Authored(body)
    BY <1>1, <1>7, <2>1, MigrationAssumption DEF LintOK
  <2>3. LintJob(body, new)
    <3>1. CASE old.rev = 6
      <4>1. old.at \in DOMAIN body /\ Concurrent(body[old.at])
        BY <1>5, <2>2, <3>1 DEF LintJob
      <4>2. ~Recreates(body, old.at)
        BY <2>2, <4>1, ConcurrentCall
      <4>3. new.lock = "held" => TableStays(body, new.tx)
        BY <1>4, <2>2, <3>1 DEF LintJob
      <4> QED BY <1>1, <1>4, <2>2, <4>2, <4>3, LintPast
    <3>2. CASE old.rev # 6
      BY <1>4, <3>2 DEF LintJob
    <3> QED BY <3>1, <3>2
  <2> QED BY <1>5, <1>6, <2>1, <2>2, <2>3 DEF TableStays
<1> QED BY <1>5, <1>7, LintStep

\* The version row is updated, or another job was faster.
LEMMA LintStamp ==
    ASSUME RolloutOK, LintOK, NEW d \in Deployers, Stamp(d)
    PROVE  LintOK'
<1>1. /\ mig[d].rev # 0 /\ UNCHANGED <<program, harms>>
      /\ schema' \in {schema, View(d)}
  BY DEF Stamp
<1>2. CASE mig' = [mig EXCEPT ![d] = Idle]
  BY <1>1, <1>2, LintEnd
<1>3. CASE mig' # [mig EXCEPT ![d] = Idle]
  <2>1. mig[d].rev \notin {4, 6} /\ mig' = [mig EXCEPT ![d] = Deploy(mig[d].rev + 1)]
    BY <1>3 DEF Stamp
  <2>2. Rollout
    BY <1>1, <2>1 DEF RolloutOK, OtherOK
  <2>3. PICK new : new = Deploy(mig[d].rev + 1)
    OBVIOUS
  <2>4. mig' = [mig EXCEPT ![d] = new]
    BY <2>1, <2>3
  <2> QED BY <1>1, <2>2, <2>4, LintStep
<1> QED BY <1>2, <1>3

\* A job's step.
LEMMA LintDeployStep ==
    ASSUME RolloutOK, LintOK, NEW d \in Deployers, DeployStep(d)
    PROVE  LintOK'
<1>1. CASE FailUpgrade(d)
  BY <1>1, LintEnd DEF FailUpgrade
<1>2. CASE LoseStamp(d)
  BY <1>2, LintEnd DEF LoseStamp
<1>3. CASE Proceed(d)
  BY <1>3, LintRequestLock, LintExecute, LintSkip, LintStartBuild, LintFinishBuild, LintStamp
  DEF Proceed
<1> QED BY <1>1, <1>2, <1>3, LintUpgrade DEF DeployStep

LEMMA LintInit == Init => LintOK
<1> SUFFICES ASSUME Init PROVE LintOK
  OBVIOUS
<1>1. program \in Programs /\ harms = {}
  BY DEF Init
<1>2. ASSUME ~Rollout PROVE TableStays(program.body, schema)
  <2>1. schema.table
    BY <1>2 DEF Init, NoSchema
  <2> QED BY <2>1 DEF TableStays
<1>3. ASSUME NEW d \in Deployers PROVE LintJob(program.body, mig[d])
  <2>1. mig[d].rev = 0
    BY DEF Init, Idle, Deploy
  <2> QED BY <2>1 DEF LintJob
<1> QED BY <1>1, <1>2, <1>3 DEF LintOK

\* Every step of the rollout keeps the linter's invariant.
LEMMA LintNext == MigrationOK /\ LintOK /\ [Next]_vars => LintOK'
<1> SUFFICES ASSUME RolloutOK, LintOK, [Next]_vars PROVE LintOK'
  BY DEF MigrationOK
<1>1. CASE UNCHANGED vars
  BY <1>1, LintFrame DEF vars
<1>2. ASSUME NEW w \in Workers, BackfillStep(w) PROVE LintOK'
  BY <1>2, LintFrame DEF BackfillStep, rolloutVars
<1>3. ASSUME NEW a \in Apps, AppStep(a) PROVE LintOK'
  BY <1>3, LintFrame DEF AppStep, StartApp, StopApp, Insert, CommitRow
<1>4. ASSUME NEW d \in Deployers, DeployStep(d) PROVE LintOK'
  BY <1>4, LintDeployStep
<1>5. CASE RepairIndex
  <2>1. UNCHANGED <<mig, program, harms>> /\ heads = {2}
    BY <1>5 DEF RepairIndex
  <2>2. Rollout
    BY <2>1 DEF RolloutOK, OtherOK
  <2> QED BY <2>1, <2>2, LintFrame
<1> QED BY <1>1, <1>2, <1>3, <1>4, <1>5 DEF Next

\* A revision of any length that consists of calls the linter has a rule for and can
\* read, and that it passes without a warning, does no harm to a table in use but what
\* its waivers allow.  Of other revisions, which Programs may hold too, nothing is
\* claimed (migration_safety.py against the calls of migration_ops.py).
THEOREM LintTheorem == Spec => []LintedIsHarmless
<1>1. LintOK => LintedIsHarmless
  BY DEF LintOK, LintedIsHarmless, Waived
<1>2. Spec => []LintOK
  BY MigrationInvariant, LintInit, LintNext, PTL DEF Spec
<1> QED BY <1>1, <1>2, PTL
=============================================================================
