------------------------------ MODULE Migration ------------------------------
(***************************************************************************)
(* A rollout: deployers run "alembic upgrade head" (alembic/env.py, one    *)
(* transaction per migration), workers run the backfill (module Backfill), *)
(* and old and new application processes, let in by the schema check of    *)
(* database/schema_compatibility.py, insert rows.  Revisions 1 to 4 are    *)
(* the documented expand, index, backfill, enforce sequence made with the  *)
(* helpers of database/migration_ops.py; revision 6 on top of 5 is any     *)
(* revision an author may write, which the linter has looked at.           *)
(***************************************************************************)
EXTENDS Backfill, MigrationSafety

CONSTANTS
    Deployers,  \* release jobs
    OldApps,    \* processes whose code does not know the new column
    NewApps,    \* processes that write it
    MaxUpgrades,    \* bound: upgrade commands
    Programs    \* the revisions to lint: records [body, waivers]

ASSUME MigrationAssumption ==
    /\ MaxUpgrades \in Nat /\ OldApps \cap NewApps = {}
    /\ \A p \in Programs : Authored(p.body)

VARIABLES
    schema,     \* the committed catalog of table t
    upgrades,   \* upgrade commands so far
    heads,      \* the rows of storage_alembic_version
    mig,        \* what each deployer is doing
    app,        \* the application processes
    behind,     \* rows committed without the column after a batch has read past them
    program,    \* revision 6
    harms       \* what revision 6 has done to the running system

rolloutVars == <<upgrades, schema, heads, mig, app, behind, program, harms>>

vars == <<rows, fills, checkpoint, run, upgrades, schema, heads, mig, app, behind, program, harms>>

Apps == OldApps \cup NewApps

Schema == [table: BOOLEAN, column: {"absent", "nullable", "notnull"},
           check: {"none", "not_valid", "valid"}, index: {"none", "invalid", "valid"}]

NoSchema == [table |-> FALSE, column |-> "absent", check |-> "none", index |-> "none"]

Revisions == 1..6

\* The revisions of the rollout.
Body(rev) ==
    CASE rev = 1 -> <<Call("create_table", "t", {})>>
      [] rev = 2 -> <<Call("add_column", "t", {})>>
      [] rev = 3 -> create_index_concurrently("t")
      [] rev = 4 -> enforce_not_null("t")
      [] rev = 6 -> program.body

DownRevision(rev) == IF rev = 1 THEN {} ELSE {rev - 1}

Deployment == [rev: {0} \cup Revisions,     \* the revision that is applied; 0: none
               at: Nat,                     \* the next call of its upgrade()
               lock: {"none", "queued", "held"},    \* ACCESS EXCLUSIVE on t
               tx: Schema,                  \* the catalog as its transaction sees it
               building: BOOLEAN,           \* inside CREATE INDEX CONCURRENTLY
               made: BOOLEAN]               \* table n is created

Deploy(rev) == [rev |-> rev, at |-> 1, lock |-> "none", tx |-> NoSchema,
                building |-> FALSE, made |-> FALSE]

Idle == Deploy(0)

-----------------------------------------------------------------------------
(* schema_compatibility.py                                                  *)

Policy(a) ==
    IF a \in OldApps THEN [expected_revision |-> 1, compatible_revisions |-> {1, 2, 3}]
                     ELSE [expected_revision |-> 4, compatible_revisions |-> {2, 3, 4}]

\* evaluate_schema_revisions
State(revisions, policy) ==
    IF revisions = {} THEN "unversioned"
    ELSE IF Cardinality(revisions) # 1 THEN "multiple_heads"
    ELSE IF revisions = {policy.expected_revision} THEN "current"
    ELSE IF revisions \subseteq policy.compatible_revisions THEN "compatible"
    ELSE "incompatible"

\* Mutant: a database without revisions is taken for a fresh, compatible one.
Compatible_Unversioned(revisions, policy) ==
    State(revisions, policy) \in {"current", "compatible", "unversioned"}

\* SchemaCompatibilityReport.compatible
Compatible(revisions, policy) == State(revisions, policy) \in {"current", "compatible"}

\* A process starts: require_schema_compatible_sync.
StartApp(a) ==
    /\ ~app[a].up
    /\ Compatible(heads, Policy(a))
    /\ app' = [app EXCEPT ![a] = [up |-> TRUE, seen |-> heads, row |-> 0]]
    /\ UNCHANGED <<backfillVars, upgrades, schema, heads, mig, behind, program, harms>>

\* The process ends; its open transaction is rolled back.
StopApp(a) ==
    /\ app[a].up
    /\ app' = [app EXCEPT ![a] = [up |-> FALSE, seen |-> {}, row |-> 0]]
    /\ rows' = [i \in Ids |-> IF i = app[a].row THEN "gone" ELSE rows[i]]
    /\ UNCHANGED <<fills, checkpoint, run, upgrades, schema, heads, mig, behind, program, harms>>

\* The INSERT of the process fits the table.
CanWrite(a) ==
    /\ schema.table
    /\ IF a \in OldApps THEN schema.column # "notnull" ELSE schema.column # "absent"

Holds(d) == mig[d].lock = "held"

Unlocked == \A d \in Deployers : mig[d].lock = "none"

\* An INSERT takes the next id; it waits behind requests for ACCESS EXCLUSIVE.
Insert(a) ==
    /\ app[a].up /\ app[a].row = 0 /\ CanWrite(a) /\ Unlocked
    /\ \E i \in Ids :
         /\ rows[i] = "absent" /\ \A j \in 1..(i - 1) : rows[j] # "absent"
         /\ rows' = [rows EXCEPT ![i] = "open"]
         /\ app' = [app EXCEPT ![a].row = i]
    /\ UNCHANGED <<fills, checkpoint, run, upgrades, schema, heads, mig, behind, program, harms>>

\* A batch has read past the id.
Passed(i) ==
    i <= checkpoint \/ \E w \in Workers : run[w].pc = "save" /\ i <= run[w].batch.next

\* Its transaction commits, possibly after one that took a later id.
CommitRow(a) ==
    LET i == app[a].row
    IN  /\ i # 0
        /\ rows' = [rows EXCEPT ![i] = IF a \in OldApps THEN "null" ELSE "filled"]
        /\ behind' = IF a \in OldApps /\ Passed(i) THEN behind \cup {i} ELSE behind
        /\ app' = [app EXCEPT ![a].row = 0]
        /\ UNCHANGED <<fills, checkpoint, run, upgrades, schema, heads, mig, program, harms>>

-----------------------------------------------------------------------------
(* The calls of upgrade() on PostgreSQL.                                    *)

Nulls == \E i \in Ids : rows[i] = "null"

Has(call, option) == option \in call.opts

\* The catalog that a call of the deployer sees.
View(d) == IF Holds(d) THEN mig[d].tx ELSE schema

\* The call raises.
CallFails(call, s, made) ==
    CASE call.op = "create_table" -> IF call.table = "n" THEN made ELSE s.table
      [] call.op # "create_table" /\ call.table = "n" -> ~made \/ Has(call, "concurrently")
      [] OTHER ->
           \/ ~s.table
           \/ call.op = "add_column"
                /\ (s.column # "absent" \/ (Has(call, "non_null") /\ ~Has(call, "server_default")))
           \/ call.op = "drop_column" /\ s.column = "absent"
           \/ call.op = "create_index" /\ (s.index # "none" \/ Has(call, "concurrently"))
           \/ call.op = "drop_index" /\ s.index = "none"
           \/ call.op = "create_check_constraint"
                /\ (s.check # "none" \/ (~Has(call, "not_valid") /\ Nulls))
           \/ Has(call, "validate") /\ (s.check = "none" \/ Nulls)
           \/ call.op = "alter_column" /\ Has(call, "non_null") /\ (s.column = "absent" \/ Nulls)
           \/ call.op = "drop_constraint" /\ s.check = "none"

\* The catalog after the call.
AfterCall(call, s) ==
    IF call.table = "n" THEN s
    ELSE CASE call.op = "create_table" -> [s EXCEPT !.table = TRUE]
           [] call.op \in {"drop_table", "rename_table"} -> NoSchema
           [] call.op = "add_column" ->
                [s EXCEPT !.column = IF Has(call, "non_null") THEN "notnull" ELSE "nullable"]
           [] call.op = "drop_column" -> [s EXCEPT !.column = "absent"]
           [] call.op = "create_index" -> [s EXCEPT !.index = "valid"]
           [] call.op = "drop_index" -> [s EXCEPT !.index = "none"]
           [] call.op = "create_check_constraint" ->
                [s EXCEPT !.check = IF Has(call, "not_valid") THEN "not_valid" ELSE "valid"]
           [] call.op = "execute" /\ Has(call, "validate") -> [s EXCEPT !.check = "valid"]
           [] call.op = "alter_column" /\ Has(call, "non_null") ->
                [s EXCEPT !.column = "notnull"]
           [] call.op = "drop_constraint" -> [s EXCEPT !.check = "none"]
           [] OTHER -> s

\* The call reads or rewrites every row of t.
Scans(call, s) ==
    \/ call.op \in {"create_index", "create_unique_constraint"}
    \/ call.op = "add_column" /\ Has(call, "computed")
    \/ call.op \in {"create_check_constraint", "create_foreign_key"} /\ ~Has(call, "not_valid")
    \/ call.op = "alter_column" /\ Has(call, "type")
    \/ call.op = "alter_column" /\ Has(call, "non_null") /\ s.check # "valid"
    \/ Has(call, "validate")

\* What the call does to a table that is in use: data is lost, writers wait for a
\* scan, the name they use is taken away, or the release stops half way.
Harms == {"lost", "blocked", "renamed", "failed"}

Harm(d, call) ==
    LET s == View(d)
    IN  {h \in Harms :
           /\ call.table # "n"
           /\ CASE h = "lost" -> call.op \in {"drop_table", "drop_column"} \/ Has(call, "drop_sql")
                [] h = "blocked" ->
                     Scans(call, s) /\ ~Has(call, "concurrently")
                                    /\ (Has(call, "validate") => Holds(d))
                [] h = "renamed" -> call.op = "rename_table" \/ Has(call, "rename")
                [] h = "failed" ->
                     \/ call.op = "create_index" /\ Has(call, "concurrently")
                          /\ ~Has(call, "autocommit")
                     \/ call.op = "add_column" /\ Has(call, "non_null")
                          /\ ~Has(call, "server_default") /\ s.column = "absent"}

-----------------------------------------------------------------------------
(* alembic upgrade head                                                     *)

\* run_sync_migrations: the revisions after the stamped one, if there are any.
Upgrade(d) ==
    /\ mig[d] = Idle
    /\ upgrades < MaxUpgrades /\ upgrades' = upgrades + 1
    /\ \E rev \in Revisions \ {5} :
         /\ heads = DownRevision(rev)
         /\ mig' = [mig EXCEPT ![d] = Deploy(rev)]
    /\ UNCHANGED <<backfillVars, schema, heads, app, behind, program, harms>>

AtCall(d) == mig[d].rev # 0 /\ mig[d].at <= Len(Body(mig[d].rev))

CurrentCall(d) == Body(mig[d].rev)[mig[d].at]

Concurrent(call) == {"concurrently", "autocommit"} \subseteq call.opts

\* Another transaction holds a lock on t that conflicts with ACCESS EXCLUSIVE.
TableInUse(d) ==
    \/ \E a \in Apps : app[a].row # 0
    \/ \E w \in Workers : run[w].pc = "save"
    \/ \E e \in Deployers \ {d} : Holds(e) \/ mig[e].building

\* A call in the transaction of the revision asks for its lock.
RequestLock(d) ==
    /\ AtCall(d) /\ ~Concurrent(CurrentCall(d)) /\ mig[d].lock = "none"
    /\ mig' = [mig EXCEPT ![d].lock = "queued"]
    /\ UNCHANGED <<backfillVars, upgrades, schema, heads, app, behind, program, harms>>

\* A call in the transaction of the revision, or its failure, which ends the
\* upgrade and rolls the revision back.
Execute(d) ==
    LET call == CurrentCall(d)
        s == View(d)
        here == mig[d]
    IN  /\ AtCall(d) /\ ~Concurrent(call) /\ here.lock # "none" /\ ~TableInUse(d)
        /\ harms' = harms \cup IF here.rev = 6 THEN Harm(d, call) ELSE {}
        /\ mig' = [mig EXCEPT ![d] =
                     IF CallFails(call, s, here.made)
                       THEN Idle
                       ELSE [here EXCEPT !.at = @ + 1, !.lock = "held",
                                         !.tx = AfterCall(call, s),
                                         !.made = @ \/ (call.op = "create_table"
                                                        /\ call.table = "n")]]
        /\ UNCHANGED <<backfillVars, upgrades, schema, heads, app, behind, program>>

\* The branch around the call is not taken.
SkipCall(d) ==
    /\ AtCall(d) /\ Has(CurrentCall(d), "if") /\ mig[d].lock # "queued" /\ ~mig[d].building
    /\ mig' = [mig EXCEPT ![d].at = @ + 1]
    /\ UNCHANGED <<backfillVars, upgrades, schema, heads, app, behind, program, harms>>

\* autocommit_block commits what precedes it.
Autocommit(d) ==
    /\ AtCall(d) /\ Concurrent(CurrentCall(d)) /\ ~mig[d].building
    /\ Holds(d) \/ Unlocked
    /\ UNCHANGED <<backfillVars, upgrades, heads, app, behind, program, harms>>

\* Mutant: the index is created IF NOT EXISTS, so that one left by a failed build
\* is taken for the index.
StartBuild_IfNotExists(d) ==
    /\ Autocommit(d)
    /\ mig' = [mig EXCEPT ![d].lock = "none", ![d].tx = NoSchema,
                          ![d].building = (schema.index = "none"),
                          ![d].at = IF schema.index = "none" THEN @ ELSE @ + 1]
    /\ schema' = [View(d) EXCEPT !.index = IF @ = "none" THEN "invalid" ELSE @]

\* The build begins: the index is in the catalog and not valid.  It fails if the
\* name is taken, be it by an index that is not valid.  The index of an empty table
\* is there at once.
StartBuild(d) ==
    LET s == View(d)
        new == CurrentCall(d).table = "n"
    IN  /\ Autocommit(d)
        /\ IF (new /\ ~mig[d].made) \/ (~new /\ (~s.table \/ s.index # "none"))
             THEN mig' = [mig EXCEPT ![d] = Idle] /\ schema' = s
             ELSE /\ mig' = [mig EXCEPT ![d].lock = "none", ![d].tx = NoSchema,
                                       ![d].building = ~new,
                                       ![d].at = IF new THEN @ + 1 ELSE @]
                  /\ schema' = [s EXCEPT !.index = IF new THEN @ ELSE "invalid"]

\* The index is valid.  The build waits for older transactions, which all end.
FinishBuild(d) ==
    /\ mig[d].building
    /\ mig' = [mig EXCEPT ![d].building = FALSE, ![d].at = @ + 1]
    /\ schema' = [schema EXCEPT !.index = "valid"]
    /\ UNCHANGED <<backfillVars, upgrades, heads, app, behind, program, harms>>

\* The UPDATE of the version row matches one row.
Stampable(rev) == heads = DownRevision(rev)

\* The version row is updated and the transaction of the revision commits; the next
\* revision begins, or the command ends.
Stamp(d) ==
    LET rev == mig[d].rev
    IN  /\ rev # 0 /\ ~AtCall(d)
        /\ IF Stampable(rev)
             THEN /\ schema' = View(d)
                  /\ heads' = {rev}
                  /\ mig' = [mig EXCEPT ![d] = IF rev \in {4, 6} THEN Idle ELSE Deploy(rev + 1)]
             ELSE mig' = [mig EXCEPT ![d] = Idle] /\ UNCHANGED <<schema, heads>>
        /\ UNCHANGED <<backfillVars, upgrades, app, behind, program, harms>>

\* The answer of that COMMIT is lost, and the command ends.
LoseStamp(d) ==
    LET rev == mig[d].rev
    IN  /\ rev # 0 /\ ~AtCall(d) /\ Stampable(rev)
        /\ schema' = View(d)
        /\ heads' = {rev}
        /\ mig' = [mig EXCEPT ![d] = Idle]
        /\ UNCHANGED <<backfillVars, upgrades, app, behind, program, harms>>

\* The release job dies, or lock_timeout strikes: its transaction is rolled back,
\* and an index it was building stays behind.
FailUpgrade(d) ==
    /\ mig[d].rev # 0
    /\ mig' = [mig EXCEPT ![d] = Idle]
    /\ UNCHANGED <<backfillVars, upgrades, schema, heads, app, behind, program, harms>>

\* The operator drops an index that an upgrade has left without its stamp, valid or
\* not: the revision cannot be applied again before.
RepairIndex ==
    /\ schema.index # "none" /\ heads = {2} /\ \A d \in Deployers : mig[d] = Idle
    /\ schema' = [schema EXCEPT !.index = "none"]
    /\ UNCHANGED <<backfillVars, upgrades, heads, mig, app, behind, program, harms>>

-----------------------------------------------------------------------------
(* The specification.                                                       *)

\* Whether the database is to go through revisions 1 to 4, from nothing, or to be
\* given revision 6 while table t is in use.
Rollout == program.body = <<>>

Init ==
    /\ mig = [d \in Deployers |-> Idle]
    /\ app = [a \in Apps |-> [up |-> FALSE, seen |-> {}, row |-> 0]]
    /\ behind = {} /\ harms = {} /\ upgrades = 0
    /\ program \in Programs
    /\ IF Rollout
         THEN /\ heads = {} /\ schema = NoSchema
              /\ rows = [i \in Ids |-> "absent"]
         ELSE /\ heads = {5} /\ schema = [NoSchema EXCEPT !.table = TRUE]
              /\ rows = [i \in Ids |-> IF i = 1 THEN "null" ELSE "absent"]
    /\ BackfillInit

\* The backfill is started once the column is there; its UPDATE waits behind
\* requests for ACCESS EXCLUSIVE.
BackfillStep(w) ==
    /\ \/ heads \subseteq {2, 3} /\ heads # {} /\ StartRun(w)
       \/ LoadCheckpoint(w)
       \/ Unlocked /\ ProcessBatch(w)
       \/ CommitBatch(w)
       \/ LoseCommit(w)
       \/ CrashRun(w)
    /\ UNCHANGED rolloutVars

AppStep(a) == StartApp(a) \/ StopApp(a) \/ Insert(a) \/ CommitRow(a)

Proceed(d) ==
    \/ RequestLock(d) \/ Execute(d) \/ SkipCall(d)
    \/ StartBuild(d) \/ FinishBuild(d) \/ Stamp(d)

DeployStep(d) == Upgrade(d) \/ Proceed(d) \/ LoseStamp(d) \/ FailUpgrade(d)

Next ==
    \/ \E w \in Workers : BackfillStep(w)
    \/ \E a \in Apps : AppStep(a)
    \/ \E d \in Deployers : DeployStep(d)
    \/ RepairIndex

Spec == Init /\ [][Next]_vars

-----------------------------------------------------------------------------
(* Properties.                                                              *)

\* Every variable has its type; a run of the backfill makes at most max_batches
\* batches.
TypeOK ==
    /\ BackfillTypeOK
    /\ schema \in Schema
    /\ heads \subseteq Revisions /\ upgrades \in 0..MaxUpgrades
    /\ mig \in [Deployers -> Deployment]
    /\ app \in [Apps -> [up: BOOLEAN, seen: SUBSET Revisions, row: 0..MaxId]]
    /\ behind \subseteq Ids
    /\ program \in Programs
    /\ harms \subseteq Harms

\* What the revisions up to rev leave in the catalog; an index that is being built,
\* or has failed, precedes revision 3.
Applied(rev) ==
    {s \in Schema :
       /\ s.table = (rev >= 1)
       /\ s.column = IF rev < 2 THEN "absent" ELSE IF rev < 4 THEN "nullable" ELSE "notnull"
       /\ s.check = "none"
       /\ IF rev < 2 THEN s.index = "none" ELSE rev >= 3 => s.index = "valid"}

\* The version table tells the truth: the committed catalog is what the revisions
\* up to the stamped one make of it, whatever jobs race, die or lose their answers
\* (alembic/env.py runs one transaction per migration, create_index_concurrently
\* leaves it).
StampedIsApplied == Rollout => schema \in Applied(IF heads = {} THEN 0 ELSE Max(heads))

\* A process that require_schema_compatible_sync has let in can write until a later
\* revision is stamped.
AdmittedCanWrite == \A a \in Apps : app[a].up /\ app[a].seen = heads => CanWrite(a)

\* The checkpoint of the backfill never passes a row that is there and not filled,
\* whatever batches fail and workers race; only rows that were committed after
\* the batch had read past them are left.
CheckpointCovers ==
    \A i \in Ids : i <= checkpoint /\ rows[i] = "null" => i \in behind

\* The errors of the linter and the harm each stands for.
HarmOf(code) ==
    CASE code \in {"destructive-change", "destructive-sql"} -> "lost"
      [] code \in {"blocking-index", "immediate-constraint-validation",
                   "column-type-rewrite"} -> "blocked"
      [] OTHER -> "failed"

\* A call that the linter has a rule for and every word of which it can read: one of
\* KnownOps, made as a statement on op or by a helper, which sets nullability and
\* concurrency in its sight and does nothing besides that no rule is about.
Readable(call) ==
    /\ call.op \in KnownOps
    /\ {"unseen", "computed", "rename"} \cap call.opts = {}
    /\ "opaque" \in call.opts => {"non_null", "concurrently"} \cap call.opts = {}

\* The revisions that are judged: those made of calls the linter can read which it
\* lets pass without a warning.  Of the others it says nothing: "a guardrail, not a
\* [...] substitute for migration review".  Left out are also revisions that create
\* a table in a branch, which the linter takes for created on every path, ones that
\* validate a constraint through a helper, which the linter does not see, and ones
\* that make a table they have dropped anew.
Judged ==
    LET calls == {program.body[i] : i \in DOMAIN program.body}
    IN  /\ Safe(program) /\ Warnings(program.body) = {}
        /\ \A call \in calls : Readable(call)
        /\ \A call \in calls : ~Has(call, "validate")
        /\ \A call \in calls : call.op = "create_table" => ~Has(call, "if")
        /\ \A c, d \in calls : c.op = "drop_table" /\ c.table # "n"
                                 => ~(d.op = "create_table" /\ d.table = "t")

\* The rules of the linter are right about the calls they are for: in whatever order
\* a revision makes them, on new and existing tables, in branches, in autocommit
\* blocks and through helpers, a judged revision does no harm to a table in use but
\* what its waivers allow (migration_safety.py against the calls of migration_ops.py).
LintedIsHarmless == Judged => harms \subseteq {HarmOf(code) : code \in program.waivers}
=============================================================================
