# Verification of prodkit-storage

TLA+ models of the parts of `prodkit_storage` whose correctness depends on the
order of concurrent steps, on expiring leases and on failures, checked with TLC
on small instances and proved with TLAPS for every size.
Paths below are relative to `src/prodkit_storage/` of the repository.

## 1. The system

`prodkit_storage` is a library for services on PostgreSQL (SQLAlchemy) and
Redis. It has no process of its own: its operations run in the threads, tasks
and processes of the services that use it, and meet in the two databases.

| component | state | operations | what makes it hard | what makes it correct |
|---|---|---|---|---|
| Outbox (`outbox.py`, `models/outbox.py`) | `storage_outbox_events` rows; leases in workers' memory | `enqueue_outbox_event`, `claim_outbox_events`, `complete_/fail_outbox_event`, `mark_outbox_published/failed` (all with async twins) | claims race, leases go stale and are taken over, workers die, COMMIT answers get lost, clocks disagree, two settling APIs with different fences | a stale worker changes nothing; settled events are final; no update is lost; dead exactly when attempts are used up; every event settles |
| Idempotency store (`redis/idempotency.py`) | one JSON record per key, with TTL | `begin`, `complete`, `release` | the client re-sends scripts, old ones run late, leases expire | one request at a time per key within the TTL; stored responses do not change and go to the same request only |
| Redis lock (`redis/locks.py`) | one key with token and TTL; `acquired` of the object | `acquire`, `extend`, `release`, `with` | the same, and polling with a deadline | who was told it has the lock has it, until TTL or release; acquire ends |
| Cache (`redis/cache.py`) | entries, tag sets, the lock of each key | `get`, `set`, `delete`, `invalidate_tag`, `get_or_set` | stampedes, loaders outliving the lock, tag sets shared by entries of different TTL | one loader at a time; invalidation reaches every tagged entry; tag sets do not pile up |
| Rate limiter (`redis/rate_limit.py`) | one hash per key, with TTL | `check` | lazy refill, idle keys disappear, rounding | equals an ideal token bucket |
| Redis clients (`redis/runtime.py`) | connection pool | `execute_command` with `Retry` and `retry_on_timeout` | a command may run twice, or after its caller gave up | a hazard for the four above rather than a promise |
| Streams (`redis/streams.py`) | a Redis stream | `publish` | at-least-once | not modelled: nothing in the repository joins it to the outbox |
| Transactions (`database/runtime.py`, `transactions.py`, `uow.py`, `sessions.py`, `snapshot.py`) | session with its added rows, connection and open transaction | `transaction`, `read_transaction`, `session`, `run_sync_transaction`, unit of work, `repeatable_read_sync` | retry after an ambiguous commit, calls the client gives up, swallowed errors, a connection taken only with the first statement | all or nothing; a retry repeats nothing that was applied; the outcome told is true |
| Tenant context (`context.py`, `database/tenant.py`, `alembic/rls.py`, `database/rls_verification.py`) | context variables; transaction-local settings; policies and role | set at the begin of a transaction; enable, disable, verify | pooled connections, context changed in the middle, roles that bypass policies | where the deployment is reported healthy and the policies bind the role, a transaction reads and writes one tenant |
| Query layer (`database/repository.py`, `filtering.py`, `sorting.py`, `pagination.py`, `base.py`) | rows with soft delete and version; entities of a session; row locks; cursor tokens | CRUD with locks, bulk statements, `paginate_*` | stale entities, locks that do not refresh, rows moving between pages, NULL order, old cursors | no update is lost under a version or a lock; deleted rows stay deleted; no row twice and none left out of a stable walk |
| Backfill (`database/backfill.py`, `locks.py`) | cursor checkpoint, filled column | batches | a crash or lost commit at a batch, two workers, rows that commit late | every row is processed, once |
| Schema (`database/migration_ops.py`, `migration_safety.py`, `schema_compatibility.py`, `alembic/`) | catalog, version table, indexes | upgrade, concurrent index build, staged constraints, linter, schema check | racing and dying release jobs, old and new code at once, builds outside the transaction | the stamp is true of the catalog; processes run on a schema they can write; what the linter can read and passes is harmless |
| Release publisher (`ops/release/publish_release.py`) | external release artefacts | `publish`: find, prepare, sync assets, tag, publish, verify | failure in any step, repeated requests, overlapping jobs | what is published is complete, at its tag and final; a second run repairs the first |
| Audit, roles, secrets, configuration, observability, health, CLI, framework adapters, data types | none that lasts beyond a call | | | |

The outbox uses transactions; the cache uses the lock;
everything in `redis/` goes through the retrying client. Repositories, audit and
outbox write through sessions, whose first statement runs the tenant hook. A
rollout brings release jobs, backfill workers and application processes of two
versions together on one table.

The hazards of this code, each at its line and with the properties that cover
it, are listed in `PROJECT.json`.

## 2. Modules

| module | models | kind |
|---|---|---|
| `OutboxLedger` | the promise of the outbox: only the holder of the current epoch settles an event | abstract specification |
| `Outbox` | the outbox tables, workers and clocks | specification, refines `OutboxLedger` |
| `OutboxProofs` | inductive invariant, theorems and refinement of `Outbox` | proofs |
| `Idempotency` | one idempotency key and the requests that use it | specification |
| `RedisLock` | one lock key and the lock objects that use it | specification |
| `Cache` | entries, tag sets and `get_or_set`; composed with `RedisLock` | specification |
| `CacheProofs` | inductive invariants and theorems about `RedisLock` and `Cache` | proofs |
| `TokenBucket` | a bucket that fills continuously | abstract specification |
| `RateLimit` | the bucket script with lazy refill and key expiry | specification, refines `TokenBucket` |
| `RedisScriptProofs` | inductive invariants and theorems about `Idempotency` and `RateLimit`, the two components that are Lua scripts on one key, and the refinement of `TokenBucket` | proofs |
| `Sorting` | sort plans, `ORDER BY`, the keyset boundary | operators |
| `Pagination` | a cursor walk and an offset request over a changing table | specification, extends `Sorting` |
| `PaginationProofs` | the order, the boundary, inductive invariants and theorems | proofs |
| `ReleasePublisher` | publisher jobs against the releases and the tag of a version | specification |
| `ReleasePublisherProofs` | inductive invariant and theorems about `ReleasePublisher` | proofs |
| `Sessions` | sessions, transactions, retries, tenant context and policies | specification |
| `SessionsProofs` | inductive invariant and theorems about `Sessions` | proofs |
| `Repository` | one row, and the entities and row locks of the sessions that use it | specification |
| `RepositoryProofs` | inductive invariant and theorems about `Repository` | proofs |
| `Backfill` | batches, checkpoint and workers | component of `Migration` |
| `MigrationSafety` | the staged helpers as sequences of calls, and the linter | operators |
| `Migration` | a rollout: release jobs, backfill, processes of two versions; and linted revisions, executed | specification, extends `Backfill` and `MigrationSafety` |
| `MigrationProofs` | inductive invariants and theorems about `Migration` with its backfill and linter | proofs |
| `MC*` | constants and symmetries for TLC | |

Definitions called `X_Something` stand before the definition `X` they vary;
each is `X` with one plausible bug, and the property named in `PROJECT.json`
fails when it takes the place of `X`. They are not part of any specification.

### Outbox

`rows` is the committed table. A claim is two steps because its transaction
stays open: `ClaimSelect` evaluates the query (eligible, not locked, first
`BatchSize` in order) and writes row images into `txn[w]`, which lock the rows;
`ClaimCommit` makes them visible and puts the leases into `held[w]`;
`ClaimRollback` and `Crash` drop them. Handing an event to a broker between claim
and settlement is the caller's: the repository has no dispatcher, so the model has
no such step and says nothing of the order, and a worker may settle whatever it
holds. `Complete` and `Fail` compare status and token; `MarkPublished` and `MarkFailed` are the ORM functions followed by a
flush whose WHERE clause compares the version. Each of these is one short
transaction that waits for a row lock, hence one step; with `answered = FALSE`
it commits and the worker does not learn of it, and may repeat the call.
`Skew` gives every worker its own clock, since `now` is taken in Python.
Payload, headers, `published_at` and `last_error` are left out: nothing reads
them. The sync and async functions have the same steps.

### The Redis modules

A command is sent, and then one of: it is answered (`Answered`, `SetAnswered`,
`ExtendAnswered`, `ReleaseAnswered`); it times out after it ran
(`Timeout(_, TRUE)`); it times out and is still under way (`Timeout(_, FALSE)`,
`late`), to run at any later moment or never (`RunLate`). After a timeout the
client sends the same command again, up to `MaxSends`, then raises. This is
what `Retry` and `retry_on_timeout=True` of `redis/runtime.py` mean for a
script. A key with an expiry in the past does not exist.

`RedisLock` keeps `until`, the moment up to which a caller may rely on the lock
from what it knows itself: TTL after it *sent* the successful command.
`ReuseAtOnce = FALSE` says that callers do not acquire or extend an object
again while a timed-out release, or an extend to a shorter TTL, of the same
object may still run. The token belongs to the object and not to the
acquisition, so without that discipline such a command does cut the new lease;
`get_or_set` is safe because it makes an object per call.

`Cache` runs the lock steps of `RedisLock` inside `get_or_set`. `Set` on any key
at any time also stands for a pipeline that was re-sent or ran late. `guarded`
marks an entry that was stored by a call whose lock was still good.

`RateLimit` counts in units such that the refill per millisecond is whole;
floating point rounding in Lua is outside the model. `spent` records the running
total before and after every request that was let through, so that what passed
between two of them is a difference. Its specification is `LimitSpec`, its clock
`now`: `RedisScriptProofs` extends it together with `Idempotency`.

### Sorting and pagination

`Resolve` is `SortRegistry.resolve`; `Boundary`, `After` and `Equality` are the
WHERE clause of a cursor with SQL's NULL; `Precedes` is what `ORDER BY` with
`NULLS FIRST/LAST` sorts by. `Pages(request, cursor, limit)` is the set of pages
a page query may return: one row more than the limit is fetched, and rows that
tie come in any order, which without the tie-breaker loses rows.

`walk` is one client going from page to page (`FirstPage`, `NextPage`,
`Refuse`), sync or async; `seen` and `stable` record what it was given and
which rows of the result nobody touched since the first page. It may return
with another sort order, query or cursor format. `offset` is one request by
page number, whose count and rows are two statements (`OffsetCount`,
`OffsetFetch`). The client does one or the other: readers do not disturb each
other. `Insert`, `Remove` and `Update` are other transactions.

Abstracted: signatures are unforgeable and hashes collision-free; a JSON value
is a tagged value that `Coerce` turns back, as it does for the column types
that `_serialize` and `_coerce` know (a NaN, which orjson writes as null, is not
among the values); the query fingerprint is given by the caller and identifies
its query. A legacy cursor carries no plan, so legacy clients are taken to keep
theirs, and legacy order columns to be NOT NULL.

### Release publisher

A job goes through the script call by call; its `pc` names the call it is at,
`release`, `listed` and `extras` are what it has read. A mutating call is
served and answered, rejected (an `ApiError`, which ends the job, except for a
tag that exists), or lost before or after it was served; then it is sent again
up to `max_attempts`, except for `create_tag_ref`. `releases` and `tag` are
GitHub's: it keeps any number of drafts of a version, one published release,
one file per name, and does not move tags. Builds of one commit may differ.
`overlapped` remembers that two jobs ran at once, which the workflow does not
exclude.

### Sessions

A task is in at most one block: `transaction`, `read_transaction`, `session`,
`read_session`, a unit of work, the retry loop or a snapshot, read-only or not, whose
caller executes its own statements (`Execute`). `ctx[t]` is its stack of request
contexts, which it may push and pop within the block. `Begin` is the first
statement of a transaction: it takes a connection and runs the hook
(`AfterBegin`), whose error leaves the block or is swallowed. Autoflush is off,
so `Add` only remembers a row, with the tenant of the moment, and `Flush` inserts
it, in the body or in the commit, under the setting of the transaction. A
statement fails with a SQLSTATE (transient or permanent), with the connection, or is
"cut": given up by the client, by `command_timeout` or a cancellation, with an error
that is no `DBAPIError` and is never retried. The caller lets the exception out, or
goes on with a transaction that PostgreSQL has aborted (`Fail`). `Commit` is applied,
refused, or lost or cut before or after it took effect. A task can be cancelled in
its own code, while it waits for a connection (`PoolTimeout`) and while the retry
loop sleeps (`CancelRetry`). `asked` and `applied` count commits of new rows, and `swallowed`
and `handling` mark the two kinds of callers for whom the outcome is not true
(see the hazards at `runtime.py:88` and `errors.py:55`). `guc[c]` is what a
connection carries from one transaction to the next. `rls` is the role and the
table. Two definitions look at it. `PolicyApplies` is PostgreSQL's rule: without FORCE
a policy binds neither the owner of the table nor a role that is a member of it.
`Healthy(require_force)` is the verification report, which compares the two names and
reads no memberships. `Guarded` says where the report can be relied on: FORCE was
required, or the role is no member. A `repeatable_read_sync` that is not read-only
commits what its caller wrote when the block ends, as the model has it; its docstring
("does not [...] commit writes implicitly") is taken to be about read-only use.

### Repository

One row and the entity of it in each session. A query returns the entity that is
already there, unrefreshed (`Loaded`), also when it takes a lock. `Update`,
`UpdateDeletedAt` (an update that names `deleted_at`), `SoftDelete`, `Restore` and
`HardDelete` change the entity; the flush writes the
attributes that changed, where the id and the version match. It is a step of its
own because it waits for the row lock; `flush=True` and `refresh=True` are the
behaviours in which it follows at once. An update adds one to the value the
entity has, and `count` counts updates of the row, so a lost update shows as a
value below the count. `careless` and `bulked` remember that the discipline of
`LockedNoLostUpdate` or `VersionedNoLostUpdate` was left. Ids are not used again
(`UUIDPrimaryKeyMixin`). An update whose values name `version` itself is not modelled;
the code does not refuse it.

### Migrations and backfill

`MigrationSafety` writes a revision's `upgrade()` as the sequence of its `op`
calls, each with the options it carries; the helpers of `migration_ops.py`
are such sequences. The linter does not read all of them, and the model has what it
passes over: calls it has no branch for (`UnknownOps`), calls that are not bare
statements on the name `op` ("unseen"), arguments that are not written out in the call
("opaque": a column built elsewhere, a keyword that is not a literal), a default
computed for every row ("computed") and a new column name ("rename"). Tables are those
of one schema, as the linter ignores the `schema` argument, and the body of a loop is
scanned and run once. `Migration` executes them on a small PostgreSQL: a catalog of
one table, ACCESS EXCLUSIVE locks with a queue, one transaction per revision, and
`CREATE INDEX CONCURRENTLY` outside it, whose index is in the catalog before it is
valid and stays there when the build dies. `Stamp` updates the version row and
commits, and fails if another job was faster.

Two kinds of databases start a behaviour. In a *rollout* revisions 1 to 4 create
the table, add a column, build an index and enforce NOT NULL, while workers run
the backfill and processes of the old and the new version insert rows, after the
schema check let them in. Otherwise table `t` is in use and release jobs apply
one revision out of `Programs`, the linter's verdict on which is compared with
what it does (`harms`): data lost, writers waiting for a scan, a release that
stops. The callbacks of the backfill are those of
`tests/integration/test_operational_backfill.py`, with the lock that the
docstring asks callers for; a batch may also report a wrong number of processed rows
or a cursor that stands still, which `ValidBatch` refuses.

## 3. Runs

| run | question | bounds |
|---|---|---|
| `outbox_safety` | safety of rows and leases; `Outbox` implements `OutboxLedger` | 2 events in one batch, 2 workers one time unit apart, 3 claims (first, takeover, takeover of the takeover), 1 crash or rollback, time 0..2 with `StaleAfter` 1, which is what three claims need; 98,419 states |
| `outbox_progress` | every event settles | 1 event, 2 workers, 2 faults; the bounds on time and claims are never reached before the event settles, or the property would fail |
| `idempotency_safety` | lease, replay, stability | 2 requests with different bodies, 2 begins each, 2 faults, 2 sends, TTLs of 2 in time 0..3 |
| `idempotency_conflict_doc` | does a conflict error mean another request? | 1 request, 2 faults |
| `lock` | the holder owns the key; acquire ends | 2 objects used twice, extends to 1 and 2, 2 faults, 2 sends, TTL 2 in time 0..3 |
| `cache` | loaders under the lock, tag sets and invalidation | 2 concurrent calls for one of 2 keys, one tag, foreign sets, deletes and invalidations, 2 faults, TTLs 1..3 by jitter, time 0..3 |
| `rate_limit` | the bucket, its limit and its advice | capacity of 9 units, 2 per millisecond (the refill does not divide it), TTL 9, 6 requests let through, time 0..12, so the key expires |
| `pagination` | completeness and order of cursor walks of both formats, `has_next_page` of offset pages | tables of up to 3 rows, ranks 1, 2 and NULL; 7 sort requests (both directions, all null placements, two terms), one refused for a repeated field; 2 queries, pages of 1 or 2 rows, 4 pages, 2 changes |
| `release` | safety and repair of releases | 2 jobs, 2 commits, 2 files and an extra one, 12 states of an old release with any tag, 2 faults, 2 attempts per call |
| `sessions` | isolation of tenants, effect and outcome of blocks | blocks without limit one after another, 2 tenants, contexts 2 deep, 2 attempts, rows of one tenant per transaction, all settings, roles with at most one flaw (2.5 million states). One task and one connection: tasks share nothing but connections, one at a time, and policies, which change only between transactions, so what others do to a task is what the connection was left with |
| `migration` | truth of the stamp, admission, backfill, linter | 2 release jobs and 3 upgrade commands, 2 workers with batches of 1 and limits of none or 1, 2 rows, one old and one new process; 345 revisions of one call, or of one after a `create_table`, and the helpers, with and without a waiver, among them calls the linter cannot read (1.1 million states) |
| `repository` | lost updates, resurrection | 2 sessions, 2 updates, 3 versions, with and without the version column, 10 combinations of lock arguments of which 3 are refused (1.8 million states) |

All runs pass except `idempotency_conflict_doc`, which is expected to find a
counterexample: `exceptions.py` says `IdempotencyConflictError` is "Raised when
an idempotency key is reused with incompatible request data", but a request
that is alone gets it when the answer to its `complete` was lost and the client
repeated the script: the completed record has no token to compare.

Each module states the values of its variables in a type invariant. `Outbox`'s is
checked and proved; those of `Pagination`, `Idempotency`, `RateLimit`, `Cache` (which
contains the one of `RedisLock`), `Sessions` and `ReleasePublisher` are proved. Those of
`Repository` and `Migration` say what the variables hold within the bounds of the model;
they were checked once and are left out of the runs, which are spent on behaviour.

Runs do not check for deadlock: the bounds on time, claims and uses end every
behaviour, and the system itself may rest when nobody calls it.

Two things these runs show that the code does not say. The fences of the outbox
agree (`VersionAgreesWithLease`): whichever of the two settling APIs a stale
worker uses, and in whatever mix, it is refused exactly when the other would
refuse it. And a caller that never looks at its clock is only protected by the
TTL: `LeaseHolds`, `HolderOwnsKey` and `SingleLoader` hold up to the TTL and not
beyond, as work that outlives it overlaps with the next holder's.

Several properties state the callers they hold for, and were found to fail
without: a retry loop started in the handler of a transient error can apply its
work twice (`AppliedAsAsked`); a block whose caller swallowed a failed statement
ends as committed without effect (`OutcomeIsTrue`); a locked `get` of an entity
that the session holds already does not protect an update of it
(`LockedNoLostUpdate`); `bulk_update` defeats the version check
(`VersionedNoLostUpdate`); a table created in a branch makes the linter pass an
index build on the other path, one that a revision drops and makes anew is new to
it though it was in use, and a constraint validated by a helper is not seen by it
(`LintedIsHarmless`, whose `Judged` names these revisions). `LintedIsHarmless` is
about the rules of the linter and not about all it lets pass: it speaks of revisions
made of calls that it can read (`Readable`); without any one of its three conditions
the run finds a harmful revision that passes. `TenantIsolation` needs
`Guarded`: with FORCE off, and not required, a role that is a member of the owner is
reported healthy and no policy binds it. `OutcomeIsTrue` leaves open what became of a
COMMIT whose connection was lost, which timed out on the client or was cancelled: it
may have been applied. No document of the
repository says otherwise, so these are not findings.

### Fairness

`outbox_progress` assumes that dispatchers keep taking steps
(`WF(WorkerStep(w))`), that time passes, and that a worker settles a batch
before its lease looks stale to anybody, skew included (`PromptTick`). The
library has no dispatcher loop of its own; these are what its documentation
asks of one. Without the last, two slow workers can take an event from each
other for ever. `lock` assumes that Redis answers, sleeping tasks wake
up and time passes; every send either is answered or uses up a bounded retry.

## 4. Proofs

Every safety property of the passing runs is a theorem: it holds for all values of
the constants that satisfy the named assumptions of the modules, hence also without
the bounds that TLC needs. Each component has an inductive invariant, which TLC has
checked on the instance of the run too, a lemma per action that the action keeps
it, and theorems that follow from it.

| module | inductive invariant | theorem | property |
|---|---|---|---|
| `OutboxProofs` | `IInv` (`Inductive`) | `TypeCorrect` | `TypeOK` |
| | | `TokenTheorem` | `TokenIffProcessing` |
| | | `FenceTheorem` | `VersionAgreesWithLease` |
| | | `TerminalTheorem` | `TerminalStable` |
| | | `NoLostUpdateTheorem` | `NoLostUpdate` |
| | | `ExhaustionTheorem` | `DeadIffExhausted` |
| | | `SettlerTheorem` | `SettlerIsNamed` |
| | | `LedgerTheorem` | `ImplementsLedger` |
| `CacheProofs` | `LockOK` | `LockTheorem` | `HolderOwnsKey` |
| | `CacheOK` (`CacheInvariant`) | `CacheTypesTheorem` | `TypeOK` |
| | | `TagTheorem` | `TagCovers` |
| | | `LoaderTheorem` | `SingleLoader` |
| | | `RedundantTheorem` | `NoRedundantLoad` |
| | | `InvalidateTheorem` | `InvalidateClears` |
| `RedisScriptProofs` | `StoreOK` (`StoreInvariant`) | `StoreTypes` | `TypeOK` |
| | | `LeaseTheorem` | `LeaseHolds` |
| | | `ReplayTheorem` | `ReplayIsOwnRequest` |
| | | `CompletedTheorem` | `CompletedStable` |
| | `BucketOK` (`BucketInvariant`) | `BucketTheorem` | `ImplementsTokenBucket` |
| | | `RetryTheorem` | `RetryAfterIsExact` |
| | | `LimitTypes` | `LimitTypeOK` |
| | `LimitOK` | `LimitTheorem` | `NeverOverLimit` |
| `PaginationProofs` | `IInv` (`Invariance`) | `BoundaryIsAfter` | boundary and `ORDER BY` agree |
| | | `TypeCorrect` | `TypeOK` |
| | | `SkipsNothing` | `NothingSkipped` |
| | | `NeverMixesQueries` | `OneQuery` |
| | | `ContinuesInOrder` | `PagesInOrder` |
| | `OffsetOK` | `OffsetTheorem` | `OffsetNextIsTrue` |
| `SessionsProofs` | `SessionsOK` (`SessionsInvariant`) | `SessionsTypes` | `TypeOK` |
| | | `IsolationTheorem` | `TenantIsolation` |
| | | `AppliedTheorem` | `AppliedAsAsked` |
| | | `OutcomeTheorem` | `OutcomeIsTrue` |
| `RepositoryProofs` | `RepositoryOK` (`RepositoryInvariant`) | `VersionedTheorem` | `VersionedNoLostUpdate` |
| | | `LockedTheorem` | `LockedNoLostUpdate` |
| | | `ResurrectionTheorem` | `NoResurrection` |
| `MigrationProofs` | `MigrationOK` (`MigrationInvariant`) | `OnceTheorem` | `EachRowOnce` |
| | | `CoverTheorem` | `CheckpointCovers` |
| | | `StampTheorem` | `StampedIsApplied` |
| | | `AdmissionTheorem` | `AdmittedCanWrite` |
| | `LintOK` | `LintTheorem` | `LintedIsHarmless` |
| `ReleasePublisherProofs` | `IInv` (`PublisherInvariant`) | `ReleaseTypes` | `TypeOK` |
| | | `TagOfPublished` | `PublishedAtTag` |
| | | `WholeReleases` | `PublishedIsComplete` |
| | | `Repaired` | `FailedJobsAreRepaired` |
| | | `CompleteForGood` | `CompleteIsFinal` |

**Outbox.** For any finite set of events, any workers, any skew and any positive
batch size, staleness, attempts and delays. None of the properties is inductive,
because a claim writes at commit what it computed at select. `IInv` adds what
holds of an open claim: the row under it is still pending or processing and the
image is its next version (`ImageFollowsRow`), no row is in two claims
(`OneClaimPerRow`), the image's token is held by nobody (`ImageTokenIsNew`)
because tokens come from claims already started (`TokensAreOld`), no remembered
lease is ahead of its row (`LeaseNotAhead`), and a row not inserted yet is at
version 0 (`AbsentIsNew`). The four settling calls share `SettleIInv`; `StepRows`
and `StepOutcome` state what any step may do to a row. For the ledger, insert,
commit of a claim, settlement and crash are its `Offer`, `Grant`, `Settle` and
`Forget` steps, and everything else leaves the ledger as it is (`LedgerStep`).

**Idempotency.** For any requests, fingerprints, positive TTLs, sends, begins and
faults; `NoneAssumption` says that None is neither a token nor a record.
`LeaseHolds` needs to know what may still arrive: `CommandsOK` says that every
script under way was sent with a token of its own request, and that no complete
or release of the current token is under way while its request is beginning or
working. A late begin does not overwrite what is there, and a script with an older
token matches nothing (`AfterKeeps`).

**Lock and cache.** For any objects, keys, tags, TTLs, sends and faults.
`HolderOwnsKey` is proved under `ReuseAtOnce = FALSE`, the discipline of callers
described above; it does not hold without. `LockOK` says that a command under way
does not cut a lease its object relies on (`Harmless`), which an acquire or extend
keeps because what was under way before could not cut it either (`NoCut`). The
cache makes an object per call, so its theorems have no such hypothesis. `CacheOK`
is about both: a loader that is still in time owns the key of its lock, an entry
stored under a good lock is seen by whoever gets the lock next, and a tag set
grows with every entry (`TagSetGrows`: `EXPIRE NX` for a new set and `GT` for an
old one give the later expiry in either case).

**Rate limiter.** For any positive capacity, refill and TTL floor and any costs up
to the capacity, in whole units. The argument is arithmetic: the TTL suffices to
fill an empty bucket (`TTLFills`), so a key that has expired would be full, and
`Refilled` is the level of the ideal bucket at every step (`CheckTakes`,
`TickRefills`). `LimitOK` adds to `NeverOverLimit` that what has passed since any
request and the tokens that are left are within the limit.

**Pagination.** For any fields, registry, finite set of rows, queries, sort
requests and page sizes, from `RegistryAssumption` (what `SortRegistry.__init__`
enforces), `PaginationAssumption` and `NullAssumption` (None is neither a cursor
nor a JSON text). The order of a plan is transitive (`Transitive`) and, as every
resolved plan contains the tie-breaker (`ResolvedPlan`), total on a table
(`Total`, at the first column where two rows differ). So a page splits what was
selected at its last row (`PageSplits`), and the next page is taken from exactly
the rows after it (`SelectedAfter`, also for legacy cursors). `NothingSkipped`
speaks of finished walks only; `IInv` adds where an open one stands
(`Position`): nothing returned is after the cursor's row, and every row that
stays was returned or is after it. The cursor's row itself may be gone. A
cursor is accepted only by the request it came from (`AcceptsOwn`), because
fingerprints determine plans. For offset pages the ranks of the rows in that order
number them from 0 without gaps (`RanksNumber`, by counting), so `OFFSET` and
`LIMIT` return the full number of rows exactly if there are as many (`SliceSize`),
and `CeilPages` is the same for the counted total.

**Sessions.** For any tasks, connections, tenants and bounds. `CallOK` follows the
record of a block: at each point of it, how often a commit was asked for and how
often one took effect. It has one lemma per operation on that record (`RaisedOK`,
`CommittingOK`, `AfterCommitOK`, `LostCommitOK`, ...), which the actions share.
`Isolated` needs that no connection carries a setting from one transaction to the
next, which is part of `SessionsOK`.

**Repository.** For any sessions, updates and versions; `RepositoryAssumption` gives
the arguments of `get` their types. Exclusive locks are sole (`LocksOK`), writes
are made under one, and `Tracks` says that an entity holds what the row holds plus
its own update. Under a version that is so for entities of the current version
(`VersionedOK`), without one for those loaded under a lock (`CarefulOK`).

**Migration.** For any workers, jobs, processes, rows, batch sizes and revisions to
lint; `Limits` is not empty, and `Authored` says of a revision to lint what any
Python source satisfies: an option stands with a call that takes it, and helpers
make the calls they make. For the backfill: only one worker has a batch open
(`OneOpen`), and its cursor is the checkpoint (`CursorIsCurrent`). For the stamp:
there is a number of revisions for which catalog, version row and every job agree
(`StageOK`), a job is at most one revision ahead, and while it holds the table it
sees what its own calls have made of the stamped catalog (`Sees`). For the linter,
and revisions of any length made of calls it can read:
a harm on the existing table is one that a code stands for (`HarmHasCode`), and
the linter takes no table in use for a new one, because a revision that creates
`t` by its name while `t` is there fails at that call (`LintOK`).

**Release publisher.** For any jobs, commits, builds, files (each name once and none
of them an extra one), attempts and faults; of `OldReleases` it is assumed that
they are releases and that none of these jobs published them, of `None` that it is
none of the values it stands beside. Every action is first shown to be one move
(`Moves`, one lemma per action, `StepMoves`), in three parts. `Frame`: only the job
itself moves on. `TagMove`, however jobs overlap: the tag is created once, and a
release becomes published only at a commit its job has seen at the tag; `TagOK`
follows from it alone (`TagKept`). `SoloMove` is about a job that runs alone:
`Phase` says what it can rely on at each step of the script, and less where a
lost request may have been served. The step keeps `Phase` and has one of five
effects (`Effect`): none, the first tag, a new draft, the deletion of the only
release of a version without a tag, or a change to a draft that leaves a draft or
a complete release. None of them touches a complete release
(`CompleteKept`), publishes an incomplete one (`PublishedKept`) or frees a version
that is taken (`TakenKept`). `FailedJobsAreRepaired` needs `Phase` to say when a
request cannot be rejected, which it does for jobs with `clean` set. As long as
`overlapped` is FALSE one job runs at a time (`Alone`), so `Phase` need not be
kept by other jobs; for jobs that overlap only `PublishedAtTag` is claimed.

Only model-checked are the liveness properties `EveryEventSettles` and
`AcquireEnds`: the proof system proves neither liveness under fairness nor
statements with ENABLED.

## 5. Not modelled

The stream publisher, outbox metrics, redaction of audit data, roles, secrets, configuration, metrics
and spans, health, CLI, framework adapters, filters and data types keep no state
that steps could corrupt; `PROJECT.json` gives the reason for each. Downgrades,
offline SQL and the autogenerate filter of `alembic/env.py` are left out, as are
read replicas that lag behind. Liveness of a rollout is not stated: it ends when
operators repair what a dying job leaves, and with backfill callbacks that
advance, neither of which is the library's code.

Some hazards are known and have no property, because the code has no mechanism
against them whose correctness could be stated:

- an event whose processing kills its worker every time is claimed again for
  ever, as the claim query compares no attempts (`outbox.py:82`);
- the token of a Redis lock belongs to the object, so a late release or extend
  can cut a later acquire of the same object (`redis/locks.py:52`);
  `HolderOwnsKey` is checked for callers that do not reuse an object while such a
  command may be under way (`ReuseAtOnce = FALSE`);
- a loader that read before an invalidation stores its value after it
  (`redis/cache.py:113`); a Redis clock that steps back refills a bucket twice
  (`redis/rate_limit.py:31`);
- a legacy cursor on a nullable order column, or used with another order, ends
  the walk early or starts it anew (`database/pagination.py:443`);
- `bulk_update` leaves the version column alone (`database/repository.py:247`),
  and the paginate methods do not add the soft delete filter that `list` and
  `count` add to a caller's statement (`database/repository.py:250`);
- policies are counted and not read by the verification
  (`database/rls_verification.py:154`), and a role that is a member of the owner is
  reported healthy though policies without FORCE do not bind it
  (`database/rls_verification.py:148`);
- a COMMIT cut by `command_timeout` or a cancellation ends as an error of the
  application, applied or not (`database/runtime.py:295`);
- an update may name `version` and defeat the check (`database/repository.py:106`);
- entering `autocommit_block` commits what the revision did before
  (`database/migration_ops.py:57`), and `enforce_not_null` validates under the
  lock of its own transaction (`database/migration_ops.py:266`);
- the linter takes a table created in one branch for new on every path
  (`database/migration_safety.py:133`), looks only at bare statements that call the
  name `op` (`database/migration_safety.py:147`, `:308`), lets operations pass that it
  has no branch for, such as `create_unique_constraint` and `rename_table`, and reads
  only a column written out as `Column(...)` (`database/migration_safety.py:213`);
- `create_draft` repeated after a lost answer leaves two drafts
  (`ops/release/publish_release.py:293`), which `FailedJobsAreRepaired` names as
  a case for a person.

## 6. Plan

Everything planned as a module is there, and every safety property of the passing
runs is proved. What could follow: a weaker form of `Phase` for release jobs that
overlap, which would show how much of `PublishedIsComplete` the tag alone
guarantees, and a model of the downgrades.
