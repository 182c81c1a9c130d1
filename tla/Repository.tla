----------------------------- MODULE Repository -----------------------------
(***************************************************************************)
(* The repositories of database/repository.py on one row of a model with   *)
(* SoftDeleteMixin and, or not, OptimisticLockMixin (database/base.py).    *)
(* The sessions are those of database/runtime.py: autoflush and            *)
(* expire_on_commit are off, so an entity stays in the session as it was   *)
(* loaded until a rollback expires it.  An update is a read-modify-write:  *)
(* it adds one to the value that the session's entity holds.               *)
(***************************************************************************)
EXTENDS Naturals, FiniteSets

CONSTANTS
    Sessions,       \* sessions, each with its repository
    GetArguments,   \* the lock arguments that callers of get() pass
    MaxUpdates,     \* bound: updates of the row
    MaxVersion      \* bound: versions of the row

\* RowLock; "given" is FALSE where the caller passes none.
LockArgument == [nowait: BOOLEAN, skip_locked: BOOLEAN, read: BOOLEAN, key_share: BOOLEAN,
                 given: BOOLEAN]

ASSUME RepositoryAssumption ==
    /\ GetArguments \subseteq [for_update: BOOLEAN, nowait: BOOLEAN, skip_locked: BOOLEAN,
                               lock: LockArgument, include_deleted: BOOLEAN]
    /\ MaxUpdates \in Nat /\ MaxVersion \in Nat \ {0}

VARIABLES
    row,        \* the committed row
    session,    \* entity, uncommitted row and row lock of each session
    versioned,  \* the model has OptimisticLockMixin
    careless,   \* an update was made to an entity that was not loaded under a lock
    bulked      \* bulk_update has changed the row

vars == <<row, session, versioned, careless, bulked>>

\* "count": how many updates have been made to the row.
Row == [there: BOOLEAN, value: 0..MaxUpdates, deleted: BOOLEAN, version: 0..MaxVersion,
        count: Nat]

\* The id is not in use.  UUIDPrimaryKeyMixin never uses one again.
NoRow == [there |-> FALSE, value |-> 0, deleted |-> FALSE, version |-> 0, count |-> 0]

Unused(r) == r.version = 0

NewRow == [there |-> TRUE, value |-> 0, deleted |-> FALSE, version |-> 1, count |-> 0]

\* "delete": marked by session.delete.  "careful": first loaded in this transaction,
\* by a get() that asked for an exclusive lock.
Entity == [state: {"none", "pending", "persistent", "delete"},
           value: 0..MaxUpdates, deleted: BOOLEAN, version: 0..MaxVersion,
           loadedDeleted: BOOLEAN, dirty: SUBSET {"value", "deleted"}, careful: BOOLEAN]

NoEntity == [state |-> "none", value |-> 0, deleted |-> FALSE, version |-> 0,
             loadedDeleted |-> FALSE, dirty |-> {}, careful |-> FALSE]

\* Row locks, by the name of the clause that takes them.
Modes == {"none", "key_share", "share", "no_key_update", "update"}

Session == [entity: Entity, wrote: BOOLEAN, image: Row, lock: Modes,
            undeletes: BOOLEAN]     \* the transaction writes an empty deleted_at, or the row

NewSession(entity) == [entity |-> entity, wrote |-> FALSE, image |-> NoRow, lock |-> "none",
                       undeletes |-> FALSE]

-----------------------------------------------------------------------------
(* PostgreSQL: what a statement of the session sees, and row locks.         *)

\* The row as a statement of the session sees it.
Seen(s) == IF session[s].wrote THEN session[s].image ELSE row

Conflicts(m, n) ==
    \/ m = "update" /\ n # "none"
    \/ n = "update" /\ m # "none"
    \/ m = "no_key_update" /\ n \in {"share", "no_key_update"}
    \/ n = "no_key_update" /\ m = "share"

\* No other session holds a lock that conflicts.
Free(s, mode) == \A t \in Sessions \ {s} : ~Conflicts(mode, session[t].lock)

Rank(mode) ==
    CASE mode = "none" -> 0 [] mode = "key_share" -> 1 [] mode = "share" -> 2
      [] mode = "no_key_update" -> 3 [] mode = "update" -> 4

Stronger(m, n) == IF Rank(m) >= Rank(n) THEN m ELSE n

-----------------------------------------------------------------------------
(* Lock arguments.                                                          *)

\* get() without a RowLock.
NoRowLock == [nowait |-> FALSE, skip_locked |-> FALSE, read |-> FALSE, key_share |-> FALSE,
              given |-> FALSE]

RowLock(nowait, skip_locked) ==
    [NoRowLock EXCEPT !.nowait = nowait, !.skip_locked = skip_locked, !.given = TRUE]

\* _apply_row_lock
Mode(lock) ==
    IF lock.read THEN IF lock.key_share THEN "key_share" ELSE "share"
                 ELSE IF lock.key_share THEN "no_key_update" ELSE "update"

\* RowLock.__post_init__
Valid(lock) == ~(lock.nowait /\ lock.skip_locked)

\* Mutant: the legacy arguments only take effect with nowait or skip_locked.
LockOf_Legacy(args) ==
    IF args.lock.given THEN args.lock
    ELSE IF args.for_update /\ (args.nowait \/ args.skip_locked)
           THEN RowLock(args.nowait, args.skip_locked)
           ELSE NoRowLock

\* The RowLock that get() applies.
LockOf(args) ==
    IF args.lock.given THEN args.lock
    ELSE IF args.for_update THEN RowLock(args.nowait, args.skip_locked) ELSE NoRowLock

\* get() raises no ValueError.
Accepted(args) ==
    /\ args.lock.given => ~(args.for_update \/ args.nowait \/ args.skip_locked)
    /\ ~args.lock.given /\ (args.nowait \/ args.skip_locked) => args.for_update
    /\ Valid(LockOf(args))

-----------------------------------------------------------------------------
(* Reads.                                                                   *)

\* _apply_soft_delete
Matches(r, include_deleted) == r.there /\ (include_deleted \/ ~r.deleted)

\* The entity that a query returns: one the session holds is not refreshed.
Loaded(s, careful) ==
    LET e == session[s].entity
        r == Seen(s)
    IN  IF e.state # "none"
          THEN e
          ELSE [state |-> "persistent", value |-> r.value, deleted |-> r.deleted,
                version |-> r.version, loadedDeleted |-> r.deleted, dirty |-> {},
                careful |-> careful]

AsksForExclusive(args) == args.for_update \/ (args.lock.given /\ ~args.lock.read)

\* The lock is granted: a waiting call waits for it, nowait raises without it, and
\* skip_locked finds no row.
Obtains(s, lock) == lock.given => Free(s, Mode(lock))

\* get() and require(): the row is locked if it matches.
Get(s, args) ==
    LET lock == LockOf(args)
        mode == IF lock.given THEN Mode(lock) ELSE "none"
    IN  /\ Accepted(args)
        /\ Matches(Seen(s), args.include_deleted) /\ Obtains(s, lock)
        /\ session' = [session EXCEPT ![s].lock = Stronger(@, mode),
                                      ![s].entity = Loaded(s, AsksForExclusive(args))]
        /\ UNCHANGED <<row, versioned, careless, bulked>>

\* list(), stream(), get_one() and its siblings, and the pages.
List(s, include_deleted) ==
    /\ Matches(Seen(s), include_deleted)
    /\ session' = [session EXCEPT ![s].entity = Loaded(s, FALSE)]
    /\ UNCHANGED <<row, versioned, careless, bulked>>

-----------------------------------------------------------------------------
(* Changes of the entity, in the session only.                              *)

Held(s) ==
    session[s].entity.state = "persistent" /\ session[s].entity.version < MaxVersion

\* add(), add_all() and create()
Add(s) ==
    /\ session[s].entity.state = "none" /\ Unused(Seen(s))
    /\ session' = [session EXCEPT ![s].entity = [NoEntity EXCEPT !.state = "pending",
                                                                 !.version = 1]]
    /\ UNCHANGED <<row, versioned, careless, bulked>>

\* update(): flag_modified puts the attribute into the UPDATE.  Its flush waits for
\* the row's lock; with flush=False it is left to the commit.
Update(s) ==
    LET e == session[s].entity
    IN  /\ Held(s) /\ "value" \notin e.dirty /\ e.value < MaxUpdates
        /\ session' = [session EXCEPT ![s].entity.value = @ + 1,
                                      ![s].entity.dirty = @ \cup {"value"}]
        /\ UNCHANGED <<row, versioned, careless, bulked>>

\* update() whose values name deleted_at, which is flagged whether it changes or not;
\* one that names both attributes is the two in turn.
UpdateDeletedAt(s, deleted) ==
    /\ Held(s)
    /\ session' = [session EXCEPT ![s].entity.deleted = deleted,
                                  ![s].entity.dirty = @ \cup {"deleted"}]
    /\ UNCHANGED <<row, versioned, careless, bulked>>

\* SoftDeleteMixin.soft_delete, by delete().
SoftDelete(s) ==
    /\ Held(s)
    /\ session' = [session EXCEPT ![s].entity.deleted = TRUE,
                                  ![s].entity.dirty = @ \cup {"deleted"}]
    /\ UNCHANGED <<row, versioned, careless, bulked>>

\* SoftDeleteMixin.restore: no net change if the entity was loaded as not deleted.
Restore(s) ==
    /\ Held(s)
    /\ session' = [session EXCEPT ![s].entity.deleted = FALSE,
                                  ![s].entity.dirty =
                                     IF session[s].entity.loadedDeleted
                                       THEN @ \cup {"deleted"} ELSE @ \ {"deleted"}]
    /\ UNCHANGED <<row, versioned, careless, bulked>>

\* delete(hard=True)
HardDelete(s) ==
    /\ Held(s)
    /\ session' = [session EXCEPT ![s].entity.state = "delete"]
    /\ UNCHANGED <<row, versioned, careless, bulked>>

-----------------------------------------------------------------------------
(* Flush, commit and rollback.                                              *)

Pending(s) ==
    LET e == session[s].entity
    IN  e.state \in {"pending", "delete"} \/ (e.state = "persistent" /\ e.dirty # {})

\* Rollback: the session's objects are expired.
RolledBack(s) == session' = [session EXCEPT ![s] = NewSession(NoEntity)]

\* Mutant: the UPDATE matches on the id alone.
RowMatched_ById(s) == Seen(s).there

\* The UPDATE or DELETE matches the row: by its id, and by the version.
RowMatched(s) ==
    Seen(s).there /\ (versioned => Seen(s).version = session[s].entity.version)

\* Mutant: every column is written, the ones that were not changed too.
Written_All(s, column) == TRUE

\* The UPDATE sets the attributes that were changed.
Written(s, column) == column \in session[s].entity.dirty

\* The INSERT: it fails if the row is there.
FlushInsert(s) ==
    /\ session[s].entity.state = "pending" /\ Free(s, "update")
    /\ IF ~Unused(Seen(s))
         THEN RolledBack(s)
         ELSE session' = [session EXCEPT
                ![s].wrote = TRUE, ![s].lock = "update",
                ![s].undeletes = TRUE, ![s].entity.state = "persistent",
                ![s].entity.careful = TRUE,
                ![s].image = NewRow]
    /\ UNCHANGED <<row, versioned, careless, bulked>>

\* The UPDATE: StaleDataError if no row matches.
FlushUpdate(s) ==
    LET e == session[s].entity
        r == Seen(s)
        version == IF versioned THEN r.version + 1 ELSE r.version
    IN  /\ e.state = "persistent" /\ e.dirty # {} /\ Free(s, "no_key_update")
        /\ IF RowMatched(s)
             THEN /\ session' = [session EXCEPT
                       ![s].wrote = TRUE, ![s].lock = Stronger(@, "no_key_update"),
                       ![s].image = [r EXCEPT !.version = version,
                          !.count = IF "value" \in e.dirty THEN @ + 1 ELSE @,
                          !.value = IF Written(s, "value") THEN e.value ELSE @,
                          !.deleted = IF Written(s, "deleted") THEN e.deleted ELSE @],
                       ![s].undeletes = @ \/ ("deleted" \in e.dirty /\ ~e.deleted),
                       ![s].entity = [e EXCEPT !.version = version, !.dirty = {},
                                               !.loadedDeleted = e.deleted]]
                  /\ careless' = (careless \/ ("value" \in e.dirty /\ ~e.careful))
             ELSE RolledBack(s) /\ UNCHANGED careless
        /\ UNCHANGED <<row, versioned, bulked>>

\* The DELETE: without a version, one that matches no row is only warned about.
FlushDelete(s) ==
    /\ session[s].entity.state = "delete" /\ Free(s, "update")
    /\ IF RowMatched(s)
         THEN session' = [session EXCEPT ![s].wrote = TRUE, ![s].lock = "update",
                ![s].image = [Seen(s) EXCEPT !.there = FALSE], ![s].entity = NoEntity]
         ELSE IF versioned THEN RolledBack(s)
              ELSE session' = [session EXCEPT ![s].entity = NoEntity]
    /\ UNCHANGED <<row, versioned, careless, bulked>>

\* The refresh of create() and update(), after their flush.
Refresh(s) ==
    /\ Held(s) /\ ~Pending(s) /\ session[s].wrote /\ Seen(s).there
    /\ session' = [session EXCEPT
          ![s].entity.value = Seen(s).value, ![s].entity.deleted = Seen(s).deleted,
          ![s].entity.loadedDeleted = Seen(s).deleted, ![s].entity.version = Seen(s).version]
    /\ UNCHANGED <<row, versioned, careless, bulked>>

\* COMMIT, after the flush: the entity stays as it is, and is no longer locked.
Commit(s) ==
    LET here == session[s]
    IN  /\ ~Pending(s)
        /\ here.wrote \/ here.lock # "none"
        /\ row' = Seen(s)
        /\ session' = [session EXCEPT ![s] = NewSession([here.entity EXCEPT !.careful = FALSE])]
        /\ UNCHANGED <<versioned, careless, bulked>>

\* Rollback by the caller, a lock timeout, nowait, or a deadlock that PostgreSQL ends.
Rollback(s) ==
    /\ session[s] # NewSession(NoEntity)
    /\ RolledBack(s)
    /\ UNCHANGED <<row, versioned, careless, bulked>>

-----------------------------------------------------------------------------
(* Statements past the unit of work.                                        *)

\* bulk_update: the version is left alone.  The session's entity is brought along,
\* unless its attribute has a change that is not flushed yet, which will then
\* overwrite that of the statement.
BulkUpdate(s) ==
    LET r == Seen(s)
        e == session[s].entity
    IN  /\ r.there /\ r.value < MaxUpdates /\ Free(s, "no_key_update")
        /\ session' = [session EXCEPT
              ![s].wrote = TRUE, ![s].lock = Stronger(@, "no_key_update"),
              ![s].image = [r EXCEPT !.value = @ + 1, !.count = @ + 1],
              ![s].entity.value =
                 IF Held(s) /\ "value" \notin e.dirty /\ @ < MaxUpdates THEN @ + 1 ELSE @,
              ![s].entity.careful = @ /\ "value" \notin e.dirty]
        /\ bulked' = TRUE
        /\ UNCHANGED <<row, versioned, careless>>

\* delete_where
DeleteWhere(s) ==
    /\ Seen(s).there /\ Free(s, "update") /\ session[s].entity.state # "delete"
    /\ session' = [session EXCEPT ![s].wrote = TRUE, ![s].lock = "update",
                                  ![s].image = [Seen(s) EXCEPT !.there = FALSE],
                                  ![s].entity = NoEntity]
    /\ UNCHANGED <<row, versioned, careless, bulked>>

\* bulk_insert
BulkInsert(s) ==
    /\ Unused(Seen(s)) /\ Free(s, "update") /\ session[s].entity.state = "none"
    /\ session' = [session EXCEPT
          ![s].wrote = TRUE, ![s].lock = "update", ![s].undeletes = TRUE,
          ![s].image = NewRow]
    /\ UNCHANGED <<row, versioned, careless, bulked>>

-----------------------------------------------------------------------------
Init ==
    /\ row \in {NoRow, NewRow}
    /\ session = [s \in Sessions |-> NewSession(NoEntity)]
    /\ versioned \in BOOLEAN
    /\ careless = FALSE /\ bulked = FALSE

Next ==
    \E s \in Sessions :
      \/ \E args \in GetArguments : Get(s, args)
      \/ \E include_deleted \in BOOLEAN : List(s, include_deleted)
      \/ \E deleted \in BOOLEAN : UpdateDeletedAt(s, deleted)
      \/ Add(s) \/ Update(s) \/ SoftDelete(s) \/ Restore(s) \/ HardDelete(s)
      \/ FlushInsert(s) \/ FlushUpdate(s) \/ FlushDelete(s) \/ Refresh(s)
      \/ Commit(s) \/ Rollback(s)
      \/ BulkUpdate(s) \/ DeleteWhere(s) \/ BulkInsert(s)

Spec == Init /\ [][Next]_vars

-----------------------------------------------------------------------------
(* Properties.                                                              *)

\* Every variable has its type, and no two sessions hold row locks that conflict.
TypeOK ==
    /\ row \in Row
    /\ session \in [Sessions -> Session]
    /\ {versioned, careless, bulked} \subseteq BOOLEAN
    /\ \A s, t \in Sessions : s # t => ~Conflicts(session[s].lock, session[t].lock)

\* With OptimisticLockMixin no update is lost, whatever stale entities the sessions
\* hold: a flush of an outdated one fails.  bulk_update leaves the version alone, and
\* a row that it has changed is left out.
VersionedNoLostUpdate == versioned /\ ~bulked => row.value = row.count

\* Without it no update is lost if every one is made to an entity that was first
\* loaded, in the same transaction, by a get() that asks for an exclusive lock, in
\* whichever way it asks.
LockedNoLostUpdate == ~careless => row.value = row.count

\* A row that was deleted, softly or not, comes back only by a restore(), an insert, or
\* an update() that names deleted_at: a session that still holds the entity and updates
\* another attribute does not bring it back.
NoResurrection ==
    [][(~row.there \/ row.deleted) /\ row'.there /\ ~row'.deleted
         => \E s \in Sessions : session[s].undeletes /\ row' = session[s].image]_vars
=============================================================================
