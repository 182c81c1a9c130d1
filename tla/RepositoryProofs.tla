-------------------------- MODULE RepositoryProofs --------------------------
(***************************************************************************)
(* The repositories for any number of sessions, updates and versions: no   *)
(* update of a row is lost under optimistic locking, or when every update  *)
(* is made to an entity loaded under an exclusive lock; and a deleted row  *)
(* comes back only by a restore or an insert.                              *)
(***************************************************************************)
EXTENDS Repository, TLAPS

-----------------------------------------------------------------------------
(* The inductive invariant.                                                 *)

RowType == [there: BOOLEAN, value: Nat, deleted: BOOLEAN, version: Nat, count: Nat]

EntityType == [state: {"none", "pending", "persistent", "delete"}, value: Nat,
               deleted: BOOLEAN, version: Nat, loadedDeleted: BOOLEAN,
               dirty: SUBSET {"value", "deleted"}, careful: BOOLEAN]

SessionType == [entity: EntityType, wrote: BOOLEAN, image: RowType, lock: Modes,
                undeletes: BOOLEAN]

Types ==
    /\ row \in RowType
    /\ session \in [Sessions -> SessionType]
    /\ versioned \in BOOLEAN /\ careless \in BOOLEAN /\ bulked \in BOOLEAN

Exclusive == {"no_key_update", "update"}

\* Nobody else writes the row, or relies on its value, at the same time.
LocksOK == \A s, t \in Sessions : s # t => ~Conflicts(session[s].lock, session[t].lock)

Balanced(r) == r.value = r.count

\* What an entity holds is what the row holds, with the update that is not flushed.
Tracks(e, r) == e.value = IF "value" \in e.dirty THEN r.value + 1 ELSE r.value

\* Writes and careful loads are made under an exclusive lock.
LockedOK(s) ==
    session[s].wrote \/ session[s].entity.careful => session[s].lock \in Exclusive

\* An entity is never ahead of the row; a change is only made below the bound.
EntityOK(s) ==
    LET e == session[s].entity
    IN  /\ e.state = "pending" => e.value = 0 /\ e.dirty = {} /\ e.version = 1
        /\ e.state = "persistent" => e.version <= Seen(s).version
        /\ e.state = "persistent" /\ e.dirty # {} => e.version < MaxVersion

\* Under optimistic locking every write moves the version on, and an entity of the
\* current version is up to date.
VersionedOK(s) ==
    versioned /\ ~bulked =>
        LET e == session[s].entity
        IN  /\ session[s].wrote =>
                 /\ Balanced(session[s].image)
                 /\ session[s].image.there => row.version < session[s].image.version
            /\ e.state = "persistent" /\ Seen(s).there /\ e.version = Seen(s).version
                 => Tracks(e, Seen(s))

\* While nobody was careless, an entity loaded under a lock is up to date.
CarefulOK(s) ==
    ~careless =>
        LET e == session[s].entity
        IN  /\ session[s].wrote => Balanced(session[s].image)
            /\ e.state = "persistent" /\ e.careful /\ e.version < MaxVersion
                 => Tracks(e, Seen(s))

\* What a transaction has written never moves the version back, and brings a
\* deleted row back only if it says so.
ImageOK(s) ==
    session[s].wrote =>
        /\ row.version <= session[s].image.version
        /\ ~session[s].undeletes /\ session[s].image.there =>
             row.there /\ (~session[s].image.deleted => ~row.deleted)

SessionOK(s) ==
    LockedOK(s) /\ EntityOK(s) /\ VersionedOK(s) /\ CarefulOK(s) /\ ImageOK(s)

RowOK == (versioned /\ ~bulked) \/ ~careless => Balanced(row)

RepositoryOK == Types /\ LocksOK /\ RowOK /\ \A s \in Sessions : SessionOK(s)

-----------------------------------------------------------------------------
(* Locks.                                                                   *)

\* Two sessions never both hold an exclusive lock.
LEMMA ExclusiveIsSole ==
    ASSUME LocksOK, NEW s \in Sessions, NEW t \in Sessions, s # t,
           session[s].lock \in Exclusive
    PROVE  session[t].lock \notin Exclusive
BY DEF LocksOK, Conflicts, Exclusive

\* The stronger of two locks is one of them, and exclusive if one of them is.
LEMMA StrongerLock ==
    ASSUME NEW m \in Modes, NEW n \in Modes
    PROVE  /\ Stronger(m, n) \in {m, n} /\ Stronger(m, n) \in Modes
           /\ m \in Exclusive \/ n \in Exclusive => Stronger(m, n) \in Exclusive
           /\ Stronger("none", n) = n
BY DEF Stronger, Rank, Modes, Exclusive

\* A get() that asks for an exclusive lock, in either way, applies one.
LEMMA AsksAndGets ==
    ASSUME NEW args \in GetArguments, Accepted(args)
    PROVE  /\ LockOf(args).given => Mode(LockOf(args)) \in Modes
           /\ AsksForExclusive(args)
                => LockOf(args).given /\ Mode(LockOf(args)) \in Exclusive
           /\ AsksForExclusive(args) \in BOOLEAN
<1>1. /\ args.for_update \in BOOLEAN /\ args.lock \in LockArgument
  BY RepositoryAssumption
<1>2. args.lock.read \in BOOLEAN /\ args.lock.key_share \in BOOLEAN /\ args.lock.given \in BOOLEAN
  BY <1>1 DEF LockArgument
<1>3. Mode(LockOf(args)) \in Modes
  BY DEF Mode, Modes
<1>4. CASE args.lock.given
  <2>1. LockOf(args) = args.lock /\ ~args.for_update
    BY <1>4 DEF LockOf, Accepted
  <2> QED BY <1>1, <1>2, <1>3, <1>4, <2>1 DEF AsksForExclusive, Mode, Exclusive
<1>5. CASE ~args.lock.given
  <2>1. CASE args.for_update
    <3>1. LockOf(args) = RowLock(args.nowait, args.skip_locked)
      BY <1>5, <2>1 DEF LockOf
    <3>2. LockOf(args).given /\ ~LockOf(args).read /\ ~LockOf(args).key_share
      BY <3>1 DEF RowLock, NoRowLock
    <3> QED BY <1>3, <3>2 DEF Mode, Exclusive, AsksForExclusive
  <2>2. CASE ~args.for_update
    BY <1>3, <1>5, <2>2 DEF AsksForExclusive
  <2> QED BY <2>1, <2>2
<1> QED BY <1>4, <1>5

-----------------------------------------------------------------------------
(* One session takes a step; the row stays as it is.                        *)

LEMMA SessionStep ==
    ASSUME RepositoryOK, NEW s \in Sessions, row' = row, versioned' = versioned,
           careless' \in BOOLEAN, bulked' \in BOOLEAN,
           careless => careless', bulked => bulked',
           session' \in [Sessions -> SessionType],
           \A q \in Sessions : q # s => session'[q] = session[q],
           session'[s].lock = session[s].lock \/ Free(s, session'[s].lock),
           SessionOK(s)'
    PROVE  RepositoryOK'
<1>1. Types'
  BY DEF RepositoryOK, Types
<1>2. LocksOK'
  <2> SUFFICES ASSUME NEW q \in Sessions, NEW t \in Sessions, q # t
               PROVE  ~Conflicts(session'[q].lock, session'[t].lock)
    BY DEF LocksOK
  <2>1. \A m, n : Conflicts(m, n) => Conflicts(n, m)
    BY DEF Conflicts
  <2>2. \A r \in Sessions : r # s => ~Conflicts(session'[s].lock, session[r].lock)
    BY DEF Free, RepositoryOK, LocksOK
  <2> QED BY <2>1, <2>2 DEF RepositoryOK, LocksOK
<1>3. RowOK'
  BY DEF RepositoryOK, RowOK
<1>4. ASSUME NEW q \in Sessions, q # s PROVE SessionOK(q)'
  <2>1. session'[q] = session[q] /\ Seen(q)' = Seen(q) /\ SessionOK(q)
    BY <1>4 DEF Seen, RepositoryOK
  <2>2. LockedOK(q)' /\ EntityOK(q)' /\ ImageOK(q)'
    BY <2>1 DEF SessionOK, LockedOK, EntityOK, ImageOK
  <2>3. VersionedOK(q)' /\ CarefulOK(q)'
    BY <2>1 DEF SessionOK, VersionedOK, CarefulOK
  <2> QED BY <2>2, <2>3 DEF SessionOK
<1> QED BY <1>1, <1>2, <1>3, <1>4 DEF RepositoryOK

\* The fields of a session and what it sees.
LEMMA Fields ==
    ASSUME Types, NEW s \in Sessions
    PROVE  /\ session[s] \in SessionType
           /\ session[s].entity \in EntityType /\ session[s].image \in RowType
           /\ session[s].lock \in Modes /\ session[s].wrote \in BOOLEAN
           /\ session[s].undeletes \in BOOLEAN
           /\ Seen(s) \in RowType
<1>1. session[s] \in SessionType /\ row \in RowType
  BY DEF Types
<1>2. /\ session[s].entity \in EntityType /\ session[s].image \in RowType
      /\ session[s].lock \in Modes /\ session[s].wrote \in BOOLEAN
      /\ session[s].undeletes \in BOOLEAN
  BY <1>1 DEF SessionType
<1> QED BY <1>1, <1>2 DEF Seen

\* The entity of a session is replaced, and its lock perhaps strengthened.
LEMMA EntityStep ==
    ASSUME RepositoryOK, NEW s \in Sessions, NEW e \in EntityType, NEW mode \in Modes,
           session' = [session EXCEPT ![s].lock = mode, ![s].entity = e],
           UNCHANGED <<row, versioned, careless, bulked>>,
           mode = session[s].lock \/ Free(s, mode),
           session[s].wrote \/ e.careful => mode \in Exclusive,
           e.state = "pending" => e.value = 0 /\ e.dirty = {} /\ e.version = 1,
           e.state = "persistent" => e.version <= Seen(s).version,
           e.state = "persistent" /\ e.dirty # {} => e.version < MaxVersion,
           versioned /\ ~bulked /\ e.state = "persistent" /\ Seen(s).there
               /\ e.version = Seen(s).version => Tracks(e, Seen(s)),
           ~careless /\ e.state = "persistent" /\ e.careful /\ e.version < MaxVersion
               => Tracks(e, Seen(s))
    PROVE  RepositoryOK'
<1>1. Types /\ SessionOK(s)
  BY DEF RepositoryOK
<1>2. PICK new : new = [session[s] EXCEPT !.lock = mode, !.entity = e]
  OBVIOUS
<1>3. /\ new \in SessionType /\ new.lock = mode /\ new.entity = e
      /\ new.wrote = session[s].wrote /\ new.image = session[s].image
      /\ new.undeletes = session[s].undeletes
  <2>1. session[s] \in SessionType
    BY <1>1, Fields
  <2> QED BY <1>2, <2>1 DEF SessionType
<1>4. session' = [session EXCEPT ![s] = new]
  BY <1>1, <1>2 DEF Types
<1>5. /\ session' \in [Sessions -> SessionType] /\ session'[s] = new
      /\ \A q \in Sessions : q # s => session'[q] = session[q]
  BY <1>1, <1>3, <1>4 DEF Types
<1>6. Seen(s)' = Seen(s)
  BY <1>3, <1>5 DEF Seen
<1>7. SessionOK(s)'
  <2>1. LockedOK(s)' /\ ImageOK(s)'
    BY <1>1, <1>3, <1>5 DEF SessionOK, LockedOK, ImageOK
  <2>2. EntityOK(s)'
    BY <1>3, <1>5, <1>6 DEF EntityOK
  <2>3. VersionedOK(s)'
    BY <1>1, <1>3, <1>5, <1>6 DEF SessionOK, VersionedOK
  <2>4. CarefulOK(s)'
    BY <1>1, <1>3, <1>5, <1>6 DEF SessionOK, CarefulOK
  <2> QED BY <2>1, <2>2, <2>3, <2>4 DEF SessionOK
<1> QED BY <1>1, <1>3, <1>5, <1>7, SessionStep DEF Types

\* A transaction writes the row under an exclusive lock.
LEMMA WriteStep ==
    ASSUME RepositoryOK, NEW s \in Sessions, NEW new \in SessionType,
           NEW e, e = new.entity, NEW r, r = new.image,
           session' = [session EXCEPT ![s] = new], new.wrote, new.lock \in Exclusive,
           new.lock = session[s].lock \/ Free(s, new.lock),
           row' = row, versioned' = versioned,
           careless' \in BOOLEAN, bulked' \in BOOLEAN,
           careless => careless', bulked => bulked',
           e.state = "pending" => e.value = 0 /\ e.dirty = {} /\ e.version = 1,
           e.state = "persistent" => e.version <= r.version,
           e.state = "persistent" /\ e.dirty # {} => e.version < MaxVersion,
           versioned /\ ~bulked' =>
               /\ Balanced(r)
               /\ r.there => row.version < r.version
               /\ e.state = "persistent" /\ r.there /\ e.version = r.version => Tracks(e, r),
           ~careless' =>
               /\ Balanced(r)
               /\ e.state = "persistent" /\ e.careful /\ e.version < MaxVersion => Tracks(e, r),
           row.version <= r.version,
           ~new.undeletes /\ r.there => row.there /\ (~r.deleted => ~row.deleted)
    PROVE  RepositoryOK'
<1>1. /\ session' \in [Sessions -> SessionType] /\ session'[s] = new
      /\ \A q \in Sessions : q # s => session'[q] = session[q]
  BY DEF RepositoryOK, Types
<1>2. Seen(s)' = r
  BY <1>1 DEF Seen
<1>3. SessionOK(s)'
  <2>1. LockedOK(s)' /\ ImageOK(s)'
    BY <1>1 DEF LockedOK, ImageOK
  <2>2. EntityOK(s)'
    BY <1>1, <1>2 DEF EntityOK
  <2>3. VersionedOK(s)'
    BY <1>1, <1>2 DEF VersionedOK
  <2>4. CarefulOK(s)'
    BY <1>1, <1>2 DEF CarefulOK
  <2> QED BY <2>1, <2>2, <2>3, <2>4 DEF SessionOK
<1> QED BY <1>1, <1>3, SessionStep

\* A session without an entity and without a transaction.
LEMMA NewSessionOK ==
    /\ NoEntity \in EntityType /\ NoRow \in RowType /\ NewRow \in RowType
    /\ NewSession(NoEntity) \in SessionType
<1>1. NoEntity \in EntityType /\ NoRow \in RowType /\ NewRow \in RowType
  BY DEF NoEntity, EntityType, NoRow, NewRow, RowType
<1> QED BY <1>1 DEF NewSession, SessionType, Modes

\* A rollback forgets what was written and what was loaded.
LEMMA RolledBackOK ==
    ASSUME RepositoryOK, NEW s \in Sessions, RolledBack(s),
           UNCHANGED <<row, versioned, careless, bulked>>
    PROVE  RepositoryOK'
<1>1. PICK new : new = NewSession(NoEntity)
  OBVIOUS
<1>2. /\ new \in SessionType /\ new.entity = NoEntity /\ new.wrote = FALSE /\ new.lock = "none"
  BY <1>1, NewSessionOK DEF NewSession
<1>3. /\ session' \in [Sessions -> SessionType] /\ session'[s] = new
      /\ \A q \in Sessions : q # s => session'[q] = session[q]
  BY <1>1, <1>2 DEF RolledBack, RepositoryOK, Types
<1>4. NoEntity.state = "none" /\ ~NoEntity.careful
  BY DEF NoEntity
<1>5. SessionOK(s)'
  BY <1>2, <1>3, <1>4 DEF SessionOK, LockedOK, EntityOK, VersionedOK, CarefulOK, ImageOK
<1>6. Free(s, session'[s].lock)
  BY <1>2, <1>3 DEF Free, Conflicts
<1> QED BY <1>3, <1>5, <1>6, SessionStep DEF RepositoryOK, Types

\* What a session sees is at least as new as the row, brings nothing back unless
\* it says so, and has lost no update.
LEMMA SeenOK ==
    ASSUME RepositoryOK, NEW s \in Sessions
    PROVE  /\ row.version <= Seen(s).version
           /\ ~session[s].undeletes /\ Seen(s).there
                => row.there /\ (~Seen(s).deleted => ~row.deleted)
           /\ (versioned /\ ~bulked) \/ ~careless => Balanced(Seen(s))
<1>1. CASE session[s].wrote
  <2>1. Seen(s) = session[s].image /\ SessionOK(s)
    BY <1>1 DEF Seen, RepositoryOK
  <2> QED BY <1>1, <2>1 DEF SessionOK, VersionedOK, CarefulOK, ImageOK
<1>2. CASE ~session[s].wrote
  <2>1. Seen(s) = row /\ row \in RowType
    BY <1>2 DEF Seen, RepositoryOK, Types
  <2>2. row.version <= row.version
    BY <2>1 DEF RowType
  <2> QED BY <2>1, <2>2 DEF RepositoryOK, RowOK
<1> QED BY <1>1, <1>2

-----------------------------------------------------------------------------
(* Reads and changes of the entity.                                         *)

\* An entity that is loaded anew is up to date; one the session holds stays.
LEMMA LoadedOK ==
    ASSUME RepositoryOK, NEW s \in Sessions, NEW careful \in BOOLEAN, NEW mode \in Modes,
           session' = [session EXCEPT ![s].lock = mode, ![s].entity = Loaded(s, careful)],
           UNCHANGED <<row, versioned, careless, bulked>>,
           mode = session[s].lock \/ Free(s, mode),
           session[s].lock \in Exclusive => mode \in Exclusive,
           careful => mode \in Exclusive
    PROVE  RepositoryOK'
<1>1. Types /\ SessionOK(s)
  BY DEF RepositoryOK
<1>2. CASE session[s].entity.state # "none"
  <2>1. PICK e : e = session[s].entity
    OBVIOUS
  <2>2. Loaded(s, careful) = e /\ e \in EntityType
    BY <1>1, <1>2, <2>1, Fields DEF Loaded
  <2>3. session' = [session EXCEPT ![s].lock = mode, ![s].entity = e]
    BY <2>2
  <2>4. session[s].wrote \/ e.careful => mode \in Exclusive
    BY <1>1, <2>1 DEF SessionOK, LockedOK
  <2>5. /\ e.state = "pending" => e.value = 0 /\ e.dirty = {} /\ e.version = 1
        /\ e.state = "persistent" => e.version <= Seen(s).version
        /\ e.state = "persistent" /\ e.dirty # {} => e.version < MaxVersion
    BY <1>1, <2>1 DEF SessionOK, EntityOK
  <2>6. /\ versioned /\ ~bulked /\ e.state = "persistent" /\ Seen(s).there
             /\ e.version = Seen(s).version => Tracks(e, Seen(s))
        /\ ~careless /\ e.state = "persistent" /\ e.careful /\ e.version < MaxVersion
             => Tracks(e, Seen(s))
    BY <1>1, <2>1 DEF SessionOK, VersionedOK, CarefulOK
  <2> HIDE DEF Tracks, Seen
  <2> QED BY <2>2, <2>3, <2>4, <2>5, <2>6, EntityStep
<1>3. CASE session[s].entity.state = "none"
  <2>1. PICK r \in RowType : r = Seen(s)
    BY <1>1, Fields
  <2>2. PICK e : e = [state |-> "persistent", value |-> r.value, deleted |-> r.deleted,
                      version |-> r.version, loadedDeleted |-> r.deleted, dirty |-> {},
                      careful |-> careful]
    OBVIOUS
  <2>3. e \in EntityType
    BY <2>2 DEF EntityType, RowType
  <2>4. /\ e.state = "persistent" /\ e.value = r.value /\ e.version = r.version
        /\ e.dirty = {} /\ e.careful = careful /\ r.version \in Nat
    BY <2>2 DEF RowType
  <2>5. Loaded(s, careful) = e
    BY <1>3, <2>1, <2>2 DEF Loaded
  <2>6. session' = [session EXCEPT ![s].lock = mode, ![s].entity = e]
    BY <2>5
  <2>7. Tracks(e, Seen(s)) /\ e.version <= Seen(s).version
    BY <2>1, <2>4 DEF Tracks
  <2>8. session[s].wrote \/ e.careful => mode \in Exclusive
    BY <1>1, <2>4 DEF SessionOK, LockedOK
  <2> QED BY <2>3, <2>4, <2>6, <2>7, <2>8, EntityStep
<1> QED BY <1>2, <1>3

\* get() and require().
LEMMA GetOK ==
    ASSUME RepositoryOK, NEW s \in Sessions, NEW args \in GetArguments, Get(s, args)
    PROVE  RepositoryOK'
<1>1. PICK mode : mode = IF LockOf(args).given THEN Mode(LockOf(args)) ELSE "none"
  OBVIOUS
<1>2. PICK lock : lock = Stronger(session[s].lock, mode)
  OBVIOUS
<1>3. /\ Accepted(args) /\ Obtains(s, LockOf(args))
      /\ session' = [session EXCEPT ![s].lock = Stronger(@, mode),
                                    ![s].entity = Loaded(s, AsksForExclusive(args))]
      /\ UNCHANGED <<row, versioned, careless, bulked>>
  BY <1>1 DEF Get
<1>4. /\ mode \in Modes /\ session[s].lock \in Modes /\ AsksForExclusive(args) \in BOOLEAN
      /\ AsksForExclusive(args) => mode \in Exclusive
      /\ mode # "none" => Free(s, mode)
  <2>1. "none" \in Modes
    BY DEF Modes
  <2> QED BY <1>1, <1>3, <2>1, AsksAndGets, Fields DEF RepositoryOK, Obtains
<1>5. /\ lock \in Modes
      /\ lock = session[s].lock \/ Free(s, lock)
      /\ session[s].lock \in Exclusive => lock \in Exclusive
      /\ AsksForExclusive(args) => lock \in Exclusive
  <2>1. Free(s, "none")
    BY DEF Free, Conflicts
  <2> QED BY <1>2, <1>4, <2>1, StrongerLock
<1>6. session' = [session EXCEPT ![s].lock = lock,
                                 ![s].entity = Loaded(s, AsksForExclusive(args))]
  BY <1>2, <1>3 DEF RepositoryOK, Types
<1>7. PICK careful \in BOOLEAN : careful = AsksForExclusive(args)
  BY <1>4
<1>8. /\ session' = [session EXCEPT ![s].lock = lock, ![s].entity = Loaded(s, careful)]
      /\ careful => lock \in Exclusive
  BY <1>5, <1>6, <1>7
<1> QED BY <1>3, <1>5, <1>8, LoadedOK

\* list() and its siblings take no lock.
LEMMA ListOK ==
    ASSUME RepositoryOK, NEW s \in Sessions, NEW include_deleted \in BOOLEAN,
           List(s, include_deleted)
    PROVE  RepositoryOK'
<1>1. PICK lock \in Modes : lock = session[s].lock
  BY Fields DEF RepositoryOK
<1>2. PICK e : e = Loaded(s, FALSE)
  OBVIOUS
<1>3. session' = [session EXCEPT ![s].lock = lock, ![s].entity = e]
  <2>1. session[s] \in SessionType /\ session \in [Sessions -> SessionType]
    BY Fields DEF RepositoryOK, Types
  <2>2. session' = [session EXCEPT ![s].entity = e]
    BY <1>2 DEF List
  <2>3. [session[s] EXCEPT !.entity = e] = [session[s] EXCEPT !.lock = lock, !.entity = e]
    BY <1>1, <2>1 DEF SessionType
  <2> QED BY <2>1, <2>2, <2>3
<1>4. UNCHANGED <<row, versioned, careless, bulked>>
  BY DEF List
<1> QED BY <1>1, <1>2, <1>3, <1>4, LoadedOK

\* The entity is changed in the session only; the lock stays.
LEMMA ChangeStep ==
    ASSUME RepositoryOK, NEW s \in Sessions, NEW e \in EntityType,
           session' = [session EXCEPT ![s].entity = e],
           UNCHANGED <<row, versioned, careless, bulked>>,
           e.careful => session[s].entity.careful,
           e.state = "pending" => e.value = 0 /\ e.dirty = {} /\ e.version = 1,
           e.state = "persistent" => e.version <= Seen(s).version,
           e.state = "persistent" /\ e.dirty # {} => e.version < MaxVersion,
           versioned /\ ~bulked /\ e.state = "persistent" /\ Seen(s).there
               /\ e.version = Seen(s).version => Tracks(e, Seen(s)),
           ~careless /\ e.state = "persistent" /\ e.careful /\ e.version < MaxVersion
               => Tracks(e, Seen(s))
    PROVE  RepositoryOK'
<1>1. PICK lock \in Modes : lock = session[s].lock
  BY Fields DEF RepositoryOK
<1>2. session' = [session EXCEPT ![s].lock = lock, ![s].entity = e]
  <2>1. session[s] \in SessionType /\ session \in [Sessions -> SessionType]
    BY Fields DEF RepositoryOK, Types
  <2>2. [session[s] EXCEPT !.entity = e] = [session[s] EXCEPT !.lock = lock, !.entity = e]
    BY <1>1, <2>1 DEF SessionType
  <2> QED BY <2>1, <2>2
<1>3. session[s].wrote \/ e.careful => lock \in Exclusive
  BY <1>1 DEF RepositoryOK, SessionOK, LockedOK
<1> QED BY <1>1, <1>2, <1>3, EntityStep

\* add(): the entity is pending.
LEMMA AddOK ==
    ASSUME RepositoryOK, NEW s \in Sessions, Add(s)
    PROVE  RepositoryOK'
<1>1. PICK e : e = [NoEntity EXCEPT !.state = "pending", !.version = 1]
  OBVIOUS
<1>2. /\ e \in EntityType /\ e.state = "pending" /\ e.value = 0 /\ e.dirty = {}
      /\ e.version = 1 /\ ~e.careful
  BY <1>1 DEF NoEntity, EntityType
<1>3. /\ session' = [session EXCEPT ![s].entity = e]
      /\ UNCHANGED <<row, versioned, careless, bulked>>
  BY <1>1 DEF Add
<1> QED BY <1>2, <1>3, ChangeStep

\* update(): the entity is one ahead of the row, as Tracks says.
LEMMA UpdateOK ==
    ASSUME RepositoryOK, NEW s \in Sessions, Update(s)
    PROVE  RepositoryOK'
<1>1. PICK old \in EntityType : old = session[s].entity
  BY Fields DEF RepositoryOK
<1>2. PICK e : e = [old EXCEPT !.value = old.value + 1, !.dirty = old.dirty \cup {"value"}]
  OBVIOUS
<1>3. /\ e \in EntityType /\ e.state = old.state /\ e.value = old.value + 1
      /\ "value" \in e.dirty /\ e.version = old.version /\ e.careful = old.careful
  <2>1. PICK dirty \in SUBSET {"value", "deleted"} : dirty = old.dirty \cup {"value"}
    BY DEF EntityType
  <2>2. PICK value \in Nat : value = old.value + 1
    BY <1>1 DEF EntityType
  <2>3. e = [old EXCEPT !.value = value, !.dirty = dirty] /\ "value" \in dirty
    BY <1>2, <2>1, <2>2
  <2>4. e \in EntityType
    BY <1>1, <2>1, <2>2, <2>3 DEF EntityType
  <2> QED BY <1>1, <2>1, <2>2, <2>3, <2>4 DEF EntityType
<1>4. /\ old.state = "persistent" /\ old.version < MaxVersion /\ "value" \notin old.dirty
      /\ UNCHANGED <<row, versioned, careless, bulked>>
  BY <1>1 DEF Update, Held
<1>5. session' = [session EXCEPT ![s].entity = e]
  <2>1. session' = [session EXCEPT ![s].entity.value = old.value + 1,
                                   ![s].entity.dirty = old.dirty \cup {"value"}]
    BY <1>1 DEF Update, RepositoryOK, Types, SessionType, EntityType
  <2>2. session[s] \in SessionType /\ session \in [Sessions -> SessionType]
    BY Fields DEF RepositoryOK, Types
  <2>3. [session[s] EXCEPT !.entity.value = old.value + 1,
                           !.entity.dirty = old.dirty \cup {"value"}]
          = [session[s] EXCEPT !.entity = e]
    BY <1>1, <1>2, <2>2 DEF SessionType, EntityType
  <2> QED BY <2>1, <2>2, <2>3
<1>6. old.version <= Seen(s).version
  BY <1>1, <1>4 DEF RepositoryOK, SessionOK, EntityOK
<1>7. Tracks(old, Seen(s)) => Tracks(e, Seen(s))
  BY <1>3, <1>4 DEF Tracks
<1>8. /\ versioned /\ ~bulked /\ Seen(s).there /\ old.version = Seen(s).version
            => Tracks(old, Seen(s))
      /\ ~careless /\ old.careful => Tracks(old, Seen(s))
  BY <1>1, <1>4 DEF RepositoryOK, SessionOK, VersionedOK, CarefulOK
<1> QED BY <1>1, <1>3, <1>4, <1>5, <1>6, <1>7, <1>8, ChangeStep

\* A change of a held entity that leaves its value and its version alone.
LEMMA MarkStep ==
    ASSUME RepositoryOK, NEW s \in Sessions, NEW e \in EntityType, NEW old \in EntityType,
           old = session[s].entity, Held(s),
           session' = [session EXCEPT ![s].entity = e],
           UNCHANGED <<row, versioned, careless, bulked>>,
           e.state \in {"persistent", "delete"}, e.value = old.value, e.version = old.version,
           e.careful = old.careful, "value" \in e.dirty <=> "value" \in old.dirty
    PROVE  RepositoryOK'
<1>1. old.state = "persistent" /\ old.version < MaxVersion
  BY DEF Held
<1>2. old.version <= Seen(s).version
  BY <1>1 DEF RepositoryOK, SessionOK, EntityOK
<1>3. Tracks(old, Seen(s)) => Tracks(e, Seen(s))
  BY DEF Tracks
<1>4. /\ versioned /\ ~bulked /\ Seen(s).there /\ old.version = Seen(s).version
            => Tracks(old, Seen(s))
      /\ ~careless /\ old.careful => Tracks(old, Seen(s))
  BY <1>1 DEF RepositoryOK, SessionOK, VersionedOK, CarefulOK
<1> QED BY <1>1, <1>2, <1>3, <1>4, ChangeStep

\* delete(): the entity is marked as deleted.
LEMMA SoftDeleteOK ==
    ASSUME RepositoryOK, NEW s \in Sessions, SoftDelete(s)
    PROVE  RepositoryOK'
<1>1. PICK old \in EntityType : old = session[s].entity
  BY Fields DEF RepositoryOK
<1>2. PICK dirty \in SUBSET {"value", "deleted"} : dirty = old.dirty \cup {"deleted"}
  BY <1>1 DEF EntityType
<1>3. PICK e : e = [old EXCEPT !.deleted = TRUE, !.dirty = dirty]
  OBVIOUS
<1>4. /\ e \in EntityType /\ e.state = old.state /\ e.value = old.value
      /\ e.dirty = dirty /\ e.version = old.version /\ e.careful = old.careful
  BY <1>1, <1>2, <1>3 DEF EntityType
<1>5. /\ Held(s) /\ old.state = "persistent"
      /\ UNCHANGED <<row, versioned, careless, bulked>>
  BY <1>1 DEF SoftDelete, Held
<1>6. session' = [session EXCEPT ![s].entity = e]
  <2>1. session' = [session EXCEPT ![s].entity.deleted = TRUE, ![s].entity.dirty = dirty]
    BY <1>1, <1>2 DEF SoftDelete, RepositoryOK, Types, SessionType, EntityType
  <2>2. session[s] \in SessionType /\ session \in [Sessions -> SessionType]
    BY Fields DEF RepositoryOK, Types
  <2>3. [session[s] EXCEPT !.entity.deleted = TRUE, !.entity.dirty = dirty]
          = [session[s] EXCEPT !.entity = e]
    BY <1>1, <1>3, <2>2 DEF SessionType, EntityType
  <2> QED BY <2>1, <2>2, <2>3
<1>7. "value" \in e.dirty <=> "value" \in old.dirty
  BY <1>2, <1>4
<1> QED BY <1>1, <1>4, <1>5, <1>6, <1>7, MarkStep

\* update() naming deleted_at: the mark is set or taken back.
LEMMA UpdateDeletedAtOK ==
    ASSUME RepositoryOK, NEW s \in Sessions, NEW deleted \in BOOLEAN,
           UpdateDeletedAt(s, deleted)
    PROVE  RepositoryOK'
<1>1. PICK old \in EntityType : old = session[s].entity
  BY Fields DEF RepositoryOK
<1>2. PICK dirty \in SUBSET {"value", "deleted"} : dirty = old.dirty \cup {"deleted"}
  BY <1>1 DEF EntityType
<1>3. PICK e : e = [old EXCEPT !.deleted = deleted, !.dirty = dirty]
  OBVIOUS
<1>4. /\ e \in EntityType /\ e.state = old.state /\ e.value = old.value
      /\ e.dirty = dirty /\ e.version = old.version /\ e.careful = old.careful
  BY <1>1, <1>2, <1>3 DEF EntityType
<1>5. /\ Held(s) /\ old.state = "persistent"
      /\ UNCHANGED <<row, versioned, careless, bulked>>
  BY <1>1 DEF UpdateDeletedAt, Held
<1>6. session' = [session EXCEPT ![s].entity = e]
  <2>1. session' = [session EXCEPT ![s].entity.deleted = deleted, ![s].entity.dirty = dirty]
    BY <1>1, <1>2 DEF UpdateDeletedAt, RepositoryOK, Types, SessionType, EntityType
  <2>2. session[s] \in SessionType /\ session \in [Sessions -> SessionType]
    BY Fields DEF RepositoryOK, Types
  <2>3. [session[s] EXCEPT !.entity.deleted = deleted, !.entity.dirty = dirty]
          = [session[s] EXCEPT !.entity = e]
    BY <1>1, <1>3, <2>2 DEF SessionType, EntityType
  <2> QED BY <2>1, <2>2, <2>3
<1>7. "value" \in e.dirty <=> "value" \in old.dirty
  BY <1>2, <1>4
<1> QED BY <1>1, <1>4, <1>5, <1>6, <1>7, MarkStep

\* restore(): the mark is taken back.
LEMMA RestoreOK ==
    ASSUME RepositoryOK, NEW s \in Sessions, Restore(s)
    PROVE  RepositoryOK'
<1>1. PICK old \in EntityType : old = session[s].entity
  BY Fields DEF RepositoryOK
<1>2. PICK dirty \in SUBSET {"value", "deleted"} :
        dirty = IF old.loadedDeleted THEN old.dirty \cup {"deleted"} ELSE old.dirty \ {"deleted"}
  BY <1>1 DEF EntityType
<1>3. PICK e : e = [old EXCEPT !.deleted = FALSE, !.dirty = dirty]
  OBVIOUS
<1>4. /\ e \in EntityType /\ e.state = old.state /\ e.value = old.value
      /\ e.dirty = dirty /\ e.version = old.version /\ e.careful = old.careful
  BY <1>1, <1>2, <1>3 DEF EntityType
<1>5. /\ Held(s) /\ old.state = "persistent"
      /\ UNCHANGED <<row, versioned, careless, bulked>>
  BY <1>1 DEF Restore, Held
<1>6. session' = [session EXCEPT ![s].entity = e]
  <2>1. session' = [session EXCEPT ![s].entity.deleted = FALSE, ![s].entity.dirty = dirty]
    BY <1>1, <1>2 DEF Restore, RepositoryOK, Types, SessionType, EntityType
  <2>2. session[s] \in SessionType /\ session \in [Sessions -> SessionType]
    BY Fields DEF RepositoryOK, Types
  <2>3. [session[s] EXCEPT !.entity.deleted = FALSE, !.entity.dirty = dirty]
          = [session[s] EXCEPT !.entity = e]
    BY <1>1, <1>3, <2>2 DEF SessionType, EntityType
  <2> QED BY <2>1, <2>2, <2>3
<1>7. "value" \in e.dirty <=> "value" \in old.dirty
  BY <1>2, <1>4
<1> QED BY <1>1, <1>4, <1>5, <1>6, <1>7, MarkStep

\* delete(hard=True): the entity is marked for a DELETE.
LEMMA HardDeleteOK ==
    ASSUME RepositoryOK, NEW s \in Sessions, HardDelete(s)
    PROVE  RepositoryOK'
<1>1. PICK old \in EntityType : old = session[s].entity
  BY Fields DEF RepositoryOK
<1>2. PICK e : e = [old EXCEPT !.state = "delete"]
  OBVIOUS
<1>3. /\ e \in EntityType /\ e.state = "delete" /\ e.value = old.value
      /\ e.dirty = old.dirty /\ e.version = old.version /\ e.careful = old.careful
  BY <1>1, <1>2 DEF EntityType
<1>4. Held(s) /\ UNCHANGED <<row, versioned, careless, bulked>>
  BY DEF HardDelete
<1>5. session' = [session EXCEPT ![s].entity = e]
  <2>1. session[s] \in SessionType /\ session \in [Sessions -> SessionType]
    BY Fields DEF RepositoryOK, Types
  <2>2. [session[s] EXCEPT !.entity.state = "delete"] = [session[s] EXCEPT !.entity = e]
    BY <1>1, <1>2, <2>1 DEF SessionType, EntityType
  <2> QED BY <2>1, <2>2 DEF HardDelete
<1> QED BY <1>1, <1>3, <1>4, <1>5, MarkStep

\* The refresh after a flush: the entity is what the session sees.
LEMMA RefreshOK ==
    ASSUME RepositoryOK, NEW s \in Sessions, Refresh(s)
    PROVE  RepositoryOK'
<1>1. PICK old \in EntityType : old = session[s].entity
  BY Fields DEF RepositoryOK
<1>2. PICK r \in RowType : r = Seen(s)
  BY Fields DEF RepositoryOK
<1>3. PICK e : e = [old EXCEPT !.value = r.value, !.deleted = r.deleted,
                               !.loadedDeleted = r.deleted, !.version = r.version]
  OBVIOUS
<1>4. /\ e \in EntityType /\ e.state = old.state /\ e.value = r.value
      /\ e.dirty = old.dirty /\ e.version = r.version /\ e.careful = old.careful
      /\ r.version \in Nat
  BY <1>1, <1>2, <1>3 DEF EntityType, RowType
<1>5. /\ old.state = "persistent" /\ old.dirty = {}
      /\ UNCHANGED <<row, versioned, careless, bulked>>
  BY <1>1 DEF Refresh, Held, Pending
<1>6. session' = [session EXCEPT ![s].entity = e]
  <2>1. session[s] \in SessionType /\ session \in [Sessions -> SessionType]
    BY Fields DEF RepositoryOK, Types
  <2>2. [session[s] EXCEPT !.entity.value = r.value, !.entity.deleted = r.deleted,
                           !.entity.loadedDeleted = r.deleted, !.entity.version = r.version]
          = [session[s] EXCEPT !.entity = e]
    BY <1>1, <1>3, <2>1 DEF SessionType, EntityType
  <2>3. session' = [session EXCEPT
          ![s].entity.value = r.value, ![s].entity.deleted = r.deleted,
          ![s].entity.loadedDeleted = r.deleted, ![s].entity.version = r.version]
    BY <1>2 DEF Refresh
  <2> QED BY <2>1, <2>2, <2>3
<1>7. Tracks(e, Seen(s)) /\ e.version <= Seen(s).version
  BY <1>2, <1>4, <1>5 DEF Tracks
<1> QED BY <1>1, <1>4, <1>5, <1>6, <1>7, ChangeStep

-----------------------------------------------------------------------------
(* Statements that write the row.                                           *)

\* The INSERT of a flush.
LEMMA FlushInsertOK ==
    ASSUME RepositoryOK, NEW s \in Sessions, FlushInsert(s)
    PROVE  RepositoryOK'
<1>1. UNCHANGED <<row, versioned, careless, bulked>> /\ Free(s, "update")
  BY DEF FlushInsert
<1>2. CASE ~Unused(Seen(s))
  BY <1>1, <1>2, RolledBackOK DEF FlushInsert
<1>3. CASE Unused(Seen(s))
  <2>1. PICK old \in EntityType : old = session[s].entity
    BY Fields DEF RepositoryOK
  <2>2. PICK e : e = [old EXCEPT !.state = "persistent", !.careful = TRUE]
    OBVIOUS
  <2>3. PICK new : new = [session[s] EXCEPT !.wrote = TRUE, !.lock = "update",
                            !.undeletes = TRUE, !.entity.state = "persistent",
                            !.entity.careful = TRUE, !.image = NewRow]
    OBVIOUS
  <2>4. session' = [session EXCEPT ![s] = new]
    BY <1>3, <2>3 DEF FlushInsert, RepositoryOK, Types
  <2>5. old.value = 0 /\ old.dirty = {} /\ old.version = 1
    BY <2>1 DEF FlushInsert, RepositoryOK, SessionOK, EntityOK
  <2>6. /\ e \in EntityType /\ e.state = "persistent" /\ e.value = 0 /\ e.dirty = {}
        /\ e.version = 1
    BY <2>1, <2>2, <2>5 DEF EntityType
  <2>7. row.version = 0
    <3>1. row.version \in Nat
      BY DEF RepositoryOK, Types, RowType
    <3> QED BY <1>3, <3>1, SeenOK DEF Unused
  <2>8. PICK r \in RowType : r = NewRow
    BY NewSessionOK
  <2>9. r.value = 0 /\ r.version = 1 /\ r.count = 0
    BY <2>8 DEF NewRow
  <2>10. Balanced(r) /\ Tracks(e, r)
    BY <2>6, <2>9 DEF Balanced, Tracks
  <2>11. careless \in BOOLEAN /\ bulked \in BOOLEAN /\ "update" \in Exclusive
    BY DEF RepositoryOK, Types, Exclusive
  <2>12. /\ new \in SessionType /\ new.entity = e /\ new.wrote /\ new.image = r
         /\ new.lock = "update" /\ new.undeletes = TRUE
    <3>1. session[s] \in SessionType /\ "update" \in Modes
      BY Fields DEF RepositoryOK, Modes
    <3>2. new = [session[s] EXCEPT !.wrote = TRUE, !.lock = "update", !.undeletes = TRUE,
                                   !.entity = e, !.image = r]
      BY <2>1, <2>2, <2>3, <2>8, <3>1 DEF SessionType, EntityType
    <3> QED BY <2>6, <2>8, <3>1, <3>2 DEF SessionType
  <2>13. PICK undeletes \in BOOLEAN : undeletes /\ new.undeletes = undeletes
    BY <2>12
  <2>14. row.version < r.version /\ row.version <= r.version /\ e.version <= r.version
    BY <2>6, <2>7, <2>9
  <2> QED BY <1>1, <2>4, <2>6, <2>8, <2>10, <2>11, <2>12, <2>13, <2>14, WriteStep
<1> QED BY <1>2, <1>3

\* bulk_insert.
LEMMA BulkInsertOK ==
    ASSUME RepositoryOK, NEW s \in Sessions, BulkInsert(s)
    PROVE  RepositoryOK'
<1>1. UNCHANGED <<row, versioned, careless, bulked>> /\ Free(s, "update") /\ Unused(Seen(s))
  BY DEF BulkInsert
<1>2. PICK e \in EntityType : e = session[s].entity
  BY Fields DEF RepositoryOK
<1>3. e.state = "none"
  BY <1>2 DEF BulkInsert
<1>4. PICK r \in RowType : r = NewRow
  BY NewSessionOK
<1>5. r.value = 0 /\ r.version = 1 /\ r.count = 0
  BY <1>4 DEF NewRow
<1>6. PICK new : new = [session[s] EXCEPT !.wrote = TRUE, !.lock = "update",
                                          !.undeletes = TRUE, !.image = r]
  OBVIOUS
<1>7. session' = [session EXCEPT ![s] = new]
  BY <1>4, <1>6 DEF BulkInsert, RepositoryOK, Types
<1>8. /\ new \in SessionType /\ new.entity = e /\ new.wrote /\ new.image = r
      /\ new.lock = "update" /\ new.undeletes = TRUE
  <2>1. session[s] \in SessionType /\ "update" \in Modes
    BY Fields DEF RepositoryOK, Modes
  <2> QED BY <1>2, <1>4, <1>6, <2>1 DEF SessionType
<1>9. row.version = 0
  <2>1. row.version \in Nat
    BY DEF RepositoryOK, Types, RowType
  <2> QED BY <1>1, <2>1, SeenOK DEF Unused
<1>10. Balanced(r)
  BY <1>5 DEF Balanced
<1>11. careless \in BOOLEAN /\ bulked \in BOOLEAN /\ "update" \in Exclusive
  BY DEF RepositoryOK, Types, Exclusive
<1>12. PICK undeletes \in BOOLEAN : undeletes /\ new.undeletes = undeletes
  BY <1>8
<1>13. row.version < r.version /\ row.version <= r.version
  BY <1>5, <1>9
<1> QED BY <1>1, <1>2, <1>3, <1>4, <1>7, <1>8, <1>10, <1>11, <1>12, <1>13, WriteStep

\* A DELETE: the row is gone, and the session lets its entity go.
LEMMA DeleteStep ==
    ASSUME RepositoryOK, NEW s \in Sessions, Free(s, "update"),
           session' = [session EXCEPT ![s].wrote = TRUE, ![s].lock = "update",
              ![s].image = [Seen(s) EXCEPT !.there = FALSE], ![s].entity = NoEntity],
           UNCHANGED <<row, versioned, careless, bulked>>
    PROVE  RepositoryOK'
<1>1. PICK seen \in RowType : seen = Seen(s)
  BY Fields DEF RepositoryOK
<1>2. PICK r : r = [seen EXCEPT !.there = FALSE]
  OBVIOUS
<1>3. /\ r \in RowType /\ ~r.there /\ r.value = seen.value /\ r.count = seen.count
      /\ r.version = seen.version
  BY <1>1, <1>2 DEF RowType
<1>4. PICK undeletes \in BOOLEAN : undeletes = session[s].undeletes
  BY Fields DEF RepositoryOK
<1>5. PICK e \in EntityType : e = NoEntity
  BY NewSessionOK
<1>6. e.state = "none"
  BY <1>5 DEF NoEntity
<1>7. PICK new : new = [session[s] EXCEPT !.wrote = TRUE, !.lock = "update", !.image = r,
                                          !.entity = e]
  OBVIOUS
<1>8. session' = [session EXCEPT ![s] = new]
  BY <1>1, <1>2, <1>5, <1>7 DEF RepositoryOK, Types
<1>9. /\ new \in SessionType /\ new.entity = e /\ new.wrote /\ new.image = r
      /\ new.lock = "update" /\ new.undeletes = undeletes
  <2>1. session[s] \in SessionType /\ "update" \in Modes
    BY Fields DEF RepositoryOK, Modes
  <2> QED BY <1>3, <1>4, <1>5, <1>7, <2>1 DEF SessionType
<1>10. /\ row.version <= r.version
       /\ (versioned /\ ~bulked) \/ ~careless => Balanced(r)
  BY <1>1, <1>3, SeenOK DEF Balanced
<1>11. careless \in BOOLEAN /\ bulked \in BOOLEAN /\ "update" \in Exclusive
  BY DEF RepositoryOK, Types, Exclusive
<1>12. /\ row' = row /\ versioned' = versioned /\ careless' = careless /\ bulked' = bulked
       /\ new.lock \in Exclusive /\ (new.lock = session[s].lock \/ Free(s, new.lock))
       /\ e.state # "pending" /\ e.state # "persistent"
  BY <1>6, <1>9, <1>11
<1>13. (versioned /\ ~bulked' => Balanced(r)) /\ (~careless' => Balanced(r))
  BY <1>10, <1>12
<1>14. /\ careless' \in BOOLEAN /\ bulked' \in BOOLEAN
       /\ (careless => careless') /\ (bulked => bulked')
  BY <1>11, <1>12
<1> QED BY <1>3, <1>8, <1>9, <1>10, <1>12, <1>13, <1>14, WriteStep

\* The DELETE of a flush.
LEMMA FlushDeleteOK ==
    ASSUME RepositoryOK, NEW s \in Sessions, FlushDelete(s)
    PROVE  RepositoryOK'
<1>1. UNCHANGED <<row, versioned, careless, bulked>> /\ Free(s, "update")
  BY DEF FlushDelete
<1>2. CASE RowMatched(s)
  BY <1>1, <1>2, DeleteStep DEF FlushDelete
<1>3. CASE ~RowMatched(s) /\ versioned
  BY <1>1, <1>3, RolledBackOK DEF FlushDelete
<1>4. CASE ~RowMatched(s) /\ ~versioned
  <2>1. PICK e \in EntityType : e = NoEntity
    BY NewSessionOK
  <2>2. e.state = "none" /\ ~e.careful
    BY <2>1 DEF NoEntity
  <2>3. session' = [session EXCEPT ![s].entity = e]
    BY <1>4, <2>1 DEF FlushDelete
  <2> QED BY <1>1, <2>2, <2>3, ChangeStep
<1> QED BY <1>2, <1>3, <1>4

\* delete_where.
LEMMA DeleteWhereOK ==
    ASSUME RepositoryOK, NEW s \in Sessions, DeleteWhere(s)
    PROVE  RepositoryOK'
BY DeleteStep DEF DeleteWhere

\* The lock of an UPDATE.
LEMMA UpdateLock ==
    ASSUME RepositoryOK, NEW s \in Sessions, Free(s, "no_key_update")
    PROVE  LET mode == Stronger(session[s].lock, "no_key_update")
           IN  mode \in Exclusive /\ (mode = session[s].lock \/ Free(s, mode))
<1>1. session[s].lock \in Modes
  BY Fields DEF RepositoryOK
<1>2. "no_key_update" \in Modes /\ "no_key_update" \in Exclusive
  BY DEF Modes, Exclusive
<1> QED BY <1>1, <1>2, StrongerLock

\* The UPDATE of a flush writes one more than the row holds, or leaves the value alone.
LEMMA FlushUpdateOK ==
    ASSUME RepositoryOK, NEW s \in Sessions, FlushUpdate(s)
    PROVE  RepositoryOK'
<1>1. CASE ~RowMatched(s)
  BY <1>1, RolledBackOK DEF FlushUpdate
<1>2. CASE RowMatched(s)
  <2>1. PICK old \in EntityType : old = session[s].entity
    BY Fields DEF RepositoryOK
  <2>2. PICK seen \in RowType : seen = Seen(s)
    BY Fields DEF RepositoryOK
  <2>3. PICK version \in Nat :
          version = IF versioned THEN seen.version + 1 ELSE seen.version
    BY <2>2 DEF RowType
  <2>4. PICK count \in Nat :
          count = IF "value" \in old.dirty THEN seen.count + 1 ELSE seen.count
    BY <2>2 DEF RowType
  <2>5. PICK value \in Nat : value = IF "value" \in old.dirty THEN old.value ELSE seen.value
    BY <2>1, <2>2 DEF RowType, EntityType
  <2>6. PICK deleted \in BOOLEAN :
          deleted = IF "deleted" \in old.dirty THEN old.deleted ELSE seen.deleted
    BY <2>1, <2>2 DEF RowType, EntityType
  <2>7. PICK r : r = [seen EXCEPT !.version = version, !.count = count, !.value = value,
                                  !.deleted = deleted]
    OBVIOUS
  <2>8. /\ r \in RowType /\ r.there = seen.there /\ r.version = version
        /\ r.count = count /\ r.value = value /\ r.deleted = deleted
    BY <2>2, <2>3, <2>4, <2>5, <2>6, <2>7 DEF RowType
  <2>9. PICK e : e = [old EXCEPT !.version = version, !.dirty = {},
                                 !.loadedDeleted = old.deleted]
    OBVIOUS
  <2>10. /\ e \in EntityType /\ e.state = old.state /\ e.value = old.value /\ e.dirty = {}
         /\ e.version = version /\ e.careful = old.careful
    BY <2>1, <2>3, <2>9 DEF EntityType
  <2>11. PICK mode : mode = Stronger(session[s].lock, "no_key_update")
    OBVIOUS
  <2>12. PICK undeletes \in BOOLEAN :
           undeletes = (session[s].undeletes \/ ("deleted" \in old.dirty /\ ~old.deleted))
    OBVIOUS
  <2>13. PICK new : new = [session[s] EXCEPT !.wrote = TRUE, !.lock = mode, !.image = r,
                                             !.undeletes = undeletes, !.entity = e]
    OBVIOUS
  <2>14. /\ old.state = "persistent" /\ old.dirty # {} /\ Free(s, "no_key_update")
         /\ row' = row /\ versioned' = versioned /\ bulked' = bulked
         /\ careless' = (careless \/ ("value" \in old.dirty /\ ~old.careful))
    BY <1>2, <2>1 DEF FlushUpdate
  <2>15. session' = [session EXCEPT ![s] = new]
    <3>1. session' = [session EXCEPT ![s].wrote = TRUE, ![s].lock = mode, ![s].image = r,
                                     ![s].undeletes = undeletes, ![s].entity = e]
      BY <1>2, <2>1, <2>2, <2>3, <2>4, <2>5, <2>6, <2>7, <2>9, <2>11, <2>12
      DEF FlushUpdate, Written, RepositoryOK, Types
    <3> QED BY <2>13, <3>1 DEF RepositoryOK, Types
  <2>16. mode \in Exclusive /\ (mode = session[s].lock \/ Free(s, mode))
    BY <2>11, <2>14, UpdateLock
  <2>17. /\ new \in SessionType /\ new.entity = e /\ new.wrote /\ new.image = r
         /\ new.lock = mode /\ new.undeletes = undeletes
    <3>1. session[s] \in SessionType /\ mode \in Modes
      BY <2>16, Fields DEF RepositoryOK, Exclusive, Modes
    <3> QED BY <2>8, <2>10, <2>12, <2>13, <3>1 DEF SessionType
  <2>18. seen.there /\ (versioned => seen.version = old.version)
    BY <1>2, <2>1, <2>2 DEF RowMatched
  <2>19. old.version < MaxVersion
    BY <2>1, <2>14 DEF RepositoryOK, SessionOK, EntityOK
  <2>20. /\ versioned /\ ~bulked => Tracks(old, seen)
         /\ ~careless /\ old.careful => Tracks(old, seen)
    BY <2>1, <2>2, <2>14, <2>18, <2>19 DEF RepositoryOK, SessionOK, VersionedOK, CarefulOK
  <2>21. /\ row.version <= seen.version
         /\ (versioned /\ ~bulked) \/ ~careless => Balanced(seen)
         /\ ~session[s].undeletes => row.there /\ (~seen.deleted => ~row.deleted)
    BY <2>2, <2>18, SeenOK
  <2>22. Tracks(old, seen) => Tracks(e, r)
    BY <2>1, <2>2, <2>5, <2>8, <2>10 DEF Tracks, EntityType, RowType
  <2>23. /\ Tracks(old, seen) /\ Balanced(seen) => Balanced(r)
         /\ "value" \notin old.dirty /\ Balanced(seen) => Balanced(r)
    BY <2>1, <2>2, <2>4, <2>5, <2>8 DEF Tracks, Balanced, EntityType, RowType
  <2>24. /\ row.version <= r.version /\ e.version <= r.version
         /\ versioned => row.version < r.version
    BY <2>2, <2>3, <2>8, <2>10, <2>21 DEF RepositoryOK, Types, RowType
  <2>25. ~undeletes => row.there /\ (~r.deleted => ~row.deleted)
    BY <2>6, <2>8, <2>12, <2>21
  <2>26. versioned /\ ~bulked => Balanced(r) /\ Tracks(e, r)
    BY <2>20, <2>21, <2>22, <2>23
  <2>27. ~careless' => Balanced(r) /\ (e.careful => Tracks(e, r))
    BY <2>10, <2>14, <2>20, <2>21, <2>22, <2>23
  <2>28. careless' \in BOOLEAN /\ bulked \in BOOLEAN
    BY <2>14 DEF RepositoryOK, Types
  <2> QED BY <2>8, <2>10, <2>12, <2>14, <2>15, <2>16, <2>17, <2>24, <2>25, <2>26, <2>27,
             <2>28, WriteStep
<1> QED BY <1>1, <1>2

\* bulk_update brings the entity along, unless a change of it is waiting.
LEMMA BulkUpdateOK ==
    ASSUME RepositoryOK, NEW s \in Sessions, BulkUpdate(s)
    PROVE  RepositoryOK'
<1>1. PICK old \in EntityType : old = session[s].entity
  BY Fields DEF RepositoryOK
<1>2. PICK seen \in RowType : seen = Seen(s)
  BY Fields DEF RepositoryOK
<1>3. /\ seen.there /\ seen.value < MaxUpdates /\ Free(s, "no_key_update")
      /\ row' = row /\ versioned' = versioned /\ careless' = careless /\ bulked' = TRUE
  BY <1>2 DEF BulkUpdate
<1>4. PICK r : r = [seen EXCEPT !.value = seen.value + 1, !.count = seen.count + 1]
  OBVIOUS
<1>5. /\ r \in RowType /\ r.there = seen.there /\ r.version = seen.version
      /\ r.deleted = seen.deleted /\ r.value = seen.value + 1 /\ r.count = seen.count + 1
  <2>1. PICK v \in Nat : v = seen.value + 1
    BY <1>2 DEF RowType
  <2>2. PICK n \in Nat : n = seen.count + 1
    BY <1>2 DEF RowType
  <2>3. r = [seen EXCEPT !.value = v, !.count = n]
    BY <1>4, <2>1, <2>2
  <2>4. /\ r \in RowType /\ r.there = seen.there /\ r.version = seen.version
        /\ r.deleted = seen.deleted /\ r.value = v /\ r.count = n
    BY <1>2, <2>1, <2>2, <2>3 DEF RowType
  <2> QED BY <2>1, <2>2, <2>4
<1>6. PICK value \in Nat :
        value = IF Held(s) /\ "value" \notin old.dirty /\ old.value < MaxUpdates
                  THEN old.value + 1 ELSE old.value
  BY <1>1 DEF EntityType
<1>7. PICK careful \in BOOLEAN : careful = (old.careful /\ "value" \notin old.dirty)
  OBVIOUS
<1>8. PICK e : e = [old EXCEPT !.value = value, !.careful = careful]
  OBVIOUS
<1>9. /\ e \in EntityType /\ e.state = old.state /\ e.value = value /\ e.dirty = old.dirty
      /\ e.version = old.version /\ e.careful = careful
  BY <1>1, <1>6, <1>7, <1>8 DEF EntityType
<1>10. PICK mode : mode = Stronger(session[s].lock, "no_key_update")
  OBVIOUS
<1>11. PICK new : new = [session[s] EXCEPT !.wrote = TRUE, !.lock = mode, !.image = r,
                                           !.entity = e]
  OBVIOUS
<1>12. session' = [session EXCEPT ![s] = new]
  <2>1. session' = [session EXCEPT ![s].wrote = TRUE, ![s].lock = mode, ![s].image = r,
                       ![s].entity.value = value, ![s].entity.careful = careful]
    BY <1>1, <1>2, <1>4, <1>6, <1>7, <1>10 DEF BulkUpdate, RepositoryOK, Types, SessionType
  <2>2. session[s] \in SessionType /\ session \in [Sessions -> SessionType]
    BY Fields DEF RepositoryOK, Types
  <2>3. PICK here : here = session[s]
    OBVIOUS
  <2>4. [here EXCEPT !.wrote = TRUE, !.lock = mode, !.image = r,
                     !.entity.value = value, !.entity.careful = careful] = new
    BY <1>1, <1>8, <1>11, <2>2, <2>3 DEF SessionType, EntityType
  <2>5. PICK h : h = [here EXCEPT !.wrote = TRUE, !.lock = mode, !.image = r]
    OBVIOUS
  <2>6. PICK f : f = [session EXCEPT ![s] = h]
    OBVIOUS
  <2>7. session' = [f EXCEPT ![s].entity.value = value, ![s].entity.careful = careful]
    BY <2>1, <2>2, <2>3, <2>5, <2>6
  <2>8. [h EXCEPT !.entity.value = value, !.entity.careful = careful] = new
    BY <2>4, <2>5
  <2> QED BY <2>2, <2>6, <2>7, <2>8
<1>13. mode \in Exclusive /\ (mode = session[s].lock \/ Free(s, mode))
  BY <1>3, <1>10, UpdateLock
<1>14. PICK undeletes \in BOOLEAN : undeletes = session[s].undeletes
  BY Fields DEF RepositoryOK
<1>15. /\ new \in SessionType /\ new.entity = e /\ new.wrote /\ new.image = r
       /\ new.lock = mode /\ new.undeletes = undeletes
  <2>1. session[s] \in SessionType /\ mode \in Modes
    BY <1>13, Fields DEF RepositoryOK, Exclusive, Modes
  <2> QED BY <1>5, <1>9, <1>11, <1>14, <2>1 DEF SessionType
<1>16. /\ old.state = "pending" => old.value = 0 /\ old.dirty = {} /\ old.version = 1
       /\ old.state = "persistent" => old.version <= seen.version
       /\ old.state = "persistent" /\ old.dirty # {} => old.version < MaxVersion
  BY <1>1, <1>2 DEF RepositoryOK, SessionOK, EntityOK
<1>17. old.state = "pending" => value = 0
  BY <1>1, <1>6, <1>16 DEF Held
<1>18. ~careless => Balanced(r)
  <2>1. ~careless => Balanced(seen)
    BY <1>2, SeenOK
  <2> QED BY <1>2, <1>5, <2>1 DEF Balanced, RowType
<1>19. ~careless /\ e.state = "persistent" /\ e.careful /\ e.version < MaxVersion
         => Tracks(e, r)
  <2> SUFFICES ASSUME ~careless, e.state = "persistent", e.careful, e.version < MaxVersion
               PROVE  Tracks(e, r)
    OBVIOUS
  <2>1. Tracks(old, seen) /\ "value" \notin old.dirty /\ Held(s)
    BY <1>1, <1>2, <1>7, <1>9 DEF RepositoryOK, SessionOK, CarefulOK, Held
  <2>2. old.value = seen.value
    BY <2>1 DEF Tracks
  <2> QED BY <1>3, <1>5, <1>6, <1>9, <2>1, <2>2 DEF Tracks
<1>20. /\ row.version <= r.version
       /\ ~undeletes /\ r.there => row.there /\ (~r.deleted => ~row.deleted)
  BY <1>2, <1>5, <1>14, SeenOK
<1>21. /\ careless' \in BOOLEAN /\ bulked' \in BOOLEAN /\ bulked'
       /\ (careless => careless') /\ (bulked => bulked')
  BY <1>3 DEF RepositoryOK, Types
<1>22. new.lock \in Exclusive /\ (new.lock = session[s].lock \/ Free(s, new.lock))
  BY <1>13, <1>15
<1>23. /\ e.state = "pending" => e.value = 0 /\ e.dirty = {} /\ e.version = 1
       /\ e.state = "persistent" => e.version <= r.version
       /\ e.state = "persistent" /\ e.dirty # {} => e.version < MaxVersion
  BY <1>5, <1>9, <1>16, <1>17
<1>24. ~careless' =>
         /\ Balanced(r)
         /\ e.state = "persistent" /\ e.careful /\ e.version < MaxVersion => Tracks(e, r)
  BY <1>3, <1>18, <1>19
<1> QED BY <1>3, <1>12, <1>15, <1>20, <1>21, <1>22, <1>23, <1>24, WriteStep

-----------------------------------------------------------------------------
(* Commit.                                                                  *)

\* A commit publishes what was written under an exclusive lock: the other sessions
\* have written nothing, and what they have loaded is of an earlier version.
LEMMA CommitOK ==
    ASSUME RepositoryOK, NEW s \in Sessions, Commit(s)
    PROVE  RepositoryOK'
<1>1. PICK old \in EntityType : old = session[s].entity
  BY Fields DEF RepositoryOK
<1>2. PICK e : e = [old EXCEPT !.careful = FALSE]
  OBVIOUS
<1>3. /\ e \in EntityType /\ e.state = old.state /\ e.value = old.value
      /\ e.dirty = old.dirty /\ e.version = old.version /\ ~e.careful
  BY <1>1, <1>2 DEF EntityType
<1>4. PICK new : new = NewSession(e)
  OBVIOUS
<1>5. new \in SessionType /\ new.entity = e /\ new.wrote = FALSE /\ new.lock = "none"
  BY <1>3, <1>4, NewSessionOK DEF NewSession, SessionType, Modes
<1>6. /\ row' = Seen(s) /\ session' = [session EXCEPT ![s] = new]
      /\ versioned' = versioned /\ careless' = careless /\ bulked' = bulked
  BY <1>1, <1>2, <1>4 DEF Commit
<1>7. /\ session' \in [Sessions -> SessionType] /\ session'[s] = new
      /\ \A q \in Sessions : q # s => session'[q] = session[q]
  BY <1>5, <1>6 DEF RepositoryOK, Types
<1>8. Seen(s) \in RowType
  BY Fields DEF RepositoryOK
<1>9. Types'
  BY <1>6, <1>7, <1>8 DEF RepositoryOK, Types
<1>10. LocksOK'
  <2> SUFFICES ASSUME NEW q \in Sessions, NEW t \in Sessions, q # t
               PROVE  ~Conflicts(session'[q].lock, session'[t].lock)
    BY DEF LocksOK
  <2>1. \A m : ~Conflicts("none", m) /\ ~Conflicts(m, "none")
    BY DEF Conflicts
  <2> QED BY <1>5, <1>7, <2>1 DEF RepositoryOK, LocksOK
<1>11. RowOK'
  BY <1>6, SeenOK DEF RowOK
<1>12. SessionOK(s)'
  <2>1. Seen(s)' = Seen(s)
    BY <1>5, <1>6, <1>7 DEF Seen
  <2>2. LockedOK(s)' /\ ImageOK(s)' /\ CarefulOK(s)'
    BY <1>3, <1>5, <1>7 DEF LockedOK, ImageOK, CarefulOK
  <2>3. EntityOK(s)'
    BY <1>1, <1>3, <1>5, <1>7, <2>1 DEF RepositoryOK, SessionOK, EntityOK
  <2>4. Tracks(old, Seen(s)) => Tracks(e, Seen(s))
    BY <1>3 DEF Tracks
  <2>5. VersionedOK(s)'
    BY <1>1, <1>3, <1>5, <1>6, <1>7, <2>1, <2>4 DEF RepositoryOK, SessionOK, VersionedOK
  <2> QED BY <2>2, <2>3, <2>5 DEF SessionOK
<1>13. ASSUME NEW q \in Sessions, q # s PROVE SessionOK(q)'
  <2>1. session'[q] = session[q] /\ SessionOK(q) /\ SessionOK(s)
    BY <1>7, <1>13 DEF RepositoryOK
  <2>2. CASE session[s].wrote
    <3>1. session[s].lock \in Exclusive
      BY <2>1, <2>2 DEF SessionOK, LockedOK
    <3>2. ~session[q].wrote /\ ~session[q].entity.careful
      BY <1>13, <2>1, <3>1, ExclusiveIsSole DEF RepositoryOK, SessionOK, LockedOK
    <3>3. Seen(q) = row /\ Seen(q)' = Seen(s) /\ Seen(s) = session[s].image
      BY <1>6, <2>1, <2>2, <3>2 DEF Seen
    <3>4. LockedOK(q)' /\ ImageOK(q)' /\ CarefulOK(q)'
      BY <2>1, <3>2 DEF LockedOK, ImageOK, CarefulOK
    <3>5. /\ row.version \in Nat /\ Seen(s).version \in Nat
          /\ session[q].entity.version \in Nat /\ row.version <= Seen(s).version
      BY <1>8, SeenOK, Fields DEF RepositoryOK, Types, RowType, EntityType
    <3>6. EntityOK(q)'
      BY <2>1, <3>3, <3>5 DEF SessionOK, EntityOK
    <3>7. versioned /\ ~bulked /\ Seen(s).there => row.version < Seen(s).version
      BY <2>1, <2>2, <3>3 DEF SessionOK, VersionedOK
    <3>8. session[q].entity.state = "persistent"
            => session[q].entity.version <= row.version
      BY <2>1, <3>3 DEF SessionOK, EntityOK
    <3>9. VersionedOK(q)'
      BY <1>6, <2>1, <3>2, <3>3, <3>5, <3>7, <3>8 DEF VersionedOK
    <3> QED BY <3>4, <3>6, <3>9 DEF SessionOK
  <2>3. CASE ~session[s].wrote
    <3>1. row' = row
      BY <1>6, <2>3 DEF Seen
    <3>2. Seen(q)' = Seen(q)
      BY <2>1, <3>1 DEF Seen
    <3>3. LockedOK(q)' /\ EntityOK(q)' /\ ImageOK(q)'
      BY <2>1, <3>1, <3>2 DEF SessionOK, LockedOK, EntityOK, ImageOK
    <3>4. VersionedOK(q)' /\ CarefulOK(q)'
      BY <1>6, <2>1, <3>1, <3>2 DEF SessionOK, VersionedOK, CarefulOK
    <3> QED BY <3>3, <3>4 DEF SessionOK
  <2> QED BY <2>2, <2>3
<1> QED BY <1>9, <1>10, <1>11, <1>12, <1>13 DEF RepositoryOK

-----------------------------------------------------------------------------
(* The theorems.                                                            *)

\* Init: no session has loaded, written or locked anything.
LEMMA InitOK == Init => RepositoryOK
<1> SUFFICES ASSUME Init PROVE RepositoryOK
  OBVIOUS
<1>1. PICK new : new = NewSession(NoEntity)
  OBVIOUS
<1>2. /\ new \in SessionType /\ new.entity = NoEntity /\ new.wrote = FALSE /\ new.lock = "none"
  BY <1>1, NewSessionOK DEF NewSession
<1>3. session = [s \in Sessions |-> new]
  BY <1>1 DEF Init
<1>4. NoEntity.state = "none" /\ ~NoEntity.careful
  BY DEF NoEntity
<1>5. Types
  BY <1>2, <1>3, NewSessionOK DEF Init, Types
<1>6. LocksOK
  BY <1>2, <1>3 DEF LocksOK, Conflicts
<1>7. RowOK
  BY DEF Init, NoRow, NewRow, RowOK, Balanced
<1>8. ASSUME NEW s \in Sessions PROVE SessionOK(s)
  BY <1>2, <1>3, <1>4 DEF SessionOK, LockedOK, EntityOK, VersionedOK, CarefulOK, ImageOK
<1> QED BY <1>5, <1>6, <1>7, <1>8 DEF RepositoryOK

\* Every operation of a repository and its session keeps the invariant.
LEMMA NextOK == RepositoryOK /\ [Next]_vars => RepositoryOK'
<1> SUFFICES ASSUME RepositoryOK, [Next]_vars PROVE RepositoryOK'
  OBVIOUS
<1>1. CASE UNCHANGED vars
  <2>1. UNCHANGED <<row, session, versioned, careless, bulked>>
    BY <1>1 DEF vars
  <2>2. Types' /\ LocksOK' /\ RowOK'
    BY <2>1 DEF RepositoryOK, Types, LocksOK, RowOK
  <2>3. ASSUME NEW s \in Sessions PROVE SessionOK(s)'
    <3>1. Seen(s)' = Seen(s) /\ SessionOK(s)
      BY <2>1 DEF Seen, RepositoryOK
    <3>2. LockedOK(s)' /\ EntityOK(s)' /\ ImageOK(s)'
      BY <2>1, <3>1 DEF SessionOK, LockedOK, EntityOK, ImageOK
    <3>3. VersionedOK(s)' /\ CarefulOK(s)'
      BY <2>1, <3>1 DEF SessionOK, VersionedOK, CarefulOK
    <3> QED BY <3>2, <3>3 DEF SessionOK
  <2> QED BY <2>2, <2>3 DEF RepositoryOK
<1>2. ASSUME NEW s \in Sessions, NEW args \in GetArguments, Get(s, args) PROVE RepositoryOK'
  BY <1>2, GetOK
<1>3. ASSUME NEW s \in Sessions, NEW include_deleted \in BOOLEAN, List(s, include_deleted)
      PROVE  RepositoryOK'
  BY <1>3, ListOK
<1>4. ASSUME NEW s \in Sessions,
             Add(s) \/ Update(s) \/ SoftDelete(s) \/ Restore(s) \/ HardDelete(s) \/ Refresh(s)
      PROVE  RepositoryOK'
  BY <1>4, AddOK, UpdateOK, SoftDeleteOK, RestoreOK, HardDeleteOK, RefreshOK
<1>5. ASSUME NEW s \in Sessions,
             FlushInsert(s) \/ FlushUpdate(s) \/ FlushDelete(s)
      PROVE  RepositoryOK'
  BY <1>5, FlushInsertOK, FlushUpdateOK, FlushDeleteOK
<1>6. ASSUME NEW s \in Sessions, BulkUpdate(s) \/ DeleteWhere(s) \/ BulkInsert(s)
      PROVE  RepositoryOK'
  BY <1>6, BulkUpdateOK, DeleteWhereOK, BulkInsertOK
<1>7. ASSUME NEW s \in Sessions, Commit(s) PROVE RepositoryOK'
  BY <1>7, CommitOK
<1>8. ASSUME NEW s \in Sessions, Rollback(s) PROVE RepositoryOK'
  BY <1>8, RolledBackOK DEF Rollback
<1>9. ASSUME NEW s \in Sessions, NEW deleted \in BOOLEAN, UpdateDeletedAt(s, deleted)
      PROVE  RepositoryOK'
  BY <1>9, UpdateDeletedAtOK
<1> QED BY <1>1, <1>2, <1>3, <1>4, <1>5, <1>6, <1>7, <1>8, <1>9 DEF Next

\* The inductive invariant: locks exclude each other, and every entity, image and row
\* is as its version and its lock say.
THEOREM RepositoryInvariant == Spec => []RepositoryOK
BY InitOK, NextOK, PTL DEF Spec

\* With OptimisticLockMixin no update of a row is lost: a flush of an entity that was
\* loaded before another session's commit matches no row.
THEOREM VersionedTheorem == Spec => []VersionedNoLostUpdate
<1>1. RepositoryOK => VersionedNoLostUpdate
  BY DEF RepositoryOK, RowOK, Balanced, VersionedNoLostUpdate
<1> QED BY <1>1, RepositoryInvariant, PTL

\* Without it no update is lost as long as each is made to an entity first loaded by a
\* get() that asks for an exclusive lock, by for_update or by a RowLock.
THEOREM LockedTheorem == Spec => []LockedNoLostUpdate
<1>1. RepositoryOK => LockedNoLostUpdate
  BY DEF RepositoryOK, RowOK, Balanced, LockedNoLostUpdate
<1> QED BY <1>1, RepositoryInvariant, PTL

\* A deleted row comes back only by the commit of a session that has restored or
\* inserted it, or emptied its deleted_at by an update() that names it: only a commit changes the row, and what it writes is what ImageOK says.
THEOREM ResurrectionTheorem == Spec => NoResurrection
<1> DEFINE Back == (~row.there \/ row.deleted) /\ row'.there /\ ~row'.deleted
           By == \E s \in Sessions : session[s].undeletes /\ row' = session[s].image
<1>1. ASSUME RepositoryOK, [Next]_vars, Back PROVE By
  <2>1. row' # row
    BY <1>1
  <2>2. PICK s \in Sessions : Commit(s)
    <3>1. \A s \in Sessions :
            /\ \A args \in GetArguments : Get(s, args) => row' = row
            /\ \A include_deleted \in BOOLEAN : List(s, include_deleted) => row' = row
            /\ \A deleted \in BOOLEAN : UpdateDeletedAt(s, deleted) => row' = row
      BY DEF Get, List, UpdateDeletedAt
    <3>2. \A s \in Sessions : Add(s) \/ Update(s) \/ SoftDelete(s) \/ Restore(s) => row' = row
      BY DEF Add, Update, SoftDelete, Restore
    <3>3. \A s \in Sessions : HardDelete(s) \/ Refresh(s) \/ Rollback(s) => row' = row
      BY DEF HardDelete, Refresh, Rollback
    <3>4. \A s \in Sessions : FlushInsert(s) \/ FlushDelete(s) \/ FlushUpdate(s) => row' = row
      BY DEF FlushInsert, FlushDelete, FlushUpdate
    <3>5. \A s \in Sessions : BulkUpdate(s) \/ DeleteWhere(s) \/ BulkInsert(s) => row' = row
      BY DEF BulkUpdate, DeleteWhere, BulkInsert
    <3>6. Next
      BY <1>1, <2>1 DEF vars
    <3> QED BY <2>1, <3>1, <3>2, <3>3, <3>4, <3>5, <3>6 DEF Next
  <2>3. row' = session[s].image /\ session[s].wrote
    BY <2>1, <2>2 DEF Commit, Seen
  <2>4. ImageOK(s)
    BY <1>1 DEF RepositoryOK, SessionOK
  <2> QED BY <1>1, <2>3, <2>4 DEF ImageOK
<1>2. RepositoryOK /\ [Next]_vars => [Back => By]_vars
  BY <1>1
<1> QED BY <1>2, RepositoryInvariant, PTL DEF Spec, NoResurrection
=============================================================================
