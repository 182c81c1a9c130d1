---------------------------- MODULE OutboxProofs ----------------------------
(***************************************************************************)
(* Safety of the outbox for any number of events and workers, any clock    *)
(* skew and any batch size, staleness and retry parameters.                *)
(***************************************************************************)
EXTENDS Outbox, TLAPS

(***************************************************************************)
(* The inductive invariant.                                                *)
(***************************************************************************)

\* A row of an event under an open claim is still open, is locked by that
\* claim alone, and the image is the next version of it under a token nobody
\* else has.
ImageFollowsRow ==
    \A w \in Workers : \A e \in Events : txn[w][e] # None =>
        /\ rows[e].status \in {"pending", "processing"}
        /\ txn[w][e].status = "processing"
        /\ txn[w][e].locked_by = w
        /\ txn[w][e].lock_token \in Token
        /\ txn[w][e].lock_token[1] < nextClaim
        /\ txn[w][e].version = rows[e].version + 1
        /\ rows[e].lock_token # txn[w][e].lock_token

\* The token of an open claim is in no worker's hands yet.
ImageTokenIsNew ==
    \A w \in Workers : \A e \in Events : txn[w][e] # None =>
        \A v \in Workers : \A l \in held[v] :
            l.event = e => l.token # txn[w][e].lock_token

\* SKIP LOCKED: no row is in two open claims.
OneClaimPerRow ==
    \A w, v \in Workers : \A e \in Events :
        txn[w][e] # None /\ txn[v][e] # None => w = v

\* Tokens in use come from claims already started.
TokensAreOld ==
    /\ \A e \in Events : rows[e].lock_token # None => rows[e].lock_token[1] < nextClaim
    /\ \A w \in Workers : \A l \in held[w] : l.token[1] < nextClaim

\* No lease is ahead of its row, and there is none on a row not inserted yet.
LeaseNotAhead ==
    \A w \in Workers : \A l \in held[w] :
        l.version <= rows[l.event].version /\ rows[l.event].status # "absent"

\* A row not inserted yet has no version.
AbsentIsNew == \A e \in Events : rows[e].status = "absent" => rows[e].version = 0

\* The inductive invariant.
IInv ==
    /\ TypeOK
    /\ TokenIffProcessing
    /\ AbsentIsNew
    /\ VersionAgreesWithLease
    /\ ImageFollowsRow
    /\ ImageTokenIsNew
    /\ OneClaimPerRow
    /\ TokensAreOld
    /\ LeaseNotAhead

-----------------------------------------------------------------------------
(* The rows the statements write.                                           *)

\* Writing one column keeps a row a row.  The provers handle one EXCEPT at a
\* time, so the row functions are taken apart into these steps.
LEMMA ColumnType ==
    ASSUME NEW row \in Row
    PROVE  /\ \A v \in Status : [row EXCEPT !.status = v] \in Row
           /\ \A v \in Nat : [row EXCEPT !.attempts = v] \in Row
           /\ \A v \in Int : [row EXCEPT !.available_at = v] \in Row
           /\ \A v \in Int \cup {None} : [row EXCEPT !.locked_at = v] \in Row
           /\ \A v \in Workers \cup {None} : [row EXCEPT !.locked_by = v] \in Row
           /\ \A v \in Token \cup {None} : [row EXCEPT !.lock_token = v] \in Row
           /\ \A v \in Nat : [row EXCEPT !.version = v] \in Row
           /\ row.attempts \in Nat /\ row.version \in Nat
           /\ [row EXCEPT !.attempts = @ + 1] \in Row
           /\ [row EXCEPT !.version = @ + 1] \in Row
BY DEF Row

\* What the claim loop writes on a row is a row, in processing under the new
\* token, one version up.
LEMMA ClaimedRowType ==
    ASSUME NEW row \in Row, NEW w \in Workers, NEW now \in Int, NEW t \in Token
    PROVE  /\ ClaimedRow(row, w, now, t) \in Row
           /\ ClaimedRow(row, w, now, t).status = "processing"
           /\ ClaimedRow(row, w, now, t).locked_by = w
           /\ ClaimedRow(row, w, now, t).lock_token = t
           /\ ClaimedRow(row, w, now, t).version = row.version + 1
<1> DEFINE r1 == [row EXCEPT !.status = "processing"]
           r2 == [r1 EXCEPT !.locked_at = now]
           r3 == [r2 EXCEPT !.locked_by = w]
           r4 == [r3 EXCEPT !.lock_token = t]
           r5 == [r4 EXCEPT !.attempts = @ + 1]
           r6 == [r5 EXCEPT !.version = @ + 1]
<1>1. r6 = ClaimedRow(row, w, now, t)
  BY DEF ClaimedRow, Row
<1>2. r1 \in Row
  BY ColumnType DEF Status
<1> HIDE DEF r1
<1>3. r2 \in Row
  BY <1>2, ColumnType
<1> HIDE DEF r2
<1>4. r3 \in Row
  BY <1>3, ColumnType
<1> HIDE DEF r3
<1>5. r4 \in Row
  BY <1>4, ColumnType
<1> HIDE DEF r4
<1>6. r5 \in Row
  BY <1>5, ColumnType
<1> HIDE DEF r5
<1>7. r6 \in Row
  BY <1>6, ColumnType
<1>8. /\ ClaimedRow(row, w, now, t).status = "processing"
      /\ ClaimedRow(row, w, now, t).locked_by = w
      /\ ClaimedRow(row, w, now, t).lock_token = t
      /\ ClaimedRow(row, w, now, t).version = row.version + 1
  BY DEF ClaimedRow, Row
<1> QED BY <1>1, <1>7, <1>8

\* A released row is a row without lease, one version up.
LEMMA ReleasedType ==
    ASSUME NEW row \in Row
    PROVE  /\ Released(row) \in Row
           /\ Released(row).lock_token = None
           /\ Released(row).version = row.version + 1
<1> DEFINE r1 == [row EXCEPT !.locked_at = None]
           r2 == [r1 EXCEPT !.locked_by = None]
           r3 == [r2 EXCEPT !.lock_token = None]
           r4 == [r3 EXCEPT !.version = @ + 1]
<1>1. r4 = Released(row)
  BY DEF Released, Row
<1>2. r1 \in Row
  BY ColumnType
<1> HIDE DEF r1
<1>3. r2 \in Row
  BY <1>2, ColumnType
<1> HIDE DEF r2
<1>4. r3 \in Row
  BY <1>3, ColumnType
<1> HIDE DEF r3
<1>5. r4 \in Row
  BY <1>4, ColumnType
<1>6. /\ Released(row).lock_token = None
      /\ Released(row).version = row.version + 1
  BY DEF Released, Row
<1> QED BY <1>1, <1>5, <1>6

\* mark_outbox_published leaves a row without lease, one version up.
LEMMA PublishedRowType ==
    ASSUME NEW row \in Row
    PROVE  /\ PublishedRow(row) \in Row
           /\ PublishedRow(row).status = "published"
           /\ PublishedRow(row).lock_token = None
           /\ PublishedRow(row).version = row.version + 1
<1>1. Released(row) \in Row
  BY ReleasedType
<1>2. PublishedRow(row) \in Row
  BY <1>1, ColumnType DEF PublishedRow, Status
<1> HIDE DEF Released
<1>3. /\ PublishedRow(row).status = "published"
      /\ PublishedRow(row).lock_token = Released(row).lock_token
      /\ PublishedRow(row).version = Released(row).version
  BY <1>1 DEF PublishedRow, Row
<1> QED BY <1>2, <1>3, ReleasedType

\* mark_outbox_failed leaves a row without lease, one version up, in pending
\* or dead.
LEMMA FailedRowType ==
    ASSUME NEW row \in Row, NEW now \in Int
    PROVE  /\ FailedRow(row, now) \in Row
           /\ FailedRow(row, now).status \in {"pending", "dead"}
           /\ FailedRow(row, now).lock_token = None
           /\ FailedRow(row, now).version = row.version + 1
<1> DEFINE delay == RetryDelay(row.attempts)
<1>1. delay \in Nat
  BY ConstantsAssumption DEF RetryDelay
<1> HIDE DEF delay
<1>2. Released(row) \in Row
  BY ReleasedType
<1>3. CASE row.attempts >= MaxAttempts
  <2>1. FailedRow(row, now) = [Released(row) EXCEPT !.status = "dead"]
    BY <1>3 DEF FailedRow
  <2>2. FailedRow(row, now) \in Row
    BY <1>2, <2>1, ColumnType DEF Status
  <2>3. /\ FailedRow(row, now).status = "dead"
        /\ FailedRow(row, now).lock_token = Released(row).lock_token
        /\ FailedRow(row, now).version = Released(row).version
    BY <1>2, <2>1 DEF Row
  <2> QED BY <2>2, <2>3, ReleasedType
<1>4. CASE ~(row.attempts >= MaxAttempts)
  <2> DEFINE p == [Released(row) EXCEPT !.status = "pending"]
  <2>1. FailedRow(row, now) = [p EXCEPT !.available_at = now + delay]
    <3>1. FailedRow(row, now) = [Released(row) EXCEPT !.status = "pending",
                                                      !.available_at = now + delay]
      BY <1>4 DEF FailedRow, delay
    <3> QED BY <1>2, <3>1 DEF Row
  <2>2. p \in Row
    BY <1>2, ColumnType DEF Status
  <2>2a. now + delay \in Int
    BY <1>1
  <2>3. FailedRow(row, now) \in Row
    <3> HIDE DEF p
    <3> QED BY <2>1, <2>2, <2>2a, ColumnType
  <2>4. /\ FailedRow(row, now).status = "pending"
        /\ FailedRow(row, now).lock_token = Released(row).lock_token
        /\ FailedRow(row, now).version = Released(row).version
    BY <1>2, <2>1 DEF Row
  <2> QED BY <2>3, <2>4, ReleasedType
<1> QED BY <1>3, <1>4

-----------------------------------------------------------------------------
(* The initial states satisfy the invariant.                                *)

\* An empty table and idle workers satisfy the invariant.
LEMMA InitIInv == Init => IInv
<1> SUFFICES ASSUME Init PROVE IInv
  OBVIOUS
<1>1. AbsentRow \in Row
  BY DEF AbsentRow, Row, Status
<1>2. TypeOK
  BY <1>1 DEF Init, TypeOK, NoTxn
<1>3. TokenIffProcessing /\ AbsentIsNew
  BY DEF Init, TokenIffProcessing, AbsentIsNew, AbsentRow
<1>4. VersionAgreesWithLease /\ ImageTokenIsNew /\ LeaseNotAhead
  BY DEF Init, VersionAgreesWithLease, ImageTokenIsNew, LeaseNotAhead, NoTxn
<1>5. ImageFollowsRow /\ OneClaimPerRow
  BY DEF Init, ImageFollowsRow, OneClaimPerRow, NoTxn
<1>6. TokensAreOld
  BY DEF Init, TokensAreOld, AbsentRow
<1> QED BY <1>2, <1>3, <1>4, <1>5, <1>6 DEF IInv

-----------------------------------------------------------------------------
(* Each action preserves the invariant.                                     *)

\* enqueue_outbox_event preserves the invariant.
LEMMA EnqueueIInv ==
    ASSUME IInv, NEW e \in Events, NEW delay \in Delays, Enqueue(e, delay)
    PROVE  IInv'
<1> DEFINE new == NewRow(clock, clock + delay)
<1>1. new \in Row /\ new.status = "pending" /\ new.lock_token = None
  <2>1. clock \in Nat /\ clock + delay \in Int
    BY ConstantsAssumption DEF IInv, TypeOK
  <2> QED BY <2>1 DEF NewRow, Row, Status
<1>2. rows' = [rows EXCEPT ![e] = new] /\ rows[e].status = "absent"
  BY DEF Enqueue
<1>3. UNCHANGED <<txn, held, clock, nextClaim, faults>>
  BY DEF Enqueue
<1> HIDE DEF new
<1>4. TypeOK'
  BY <1>1, <1>2, <1>3 DEF IInv, TypeOK
<1>5. TokenIffProcessing' /\ AbsentIsNew'
  BY <1>1, <1>2 DEF IInv, TypeOK, TokenIffProcessing, AbsentIsNew
<1>6. VersionAgreesWithLease' /\ LeaseNotAhead'
  \* no lease names e
  BY <1>2, <1>3 DEF IInv, TypeOK, VersionAgreesWithLease, LeaseNotAhead, Lease,
                    Current, Owns
<1>7. ImageFollowsRow'
  BY <1>2, <1>3 DEF IInv, TypeOK, ImageFollowsRow
<1>8. ImageTokenIsNew' /\ OneClaimPerRow'
  BY <1>3 DEF IInv, ImageTokenIsNew, OneClaimPerRow
<1>9. TokensAreOld'
  BY <1>1, <1>2, <1>3 DEF IInv, TypeOK, TokensAreOld
<1> QED BY <1>4, <1>5, <1>6, <1>7, <1>8, <1>9 DEF IInv

\* The locking half of claim_outbox_events preserves the invariant.
LEMMA ClaimSelectIInv ==
    ASSUME IInv, NEW w \in Workers, ClaimSelect(w)
    PROVE  IInv'
<1> DEFINE Image(f) == ClaimedRow(rows[f], w, Now(w), <<nextClaim, f>>)
<1>1. PICK S \in Batches(Now(w)) :
         txn' = [txn EXCEPT ![w] = [f \in Events |-> IF f \in S THEN Image(f) ELSE None]]
  BY DEF ClaimSelect
<1>2. nextClaim' = nextClaim + 1 /\ UNCHANGED <<rows, held, clock, faults>>
  BY DEF ClaimSelect
<1>3. \A f \in S : f \in Events /\ ~Locked(f) /\ rows[f].status \in {"pending", "processing"}
  BY DEF Batches, Candidates, Claimable
<1>4. Now(w) \in Int /\ nextClaim \in Nat /\ \A f \in Events : <<nextClaim, f>> \in Token
  BY SkewAssumption DEF IInv, TypeOK, Now, Token
<1>5. \A f \in Events :
         /\ Image(f) \in Row
         /\ Image(f).status = "processing"
         /\ Image(f).locked_by = w
         /\ Image(f).lock_token = <<nextClaim, f>>
         /\ Image(f).version = rows[f].version + 1
  <2> TAKE f \in Events
  <2>1. rows[f] \in Row
    BY DEF IInv, TypeOK
  <2> QED BY <1>4, <2>1, ClaimedRowType
<1> HIDE DEF Image
<1>6. \A v \in Workers, f \in Events :
         txn'[v][f] = IF v = w THEN (IF f \in S THEN Image(f) ELSE None) ELSE txn[v][f]
  BY <1>1 DEF IInv, TypeOK
<1>7. TypeOK'
  BY <1>1, <1>2, <1>4, <1>5 DEF IInv, TypeOK
<1>8. TokenIffProcessing' /\ AbsentIsNew' /\ VersionAgreesWithLease' /\ LeaseNotAhead'
  BY <1>2 DEF IInv, TokenIffProcessing, AbsentIsNew, VersionAgreesWithLease, LeaseNotAhead
<1>9. TokensAreOld'
  BY <1>2, <1>4 DEF IInv, TypeOK, TokensAreOld, Row, Lease, Token
<1>10. ImageFollowsRow'
  <2> SUFFICES ASSUME NEW v \in Workers, NEW f \in Events, txn'[v][f] # None
               PROVE  /\ rows[f].status \in {"pending", "processing"}
                      /\ txn'[v][f].status = "processing"
                      /\ txn'[v][f].locked_by = v
                      /\ txn'[v][f].lock_token \in Token
                      /\ txn'[v][f].lock_token[1] < nextClaim + 1
                      /\ txn'[v][f].version = rows[f].version + 1
                      /\ rows[f].lock_token # txn'[v][f].lock_token
    BY <1>2 DEF ImageFollowsRow
  <2>1. CASE v = w
    <3>1. f \in S /\ txn'[v][f] = Image(f)
      BY <1>6, <2>1
    <3>2. rows[f].lock_token # <<nextClaim, f>>
      <4>1. <<nextClaim, f>> # None /\ ~(<<nextClaim, f>>[1] < nextClaim)
        BY <1>4, NoneAssumption
      <4> QED BY <4>1 DEF IInv, TokensAreOld
    <3>3. <<nextClaim, f>>[1] < nextClaim + 1
      BY <1>4
    <3> QED BY <1>3, <1>4, <1>5, <2>1, <3>1, <3>2, <3>3
  <2>2. CASE v # w
    <3>1. txn'[v][f] = txn[v][f]
      BY <1>6, <2>2
    <3>2. /\ txn[v][f].lock_token \in Token
          /\ txn[v][f].lock_token[1] < nextClaim
      BY <3>1 DEF IInv, ImageFollowsRow
    <3>3. txn[v][f].lock_token[1] < nextClaim + 1
      BY <1>4, <3>2 DEF Token
    <3> QED BY <3>1, <3>2, <3>3 DEF IInv, ImageFollowsRow
  <2> QED BY <2>1, <2>2
<1>11. ImageTokenIsNew'
  <2> SUFFICES ASSUME NEW v \in Workers, NEW f \in Events, txn'[v][f] # None,
                      NEW u \in Workers, NEW l \in held[u], l.event = f
               PROVE  l.token # txn'[v][f].lock_token
    BY <1>2 DEF ImageTokenIsNew
  <2>1. CASE v = w
    <3>1. txn'[v][f].lock_token = <<nextClaim, f>>
      BY <1>5, <1>6, <2>1
    <3>2. l.token[1] < nextClaim
      BY DEF IInv, TokensAreOld
    <3> QED BY <1>4, <3>1, <3>2
  <2>2. CASE v # w
    BY <1>6, <2>2 DEF IInv, ImageTokenIsNew
  <2> QED BY <2>1, <2>2
<1>12. OneClaimPerRow'
  BY <1>3, <1>6 DEF IInv, OneClaimPerRow, Locked
<1> QED BY <1>7, <1>8, <1>9, <1>10, <1>11, <1>12 DEF IInv

\* The commit of a claim preserves the invariant.
LEMMA ClaimCommitIInv ==
    ASSUME IInv, NEW w \in Workers, ClaimCommit(w)
    PROVE  IInv'
<1> DEFINE Taken == {f \in Events : txn[w][f] # None}
           LeaseOf(f) == [event |-> f, token |-> txn[w][f].lock_token,
                          version |-> txn[w][f].version]
<1>1. /\ rows' = [f \in Events |-> IF txn[w][f] # None THEN txn[w][f] ELSE rows[f]]
      /\ held' = [held EXCEPT ![w] = @ \cup {LeaseOf(f) : f \in Taken}]
      /\ txn' = [txn EXCEPT ![w] = NoTxn]
      /\ UNCHANGED <<clock, nextClaim, faults>>
  BY DEF ClaimCommit
<1>2. \A f \in Taken :
         /\ f \in Events
         /\ rows'[f] = txn[w][f]
         /\ rows'[f] \in Row
         /\ rows'[f].status = "processing"
         /\ rows'[f].lock_token \in Token
         /\ rows'[f].lock_token # None
         /\ rows'[f].lock_token[1] < nextClaim
         /\ rows'[f].version = rows[f].version + 1
  BY <1>1, NoneAssumption DEF IInv, TypeOK, ImageFollowsRow
<1>3. \A f \in Events \ Taken : rows'[f] = rows[f]
  BY <1>1
<1>4. \A f \in Taken : /\ LeaseOf(f) \in Lease
                       /\ LeaseOf(f).event = f
                       /\ LeaseOf(f).token = rows'[f].lock_token
                       /\ LeaseOf(f).version = rows'[f].version
  <2> TAKE f \in Taken
  <2>1. rows'[f].version \in Nat
    BY <1>2 DEF Row
  <2> QED BY <1>2, <2>1 DEF Lease
<1>5. \A v \in Workers : \A l \in held'[v] :
         l \in held[v] \/ \E f \in Taken : l = LeaseOf(f)
  BY <1>1 DEF IInv, TypeOK
<1>6. \A v \in Workers, f \in Events :
         txn'[v][f] = IF v = w THEN None ELSE txn[v][f]
  BY <1>1 DEF IInv, TypeOK, NoTxn
\* An image of another worker is never of a row this claim writes.
<1>7. \A v \in Workers, f \in Events :
         txn'[v][f] # None => f \notin Taken /\ v # w /\ txn'[v][f] = txn[v][f]
  BY <1>6 DEF IInv, OneClaimPerRow
<1>8. nextClaim \in Nat /\ \A f \in Events : rows[f] \in Row /\ rows[f].version \in Nat
  BY DEF IInv, TypeOK, Row
<1>9. \A v \in Workers : \A l \in held[v] :
         l \in Lease /\ l.event \in Events /\ l.version \in Nat /\ l.token \in Token
  BY DEF IInv, TypeOK, Lease
<1>10. TypeOK'
  <2>1. rows' \in [Events -> Row]
    BY <1>1, <1>2, <1>8
  <2>2. {LeaseOf(f) : f \in Taken} \subseteq Lease
    BY <1>4
  <2>3. held' \in [Workers -> SUBSET Lease]
    <3> HIDE DEF LeaseOf, Taken
    <3> QED BY <1>1, <2>2 DEF IInv, TypeOK
  <2>4. txn' \in [Workers -> [Events -> Row \cup {None}]]
    BY <1>1 DEF IInv, TypeOK, NoTxn
  <2> QED BY <1>1, <2>1, <2>3, <2>4 DEF IInv, TypeOK
<1> HIDE DEF LeaseOf, Taken
<1>11. TokenIffProcessing' /\ AbsentIsNew'
  BY <1>2, <1>3 DEF IInv, TokenIffProcessing, AbsentIsNew
<1>12. VersionAgreesWithLease' /\ LeaseNotAhead'
  <2> SUFFICES ASSUME NEW v \in Workers, NEW l \in held'[v]
               PROVE  /\ Current(rows'[l.event], l) <=> Owns(rows'[l.event], l)
                      /\ l.version <= rows'[l.event].version
                      /\ rows'[l.event].status # "absent"
    BY DEF VersionAgreesWithLease, LeaseNotAhead, Current, Owns
  <2>1. CASE l \in held[v] /\ l.event \in Taken
    \* a lease outdated by this claim fails both checks
    <3>1. l.version <= rows[l.event].version
      BY <2>1 DEF IInv, LeaseNotAhead
    <3>2. l.version # rows'[l.event].version /\ l.version <= rows'[l.event].version
      BY <1>2, <1>8, <1>9, <2>1, <3>1
    <3>3. l.token # rows'[l.event].lock_token
      BY <1>2, <2>1 DEF IInv, ImageTokenIsNew, Taken
    <3> QED BY <1>2, <2>1, <3>2, <3>3 DEF Current, Owns
  <2>2. CASE l \in held[v] /\ l.event \notin Taken
    <3>1. rows'[l.event] = rows[l.event]
      BY <1>3, <1>9, <2>2
    <3> QED BY <2>2, <3>1 DEF IInv, VersionAgreesWithLease, LeaseNotAhead
  <2>3. CASE \E f \in Taken : l = LeaseOf(f)
    <3>1. PICK f \in Taken : l = LeaseOf(f)
      BY <2>3
    <3>2. rows'[f].version \in Nat
      BY <1>2 DEF Row
    <3> QED BY <1>2, <1>4, <3>1, <3>2 DEF Current, Owns
  <2> QED BY <1>5, <2>1, <2>2, <2>3
<1>13. ImageFollowsRow'
  BY <1>1, <1>3, <1>7 DEF IInv, ImageFollowsRow
<1>14. ImageTokenIsNew'
  <2> SUFFICES ASSUME NEW v \in Workers, NEW f \in Events, txn'[v][f] # None,
                      NEW u \in Workers, NEW l \in held'[u], l.event = f
               PROVE  l.token # txn'[v][f].lock_token
    BY DEF ImageTokenIsNew
  <2>1. f \notin Taken /\ txn[v][f] # None /\ txn'[v][f] = txn[v][f]
    BY <1>7
  <2>2. l \in held[u]
    BY <1>4, <1>5, <2>1
  <2> QED BY <2>1, <2>2 DEF IInv, ImageTokenIsNew
<1>15. OneClaimPerRow'
  BY <1>7 DEF IInv, OneClaimPerRow
<1>16. TokensAreOld'
  <2>1. \A f \in Events : rows'[f].lock_token # None => rows'[f].lock_token[1] < nextClaim
    BY <1>2, <1>3 DEF IInv, TokensAreOld
  <2>2. \A v \in Workers : \A l \in held'[v] : l.token[1] < nextClaim
    BY <1>2, <1>4, <1>5 DEF IInv, TokensAreOld
  <2> QED BY <1>1, <2>1, <2>2 DEF TokensAreOld
<1> QED BY <1>10, <1>11, <1>12, <1>13, <1>14, <1>15, <1>16 DEF IInv

\* Giving up claims and leases (rollback, crash) and passing time.
LEMMA DropIInv ==
    ASSUME IInv, rows' = rows, nextClaim' = nextClaim,
           clock' \in Nat, faults' \in Nat,
           NEW w \in Workers,
           txn' \in {txn, [txn EXCEPT ![w] = NoTxn]},
           held' \in {held, [held EXCEPT ![w] = {}]}
    PROVE  IInv'
<1>1. \A v \in Workers, f \in Events : txn'[v][f] # None => txn'[v][f] = txn[v][f]
  BY DEF IInv, TypeOK, NoTxn
<1>2. \A v \in Workers : held'[v] \subseteq held[v]
  BY DEF IInv, TypeOK
<1>3. TypeOK'
  BY DEF IInv, TypeOK, NoTxn
<1>4. VersionAgreesWithLease' /\ LeaseNotAhead' /\ TokensAreOld'
  BY <1>2 DEF IInv, VersionAgreesWithLease, LeaseNotAhead, TokensAreOld
<1>4a. TokenIffProcessing' /\ AbsentIsNew'
  BY DEF IInv, TokenIffProcessing, AbsentIsNew
<1>5. ImageFollowsRow' /\ OneClaimPerRow'
  BY <1>1 DEF IInv, ImageFollowsRow, OneClaimPerRow
<1>6. ImageTokenIsNew'
  BY <1>1, <1>2 DEF IInv, ImageTokenIsNew
<1> QED BY <1>3, <1>4, <1>4a, <1>5, <1>6 DEF IInv

\* What a settling call may do: only the current holder writes, and it writes
\* a released row.
LEMMA SettleIInv ==
    ASSUME IInv, NEW w \in Workers, NEW l \in held[w],
           NEW matches, NEW row, NEW answered,
           Settle(w, l, matches, row, answered),
           matches => Owns(rows[l.event], l),
           row \in Row, row.status \in {"pending", "published", "dead"},
           row.lock_token = None, row.version = rows[l.event].version + 1
    PROVE  IInv'
<1>1. l \in Lease /\ l.event \in Events /\ rows[l.event] \in Row
  BY DEF IInv, TypeOK, Lease
<1>2. UNCHANGED <<txn, clock, nextClaim, faults>> /\ ~Locked(l.event)
  BY DEF Settle
<1>3. \A v \in Workers : held'[v] \subseteq held[v]
  BY DEF Settle, IInv, TypeOK
<1>4. held' \in [Workers -> SUBSET Lease]
  BY DEF Settle, IInv, TypeOK
<1>5. CASE ~matches
  <2>1. rows' = rows
    BY <1>5 DEF Settle
  <2>2. TypeOK'
    BY <1>2, <1>4, <2>1 DEF IInv, TypeOK
  <2>3. /\ TokenIffProcessing' /\ AbsentIsNew'
        /\ VersionAgreesWithLease' /\ LeaseNotAhead' /\ TokensAreOld'
    BY <1>2, <1>3, <2>1 DEF IInv, TokenIffProcessing, AbsentIsNew,
                            VersionAgreesWithLease, LeaseNotAhead, TokensAreOld
  <2>4. ImageFollowsRow' /\ OneClaimPerRow' /\ ImageTokenIsNew'
    BY <1>2, <1>3, <2>1 DEF IInv, ImageFollowsRow, OneClaimPerRow, ImageTokenIsNew
  <2> QED BY <2>2, <2>3, <2>4 DEF IInv
<1>6. CASE matches
  <2>1. rows' = [rows EXCEPT ![l.event] = row]
    BY <1>6 DEF Settle
  <2>2. TypeOK'
    BY <1>1, <1>2, <1>4, <2>1 DEF IInv, TypeOK
  <2>3. TokenIffProcessing' /\ AbsentIsNew'
    BY <1>1, <2>1 DEF IInv, TypeOK, TokenIffProcessing, AbsentIsNew
  <2>4. VersionAgreesWithLease' /\ LeaseNotAhead'
    <3> SUFFICES ASSUME NEW v \in Workers, NEW k \in held[v]
                 PROVE  /\ Current(rows'[k.event], k) <=> Owns(rows'[k.event], k)
                        /\ k.version <= rows'[k.event].version
                        /\ rows'[k.event].status # "absent"
      BY <1>3 DEF VersionAgreesWithLease, LeaseNotAhead, Current, Owns
    <3>1. /\ k \in Lease /\ k.event \in Events /\ k.version \in Nat
          /\ k.version <= rows[k.event].version /\ rows[k.event].status # "absent"
      BY DEF IInv, TypeOK, LeaseNotAhead, Lease
    <3>2. CASE k.event = l.event
      <4>1. rows'[k.event] = row /\ rows[k.event].version \in Nat
        BY <1>1, <2>1, <3>2 DEF IInv, TypeOK, Row
      <4>2. row.version # k.version /\ k.version <= row.version
        BY <3>1, <3>2, <4>1
      <4> QED BY <4>1, <4>2 DEF Current, Owns
    <3>3. CASE k.event # l.event
      <4>1. rows'[k.event] = rows[k.event]
        BY <2>1, <3>1, <3>3 DEF IInv, TypeOK
      <4> QED BY <3>1, <4>1 DEF IInv, VersionAgreesWithLease
    <3> QED BY <3>2, <3>3
  <2>5. ImageFollowsRow'
    \* the row is not locked, so no image is of it
    BY <1>2, <2>1 DEF IInv, TypeOK, ImageFollowsRow, Locked
  <2>6. OneClaimPerRow' /\ ImageTokenIsNew'
    BY <1>2, <1>3 DEF IInv, OneClaimPerRow, ImageTokenIsNew
  <2>7. TokensAreOld'
    BY <1>1, <1>2, <1>3, <2>1 DEF IInv, TypeOK, TokensAreOld
  <2> QED BY <2>2, <2>3, <2>4, <2>5, <2>6, <2>7 DEF IInv
<1> QED BY <1>5, <1>6

\* The four settling calls preserve the invariant.
LEMMA SettleStepIInv ==
    ASSUME IInv, NEW w \in Workers, NEW l \in held[w], SettleStep(w, l)
    PROVE  IInv'
<1>1. l.event \in Events /\ rows[l.event] \in Row /\ Now(w) \in Int
  BY SkewAssumption DEF IInv, TypeOK, Lease, Now
<1>2. Current(rows[l.event], l) <=> Owns(rows[l.event], l)
  BY DEF IInv, VersionAgreesWithLease
<1> DEFINE p == PublishedRow(rows[l.event])
           f == FailedRow(rows[l.event], Now(w))
<1>3. /\ p \in Row /\ p.status \in {"pending", "published", "dead"}
      /\ p.lock_token = None /\ p.version = rows[l.event].version + 1
  BY <1>1, PublishedRowType
<1>4. /\ f \in Row /\ f.status \in {"pending", "published", "dead"}
      /\ f.lock_token = None /\ f.version = rows[l.event].version + 1
  BY <1>1, FailedRowType
<1>5. PICK matches, answered :
         /\ matches => Owns(rows[l.event], l)
         /\ \/ Settle(w, l, matches, p, answered)
            \/ Settle(w, l, matches, f, answered)
  BY <1>2 DEF SettleStep, Complete, Fail, MarkPublished, MarkFailed
<1> HIDE DEF p, f
<1>6. CASE Settle(w, l, matches, p, answered)
  BY <1>3, <1>5, <1>6, SettleIInv
<1>7. CASE Settle(w, l, matches, f, answered)
  BY <1>4, <1>5, <1>7, SettleIInv
<1> QED BY <1>5, <1>6, <1>7

\* Every step of the outbox preserves the invariant.
LEMMA NextIInv == IInv /\ [Next]_vars => IInv'
<1> SUFFICES ASSUME IInv, [Next]_vars PROVE IInv'
  OBVIOUS
<1>1. clock \in Nat /\ faults \in Nat /\ clock + 1 \in Nat /\ faults + 1 \in Nat
  BY DEF IInv, TypeOK
<1>2. CASE \E e \in Events, delay \in Delays : Enqueue(e, delay)
  BY <1>2, EnqueueIInv
<1>3. ASSUME NEW w \in Workers, WorkerStep(w) PROVE IInv'
  <2>1. CASE ClaimSelect(w)
    BY <2>1, ClaimSelectIInv
  <2>2. CASE ClaimCommit(w)
    BY <2>2, ClaimCommitIInv
  <2>3. CASE ClaimRollback(w)
    BY <1>1, <2>3, DropIInv DEF ClaimRollback
  <2>5. CASE \E l \in held[w] : SettleStep(w, l)
    BY <2>5, SettleStepIInv
  <2>6. CASE Crash(w)
    BY <1>1, <2>6, DropIInv DEF Crash
  <2> QED BY <1>3, <2>1, <2>2, <2>3, <2>5, <2>6 DEF WorkerStep
<1>4. CASE Tick \/ UNCHANGED vars
  <2>1. /\ UNCHANGED <<rows, txn, held, nextClaim, faults>>
        /\ clock' \in Nat
    BY <1>1, <1>4 DEF Tick, vars
  <2>2. TypeOK'
    BY <2>1 DEF IInv, TypeOK
  <2>3. /\ TokenIffProcessing' /\ AbsentIsNew'
        /\ VersionAgreesWithLease' /\ LeaseNotAhead' /\ TokensAreOld'
    BY <2>1 DEF IInv, TokenIffProcessing, AbsentIsNew,
                VersionAgreesWithLease, LeaseNotAhead, TokensAreOld
  <2>4. ImageFollowsRow' /\ OneClaimPerRow' /\ ImageTokenIsNew'
    BY <2>1 DEF IInv, ImageFollowsRow, OneClaimPerRow, ImageTokenIsNew
  <2> QED BY <2>2, <2>3, <2>4 DEF IInv
<1> QED BY <1>2, <1>3, <1>4 DEF Next

\* The inductive invariant holds in every reachable state.
THEOREM Inductive == Spec => []IInv
BY InitIInv, NextIInv, PTL DEF Spec

\* Type correctness of the outbox state.
THEOREM TypeCorrect == Spec => []TypeOK
<1>1. IInv => TypeOK
  BY DEF IInv
<1> QED BY <1>1, Inductive, PTL

\* The CHECK constraint processing_has_lock_token is never hit: claims and
\* settlements always set or clear the token together with the status.
THEOREM TokenTheorem == Spec => []TokenIffProcessing
<1>1. IInv => TokenIffProcessing
  BY DEF IInv
<1> QED BY <1>1, Inductive, PTL

\* The token check of complete/fail and the version check of an ORM flush
\* accept exactly the same leases.
THEOREM FenceTheorem == Spec => []VersionAgreesWithLease
<1>1. IInv => VersionAgreesWithLease
  BY DEF IInv
<1> QED BY <1>1, Inductive, PTL

-----------------------------------------------------------------------------
(* What a step may do to a row.                                             *)

\* Every change of a row starts from an open or absent row and makes the next
\* version of it.
LEMMA StepRows ==
    ASSUME IInv, [Next]_vars, NEW e \in Events, rows'[e] # rows[e]
    PROVE  /\ rows[e].status \notin {"published", "dead"}
           /\ rows'[e].version = rows[e].version + 1
<1>1. CASE \E f \in Events, delay \in Delays : Enqueue(f, delay)
  <2>1. PICK f \in Events, delay \in Delays :
           rows[f].status = "absent" /\ rows' = [rows EXCEPT ![f] = NewRow(clock, clock + delay)]
    BY <1>1 DEF Enqueue
  <2>2. e = f /\ rows'[e] = NewRow(clock, clock + delay)
    BY <2>1 DEF IInv, TypeOK
  <2>3. rows[e].version = 0
    BY <2>1, <2>2 DEF IInv, AbsentIsNew
  <2> QED BY <2>1, <2>2, <2>3 DEF NewRow
<1>2. ASSUME NEW w \in Workers, ClaimCommit(w)
      PROVE  /\ rows[e].status \notin {"published", "dead"}
             /\ rows'[e].version = rows[e].version + 1
  BY <1>2 DEF ClaimCommit, IInv, ImageFollowsRow
<1>3. ASSUME NEW w \in Workers, NEW l \in held[w], SettleStep(w, l)
      PROVE  /\ rows[e].status \notin {"published", "dead"}
             /\ rows'[e].version = rows[e].version + 1
  <2>1. l.event \in Events /\ rows[l.event] \in Row /\ Now(w) \in Int
    BY SkewAssumption DEF IInv, TypeOK, Lease, Now
  <2>2. Current(rows[l.event], l) <=> Owns(rows[l.event], l)
    BY DEF IInv, VersionAgreesWithLease
  <2>3. PICK matches, row :
           /\ matches => Owns(rows[l.event], l)
           /\ row \in {PublishedRow(rows[l.event]), FailedRow(rows[l.event], Now(w))}
           /\ rows' = IF matches THEN [rows EXCEPT ![l.event] = row] ELSE rows
    BY <1>3, <2>2 DEF SettleStep, Complete, Fail, MarkPublished, MarkFailed, Settle
  <2>4. row.version = rows[l.event].version + 1
    BY <2>1, <2>3, PublishedRowType, FailedRowType
  <2>5. e = l.event /\ matches /\ rows'[e] = row
    BY <2>1, <2>3 DEF IInv, TypeOK
  <2> QED BY <2>3, <2>4, <2>5 DEF Owns
<1>4. CASE UNCHANGED rows
  BY <1>4
<1> QED BY <1>1, <1>2, <1>3, <1>4
        DEF Next, WorkerStep, ClaimSelect, ClaimRollback, Crash, Tick, vars

\* Settled events are final, although stale workers keep completing, failing
\* and flushing what they claimed long ago.
THEOREM TerminalTheorem == Spec => TerminalStable
<1>1. IInv /\ [Next]_vars =>
        [\A e \in Events : rows[e].status \in {"published", "dead"}
                             => rows'[e] = rows[e]]_vars
  BY StepRows
<1> QED BY <1>1, Inductive, PTL DEF Spec, TerminalStable

\* No committed change of a row is ever overwritten by a claim or a
\* settlement that did not see it.
THEOREM NoLostUpdateTheorem == Spec => NoLostUpdate
<1>1. IInv /\ [Next]_vars =>
        [\A e \in Events : rows'[e] # rows[e]
                             => rows'[e].version = rows[e].version + 1]_vars
  BY StepRows
<1> QED BY <1>1, Inductive, PTL DEF Spec, NoLostUpdate

-----------------------------------------------------------------------------
(* What becomes of a row: attempts, and who may settle.                     *)

\* What became of a row that changed: it was inserted, taken by a claim, or
\* settled by a worker whose lease was good.
LEMMA StepOutcome ==
    ASSUME IInv, [Next]_vars, NEW e \in Events, rows'[e] # rows[e]
    PROVE  \/ rows'[e].status = "processing"
           \/ rows'[e].status = "pending" /\ rows'[e].attempts = 0
           \/ \E w \in Workers : \E l \in held[w] :
                 /\ l.event = e
                 /\ \/ rows'[e] = PublishedRow(rows[e])
                    \/ rows'[e] = FailedRow(rows[e], Now(w))
<1> DEFINE Outcome ==
       \/ rows'[e].status = "processing"
       \/ rows'[e].status = "pending" /\ rows'[e].attempts = 0
       \/ \E w \in Workers : \E l \in held[w] :
             /\ l.event = e
             /\ \/ rows'[e] = PublishedRow(rows[e])
                \/ rows'[e] = FailedRow(rows[e], Now(w))
<1>1. ASSUME NEW f \in Events, NEW delay \in Delays, Enqueue(f, delay) PROVE Outcome
  <2>1. rows'[e] = NewRow(clock, clock + delay)
    BY <1>1 DEF Enqueue, IInv, TypeOK
  <2> QED BY <2>1 DEF NewRow
<1>2. ASSUME NEW w \in Workers, ClaimCommit(w) PROVE Outcome
  BY <1>2 DEF ClaimCommit, IInv, ImageFollowsRow
<1>3. ASSUME NEW w \in Workers, NEW l \in held[w], SettleStep(w, l) PROVE Outcome
  <2>1. l.event \in Events
    BY DEF IInv, TypeOK, Lease
  <2>2. PICK matches, row :
           /\ \/ row = PublishedRow(rows[l.event])
              \/ row = FailedRow(rows[l.event], Now(w))
           /\ rows' = IF matches THEN [rows EXCEPT ![l.event] = row] ELSE rows
    BY <1>3 DEF SettleStep, Complete, Fail, MarkPublished, MarkFailed, Settle
  <2>3. e = l.event /\ rows'[e] = row
    BY <2>1, <2>2 DEF IInv, TypeOK
  <2> QED BY <2>2, <2>3
<1>4. CASE UNCHANGED rows
  BY <1>4
<1> QED BY <1>1, <1>2, <1>3, <1>4
        DEF Next, WorkerStep, ClaimSelect, ClaimRollback, Crash, Tick, vars

\* A failure decides by the attempts counted at the claim.
LEMMA FailedRowAttempts ==
    ASSUME NEW row \in Row, NEW now \in Int
    PROVE  /\ FailedRow(row, now).attempts = row.attempts
           /\ row.attempts >= MaxAttempts => FailedRow(row, now).status = "dead"
           /\ ~(row.attempts >= MaxAttempts) => FailedRow(row, now).status = "pending"
<1>1. Released(row) \in Row /\ Released(row).attempts = row.attempts
  <2>1. Released(row).attempts = row.attempts
    BY DEF Released, Row
  <2> QED BY <2>1, ReleasedType
<1>2. CASE row.attempts >= MaxAttempts
  <2>1. FailedRow(row, now) = [Released(row) EXCEPT !.status = "dead"]
    BY <1>2 DEF FailedRow
  <2> QED BY <1>1, <1>2, <2>1 DEF Row
<1>3. CASE ~(row.attempts >= MaxAttempts)
  <2> DEFINE at == now + RetryDelay(row.attempts)
  <2>1. FailedRow(row, now) = [Released(row) EXCEPT !.status = "pending", !.available_at = at]
    BY <1>3 DEF FailedRow
  <2> HIDE DEF at
  <2> QED BY <1>1, <1>3, <2>1 DEF Row
<1> QED BY <1>2, <1>3

\* An event is dead-lettered exactly when its attempts are used up: claims
\* count them, failures compare them, on whichever worker.
THEOREM ExhaustionTheorem == Spec => []DeadIffExhausted
<1>1. Init => DeadIffExhausted
  BY DEF Init, DeadIffExhausted, AbsentRow
<1>2. ASSUME IInv, [Next]_vars, DeadIffExhausted PROVE DeadIffExhausted'
  <2> SUFFICES ASSUME NEW e \in Events
               PROVE  /\ rows'[e].status = "dead" => rows'[e].attempts >= MaxAttempts
                      /\ rows'[e].status = "pending" => rows'[e].attempts < MaxAttempts
    BY DEF DeadIffExhausted
  <2>1. CASE rows'[e] = rows[e]
    BY <1>2, <2>1 DEF DeadIffExhausted
  <2>2. CASE rows'[e].status = "processing"
    BY <2>2
  <2>3. CASE rows'[e].status = "pending" /\ rows'[e].attempts = 0
    BY <2>3, ConstantsAssumption
  <2>4. ASSUME NEW w \in Workers, NEW l \in held[w], l.event = e,
               \/ rows'[e] = PublishedRow(rows[e])
               \/ rows'[e] = FailedRow(rows[e], Now(w))
        PROVE  /\ rows'[e].status = "dead" => rows'[e].attempts >= MaxAttempts
               /\ rows'[e].status = "pending" => rows'[e].attempts < MaxAttempts
    <3>1. rows[e] \in Row /\ rows[e].attempts \in Nat /\ Now(w) \in Int
      BY <1>2, SkewAssumption DEF IInv, TypeOK, Now, Row
    <3>2. CASE rows'[e] = PublishedRow(rows[e])
      BY <3>1, <3>2, PublishedRowType
    <3>3. CASE rows'[e] = FailedRow(rows[e], Now(w))
      <4>1. CASE rows[e].attempts >= MaxAttempts
        BY <3>1, <3>3, <4>1, FailedRowAttempts
      <4>2. CASE ~(rows[e].attempts >= MaxAttempts)
        <5>1. rows'[e].status = "pending" /\ rows'[e].attempts = rows[e].attempts
          BY <3>1, <3>3, <4>2, FailedRowAttempts
        <5>2. rows[e].attempts < MaxAttempts
          BY <3>1, <4>2, ConstantsAssumption
        <5> QED BY <5>1, <5>2
      <4> QED BY <4>1, <4>2
    <3> QED BY <2>4, <3>2, <3>3
  <2> QED BY <1>2, <2>1, <2>2, <2>3, <2>4, StepOutcome
<1> QED BY <1>1, <1>2, Inductive, PTL DEF Spec

\* At most one worker can settle an event, the one its row names: a claim that
\* takes an event over has a token no other worker remembers.
THEOREM SettlerTheorem == Spec => []SettlerIsNamed
<1>1. Init => SettlerIsNamed
  BY DEF Init, SettlerIsNamed
<1>2. ASSUME IInv, [Next]_vars, SettlerIsNamed PROVE SettlerIsNamed'
  <2> SUFFICES ASSUME NEW v \in Workers, NEW k \in held'[v], Owns(rows'[k.event], k)
               PROVE  rows'[k.event].locked_by = v
    BY DEF SettlerIsNamed, Owns
  <2>1. CASE k \in held[v] /\ rows'[k.event] = rows[k.event]
    BY <1>2, <2>1 DEF SettlerIsNamed
  <2>2. ASSUME k \in held[v]
        PROVE  k.event \in Events /\ k.token # None /\ rows[k.event].status # "absent"
    BY <1>2, <2>2, NoneAssumption DEF IInv, TypeOK, Lease, LeaseNotAhead
  <2>3. ASSUME NEW f \in Events, NEW delay \in Delays, Enqueue(f, delay)
        PROVE  rows'[k.event].locked_by = v
    <3>1. /\ k \in held[v]
          /\ rows[f].status = "absent"
          /\ rows' = [rows EXCEPT ![f] = NewRow(clock, clock + delay)]
      BY <2>3 DEF Enqueue
    <3>2. rows'[k.event] = rows[k.event]
      BY <1>2, <2>2, <3>1 DEF IInv, TypeOK
    <3> QED BY <2>1, <3>1, <3>2
  <2>4. ASSUME NEW w \in Workers, ClaimCommit(w) PROVE rows'[k.event].locked_by = v
    <3> DEFINE Taken == {f \in Events : txn[w][f] # None}
               LeaseOf(f) == [event |-> f, token |-> txn[w][f].lock_token,
                              version |-> txn[w][f].version]
    <3>1. /\ rows' = [f \in Events |-> IF txn[w][f] # None THEN txn[w][f] ELSE rows[f]]
          /\ held' = [held EXCEPT ![w] = @ \cup {LeaseOf(f) : f \in Taken}]
      BY <2>4 DEF ClaimCommit
    <3>2. k \in held[v] \/ (v = w /\ \E f \in Taken : k = LeaseOf(f))
      BY <1>2, <3>1 DEF IInv, TypeOK
    <3>3. CASE k \in held[v]
      <4>1. CASE txn[w][k.event] # None
        <5>1. rows'[k.event].lock_token # k.token
          BY <1>2, <2>2, <3>1, <3>3, <4>1 DEF IInv, ImageTokenIsNew
        <5> QED BY <5>1 DEF Owns
      <4>2. CASE txn[w][k.event] = None
        BY <2>1, <2>2, <3>1, <3>3, <4>2
      <4> QED BY <4>1, <4>2
    <3>4. CASE v = w /\ \E f \in Taken : k = LeaseOf(f)
      BY <1>2, <3>1, <3>4 DEF IInv, ImageFollowsRow
    <3> QED BY <3>2, <3>3, <3>4
  <2>5. ASSUME NEW w \in Workers, NEW l \in held[w], SettleStep(w, l)
        PROVE  rows'[k.event].locked_by = v
    <3>1. l.event \in Events /\ rows[l.event] \in Row /\ Now(w) \in Int
      BY <1>2, SkewAssumption DEF IInv, TypeOK, Lease, Now
    <3>2. PICK matches, row :
             /\ row \in {PublishedRow(rows[l.event]), FailedRow(rows[l.event], Now(w))}
             /\ rows' = IF matches THEN [rows EXCEPT ![l.event] = row] ELSE rows
      BY <2>5 DEF SettleStep, Complete, Fail, MarkPublished, MarkFailed, Settle
    <3>3. row.lock_token = None
      BY <3>1, <3>2, PublishedRowType, FailedRowType
    <3>4. k \in held[v]
      BY <1>2, <2>5 DEF SettleStep, Complete, Fail, MarkPublished, MarkFailed, Settle,
                        IInv, TypeOK
    <3>5. rows'[k.event] = rows[k.event] \/ rows'[k.event] = row
      BY <1>2, <2>2, <3>2, <3>4 DEF IInv, TypeOK
    <3> QED BY <2>1, <2>2, <3>3, <3>4, <3>5 DEF Owns
  <2>6. CASE UNCHANGED rows /\ held'[v] \subseteq held[v]
    BY <2>1, <2>6
  <2>7. ASSUME NEW w \in Workers, Crash(w) PROVE rows'[k.event].locked_by = v
    BY <1>2, <2>6, <2>7 DEF Crash, IInv, TypeOK
  <2> QED BY <1>2, <2>3, <2>4, <2>5, <2>6, <2>7
          DEF Next, WorkerStep, ClaimSelect, ClaimRollback, Tick, vars
<1> QED BY <1>1, <1>2, Inductive, PTL DEF Spec

-----------------------------------------------------------------------------
(* The outbox implements the ledger.  The epoch of an event is its version; *)
(* a remembered lease, good or stale, is the grant of the version it saw.   *)

GrantOf(l) == <<l.event, l.version>>

Grants(H) == {GrantOf(l) : l \in H}

\* Dropping a lease drops its grant, or nothing if another lease has the same.
LEMMA DropGrant ==
    ASSUME NEW H, NEW l \in H
    PROVE  Grants(H \ {l}) = Grants(H) \/ Grants(H \ {l}) = Grants(H) \ {GrantOf(l)}
<1>1. CASE \E k \in H \ {l} : GrantOf(k) = GrantOf(l)
  BY <1>1 DEF Grants
<1>2. CASE \A k \in H \ {l} : GrantOf(k) # GrantOf(l)
  BY <1>2 DEF Grants
<1> QED BY <1>1, <1>2

\* An empty table is an empty ledger.
LEMMA LedgerInit == Init => Ledger!Init
BY DEF Init, Ledger!Init, AbsentRow

\* An insert offers the event.
LEMMA EnqueueOffers ==
    ASSUME IInv, NEW e \in Events, NEW delay \in Delays, Enqueue(e, delay)
    PROVE  Ledger!Offer(e)
<1>1. /\ rows[e].status = "absent"
      /\ rows' = [rows EXCEPT ![e] = NewRow(clock, clock + delay)]
      /\ UNCHANGED held
  BY DEF Enqueue
<1>2. rows[e].version = 0
  BY <1>1 DEF IInv, AbsentIsNew
<1>3. NewRow(clock, clock + delay).status = "pending" /\ NewRow(clock, clock + delay).version = 1
  BY DEF NewRow
<1>4. rows \in [Events -> Row]
  BY DEF IInv, TypeOK
<1>5. [f \in Events |-> rows'[f].status] =
          [[f \in Events |-> rows[f].status] EXCEPT ![e] = "pending"]
  BY <1>1, <1>3, <1>4
<1>6. [f \in Events |-> rows'[f].version] =
          [[f \in Events |-> rows[f].version] EXCEPT ![e] = @ + 1]
  <2>1. \A f \in Events : rows'[f].version = IF f = e THEN rows[f].version + 1
                                                      ELSE rows[f].version
    BY <1>1, <1>2, <1>3, <1>4
  <2> QED BY <2>1
<1> QED BY <1>1, <1>5, <1>6 DEF Ledger!Offer

\* The commit of a claim grants its batch.
LEMMA ClaimCommitGrants ==
    ASSUME IInv, NEW w \in Workers, ClaimCommit(w)
    PROVE  \E S \in SUBSET Events : Ledger!Grant(w, S)
<1>0. PICK S \in SUBSET Events : S = {f \in Events : txn[w][f] # None}
  OBVIOUS
<1> DEFINE LeaseOf(f) == [event |-> f, token |-> txn[w][f].lock_token,
                          version |-> txn[w][f].version]
           Taken == {LeaseOf(f) : f \in S}
<1>1. /\ rows' = [f \in Events |-> IF txn[w][f] # None THEN txn[w][f] ELSE rows[f]]
      /\ held' = [held EXCEPT ![w] = @ \cup Taken]
      /\ txn[w] # NoTxn
  BY <1>0 DEF ClaimCommit
<1>2. \A f \in S : /\ rows[f].status \in {"pending", "processing"}
                   /\ rows'[f].status = "processing"
                   /\ rows'[f].version = rows[f].version + 1
                   /\ txn[w][f].version = rows[f].version + 1
  BY <1>0, <1>1 DEF IInv, ImageFollowsRow
<1>3. \A f \in Events \ S : rows'[f] = rows[f]
  BY <1>0, <1>1
<1>4. S # {}
  <2>1. txn[w] \in [Events -> Row \cup {None}]
    BY DEF IInv, TypeOK
  <2> QED BY <1>0, <1>1, <2>1 DEF NoTxn
<1>5. held \in [Workers -> SUBSET Lease]
  BY DEF IInv, TypeOK
<1>6. \A f \in S : GrantOf(LeaseOf(f)) = <<f, rows[f].version + 1>>
  BY <1>2 DEF GrantOf
<1>7. Grants(Taken) = {<<f, rows[f].version + 1>> : f \in S}
  <2> HIDE DEF LeaseOf
  <2> QED BY <1>6 DEF Grants
<1> HIDE DEF Taken
<1>8. Grants(held'[w]) = Grants(held[w]) \cup {<<f, rows[f].version + 1>> : f \in S}
  <2>1. held'[w] = held[w] \cup Taken
    BY <1>1, <1>5
  <2>2. Grants(held[w] \cup Taken) = Grants(held[w]) \cup Grants(Taken)
    BY DEF Grants
  <2> QED BY <1>7, <2>1, <2>2
<1>9. \A v \in Workers : v # w => held'[v] = held[v]
  BY <1>1, <1>5
<1>10. [v \in Workers |-> Grants(held'[v])] =
          [[v \in Workers |-> Grants(held[v])] EXCEPT ![w] =
              @ \cup {<<f, rows[f].version + 1>> : f \in S}]
  BY <1>8, <1>9
<1>11. Ledger!Grant(w, S)
  <2>1. [f \in Events |-> rows'[f].status] =
           [f \in Events |-> IF f \in S THEN "processing"
                             ELSE [g \in Events |-> rows[g].status][f]]
    BY <1>2, <1>3
  <2>2. [f \in Events |-> rows'[f].version] =
           [f \in Events |-> IF f \in S THEN [g \in Events |-> rows[g].version][f] + 1
                             ELSE [g \in Events |-> rows[g].version][f]]
    BY <1>2, <1>3
  <2>3. \A f \in S : [g \in Events |-> rows[g].status][f] \in {"pending", "processing"}
    BY <1>2
  <2>4. {<<f, rows[f].version + 1>> : f \in S} =
           {<<f, [g \in Events |-> rows[g].version][f] + 1>> : f \in S}
    OBVIOUS
  <2> QED BY <1>4, <1>10, <2>1, <2>2, <2>3, <2>4 DEF Ledger!Grant, Grants, GrantOf
<1> QED BY <1>11

\* A settling call settles under the current grant, or is refused and the worker
\* forgets.
LEMMA SettleSettles ==
    ASSUME IInv, NEW w \in Workers, NEW l \in held[w],
           NEW matches, NEW row, NEW answered,
           Settle(w, l, matches, row, answered),
           matches => Owns(rows[l.event], l),
           row.status \in {"pending", "published", "dead"},
           row.version = rows[l.event].version + 1
    PROVE  [Ledger!Next]_(Ledger!ledger)
<1>1. l.event \in Events /\ held \in [Workers -> SUBSET Lease] /\ rows \in [Events -> Row]
  BY DEF IInv, TypeOK, Lease
<1>2. /\ rows' = IF matches THEN [rows EXCEPT ![l.event] = row] ELSE rows
      /\ held' = IF answered THEN [held EXCEPT ![w] = @ \ {l}] ELSE held
  BY DEF Settle
<1> DEFINE grants == [v \in Workers |-> Grants(held[v])]
           status == [f \in Events |-> rows[f].status]
           version == [f \in Events |-> rows[f].version]
           g == GrantOf(l)
<1>3. g \in grants[w] /\ g[1] = l.event /\ g[2] = l.version
  BY DEF Grants, GrantOf
<1>4. [v \in Workers |-> Grants(held'[v])] \in {grants, [grants EXCEPT ![w] = @ \ {g}]}
  <2>1. CASE held' = held
    BY <2>1
  <2>2. CASE held' = [held EXCEPT ![w] = @ \ {l}]
    <3>1. /\ \A v \in Workers : v # w => held'[v] = held[v]
          /\ held'[w] = held[w] \ {l}
      BY <1>1, <2>2
    <3>2. CASE Grants(held[w] \ {l}) = Grants(held[w])
      BY <3>1, <3>2
    <3>3. CASE Grants(held[w] \ {l}) = Grants(held[w]) \ {g}
      <4> HIDE DEF g
      <4>1. [v \in Workers |-> Grants(held'[v])] = [grants EXCEPT ![w] = @ \ {g}]
        BY <3>1, <3>3
      <4> QED BY <4>1
    <3> QED BY <3>2, <3>3, DropGrant
  <2> QED BY <1>2, <2>1, <2>2
<1>5. CASE matches
  <2>1. rows[l.event].status = "processing" /\ rows[l.event].version = l.version
    BY <1>5 DEF IInv, VersionAgreesWithLease, Owns, Current
  <2>2. [f \in Events |-> rows'[f].status] = [status EXCEPT ![g[1]] = row.status]
    BY <1>1, <1>2, <1>3, <1>5
  <2>3. [f \in Events |-> rows'[f].version] = [version EXCEPT ![g[1]] = @ + 1]
    BY <1>1, <1>2, <1>3, <1>5
  <2>4. Ledger!Settle(w, g, row.status)
    <3>1. g[2] = version[g[1]] /\ status[g[1]] = "processing"
      BY <1>1, <1>3, <2>1
    <3> QED BY <1>3, <1>4, <2>2, <2>3, <3>1 DEF Ledger!Settle, Grants, GrantOf
  <2> QED BY <1>3, <2>4 DEF Ledger!Next, Grants, GrantOf
<1>6. CASE ~matches
  <2>1. UNCHANGED rows
    BY <1>2, <1>6
  <2>2. CASE [v \in Workers |-> Grants(held'[v])] = grants
    BY <2>1, <2>2 DEF Ledger!ledger, Grants, GrantOf
  <2>3. CASE [v \in Workers |-> Grants(held'[v])] = [grants EXCEPT ![w] = @ \ {g}]
    <3>1. Ledger!Forget(w, {g})
      BY <2>1, <2>3 DEF Ledger!Forget, Grants, GrantOf
    <3> QED BY <1>3, <3>1 DEF Ledger!Next, Grants, GrantOf
  <2> QED BY <1>4, <2>2, <2>3
<1> QED BY <1>5, <1>6

\* Every step of the outbox is a step of the ledger, or changes nothing in it.
LEMMA LedgerStep == IInv /\ [Next]_vars => [Ledger!Next]_(Ledger!ledger)
<1> SUFFICES ASSUME IInv, [Next]_vars PROVE [Ledger!Next]_(Ledger!ledger)
  OBVIOUS
<1>1. held \in [Workers -> SUBSET Lease]
  BY DEF IInv, TypeOK
<1>2. ASSUME NEW e \in Events, NEW delay \in Delays, Enqueue(e, delay)
      PROVE  [Ledger!Next]_(Ledger!ledger)
  BY <1>2, EnqueueOffers DEF Ledger!Next
<1>3. ASSUME NEW w \in Workers, ClaimCommit(w) PROVE [Ledger!Next]_(Ledger!ledger)
  BY <1>3, ClaimCommitGrants DEF Ledger!Next
<1>5. ASSUME NEW w \in Workers, NEW l \in held[w], SettleStep(w, l)
      PROVE  [Ledger!Next]_(Ledger!ledger)
  <2> DEFINE p == PublishedRow(rows[l.event])
             f == FailedRow(rows[l.event], Now(w))
  <2>1. l.event \in Events /\ rows[l.event] \in Row /\ Now(w) \in Int
    BY SkewAssumption DEF IInv, TypeOK, Lease, Now
  <2>2. Current(rows[l.event], l) <=> Owns(rows[l.event], l)
    BY DEF IInv, VersionAgreesWithLease
  <2>3. /\ p.status \in {"pending", "published", "dead"}
        /\ p.version = rows[l.event].version + 1
    BY <2>1, PublishedRowType
  <2>4. /\ f.status \in {"pending", "published", "dead"}
        /\ f.version = rows[l.event].version + 1
    BY <2>1, FailedRowType
  <2>5. PICK matches, answered :
           /\ matches => Owns(rows[l.event], l)
           /\ \/ Settle(w, l, matches, p, answered)
              \/ Settle(w, l, matches, f, answered)
    BY <1>5, <2>2 DEF SettleStep, Complete, Fail, MarkPublished, MarkFailed
  <2> HIDE DEF p, f
  <2>6. CASE Settle(w, l, matches, p, answered)
    BY <2>3, <2>5, <2>6, SettleSettles
  <2>7. CASE Settle(w, l, matches, f, answered)
    BY <2>4, <2>5, <2>7, SettleSettles
  <2> QED BY <2>5, <2>6, <2>7
<1>6. ASSUME NEW w \in Workers, Crash(w) PROVE [Ledger!Next]_(Ledger!ledger)
  <2> DEFINE grants == [v \in Workers |-> Grants(held[v])]
  <2>1. held' = [held EXCEPT ![w] = {}] /\ UNCHANGED rows
    BY <1>6 DEF Crash
  <2>2. Grants({}) = {}
    BY DEF Grants
  <2>3. [v \in Workers |-> Grants(held'[v])] = [grants EXCEPT ![w] = @ \ grants[w]]
    BY <1>1, <2>1, <2>2
  <2>4. PICK G : G = grants[w]
    OBVIOUS
  <2>5. Ledger!Forget(w, G)
    BY <2>1, <2>3, <2>4 DEF Ledger!Forget, Grants, GrantOf
  <2>6. G \in SUBSET [v \in Workers |-> {<<l.event, l.version>> : l \in held[v]}][w]
    BY <2>4 DEF Grants, GrantOf
  <2> QED BY <2>5, <2>6 DEF Ledger!Next
<1>7. CASE UNCHANGED <<rows, held>>
  BY <1>7 DEF Ledger!ledger
<1> QED BY <1>2, <1>3, <1>5, <1>6, <1>7
        DEF Next, WorkerStep, ClaimSelect, ClaimRollback, Tick, vars

\* Tokens, row locks and versions together implement the ledger: an event is
\* settled only by the worker that holds its latest claim.
THEOREM LedgerTheorem == Spec => ImplementsLedger
BY LedgerInit, LedgerStep, Inductive, PTL DEF Spec, ImplementsLedger, Ledger!Spec
=============================================================================
