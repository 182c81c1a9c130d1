---------------------------- MODULE OutboxLedger ----------------------------
(***************************************************************************)
(* What the outbox promises its users, without tokens, clocks, locks or    *)
(* transactions: an event moves through the state machine of               *)
(* docs/architecture.md, every change opens a new epoch of the event, and  *)
(* a worker settles an event only under the grant of the current epoch.    *)
(***************************************************************************)
EXTENDS Naturals

CONSTANTS Events, Workers

VARIABLES
    state,      \* state of each event
    epoch,      \* number of changes each event went through
    grants      \* grants[w]: pairs <<event, epoch>> worker w acts under

ledger == <<state, epoch, grants>>

Init ==
    /\ state = [e \in Events |-> "absent"]
    /\ epoch = [e \in Events |-> 0]
    /\ grants = [w \in Workers |-> {}]

Offer(e) ==
    /\ state[e] = "absent"
    /\ state' = [state EXCEPT ![e] = "pending"]
    /\ epoch' = [epoch EXCEPT ![e] = @ + 1]
    /\ UNCHANGED grants

\* Worker w takes over a batch; grants others had on it are now outdated.
Grant(w, S) ==
    /\ S # {}
    /\ \A e \in S : state[e] \in {"pending", "processing"}
    /\ state' = [e \in Events |-> IF e \in S THEN "processing" ELSE state[e]]
    /\ epoch' = [e \in Events |-> IF e \in S THEN epoch[e] + 1 ELSE epoch[e]]
    /\ grants' = [grants EXCEPT ![w] = @ \cup {<<e, epoch[e] + 1>> : e \in S}]

\* Only the grant of the current epoch settles the event.
Settle(w, g, outcome) ==
    /\ g \in grants[w]
    /\ g[2] = epoch[g[1]]
    /\ state[g[1]] = "processing"
    /\ state' = [state EXCEPT ![g[1]] = outcome]
    /\ epoch' = [epoch EXCEPT ![g[1]] = @ + 1]
    /\ \/ UNCHANGED grants
       \/ grants' = [grants EXCEPT ![w] = @ \ {g}]

\* A worker drops grants: refused, crashed, or done.
Forget(w, G) ==
    /\ grants' = [grants EXCEPT ![w] = @ \ G]
    /\ UNCHANGED <<state, epoch>>

Next ==
    \/ \E e \in Events : Offer(e)
    \/ \E w \in Workers : \E S \in SUBSET Events : Grant(w, S)
    \/ \E w \in Workers : \E g \in grants[w] :
          \E outcome \in {"pending", "published", "dead"} : Settle(w, g, outcome)
    \/ \E w \in Workers : \E G \in SUBSET grants[w] : Forget(w, G)

Spec == Init /\ [][Next]_ledger
=============================================================================
