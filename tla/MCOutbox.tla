------------------------------ MODULE MCOutbox ------------------------------
(***************************************************************************)
(* Outbox for TLC: two events, two dispatchers whose clocks disagree by    *)
(* one unit.                                                               *)
(***************************************************************************)
EXTENDS Outbox, TLC

CONSTANTS w1, w2, e1, e2

EventSymmetry == Permutations(Events)

MCSkew == w1 :> 0 @@ w2 :> 1
=============================================================================
