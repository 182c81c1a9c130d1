------------------------------ MODULE MCCache ------------------------------
(* The cache for TLC: callers of get_or_set compete for the key k1 while   *)
(* others set, delete and invalidate both keys under one tag.              *)
EXTENDS Cache, TLC

CONSTANTS o1, o2, k1, k2, t1

ObjectSymmetry == Permutations(Objects)
=============================================================================
