----------------------------- MODULE MCSessions -----------------------------
(* Sessions for TLC: one task that runs block after block on one connection.*)
(* Tasks share nothing but the pool, so what one task leaves on the         *)
(* connection for its next block is what it would leave for another task.   *)
EXTENDS Sessions, TLC

CONSTANTS t1, c1, n1, n2

TenantSymmetry == Permutations(Tenants)
=============================================================================
