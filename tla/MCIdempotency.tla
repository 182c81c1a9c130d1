--------------------------- MODULE MCIdempotency ---------------------------
(* The idempotency store for TLC: r1 may be tried twice, r2 reuses the key  *)
(* for another request.                                                     *)
EXTENDS Idempotency, TLC

CONSTANTS r1, r2, f1, f2

MCFingerprint == r1 :> f1 @@ r2 :> f2
=============================================================================
