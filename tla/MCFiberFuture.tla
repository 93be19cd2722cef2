--------------------------- MODULE MCFiberFuture ---------------------------
(* Instances of FiberFuture for TLC: each of two fibers wrapped in one     *)
(* future.                                                                 *)
EXTENDS FiberFuture, TLC

CONSTANTS f1, f2, u1, u2

MCTarget == (u1 :> f1) @@ (u2 :> f2)
=============================================================================
