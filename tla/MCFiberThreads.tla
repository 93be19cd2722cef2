--------------------------- MODULE MCFiberThreads ---------------------------
(* Instances of FiberThreads for TLC: two threads with fibers of their own. *)
EXTENDS FiberThreads, TLC

CONSTANTS t1, t2, f1, f2, f3, g1, g2

MCHome == (f1 :> t1) @@ (f2 :> t1) @@ (f3 :> t1) @@ (g1 :> t2) @@ (g2 :> t2)
=============================================================================
