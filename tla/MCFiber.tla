------------------------------ MODULE MCFiber ------------------------------
(* Instances of Fiber for TLC: two script fibers and a native one.         *)
EXTENDS Fiber, TLC

Symmetry == Permutations(ScriptFibers) \cup Permutations(NativeFibers)
=============================================================================
