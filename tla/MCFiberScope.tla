---------------------------- MODULE MCFiberScope ----------------------------
(* Instances of FiberScope for TLC.                                        *)
EXTENDS FiberScope

Symmetry == Permutations(ScriptFibers) \cup Permutations(NativeFibers)
=============================================================================
