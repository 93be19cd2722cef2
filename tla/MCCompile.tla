----------------------------- MODULE MCCompile ------------------------------
(* Instances of Compile for TLC.                                           *)
EXTENDS Compile

CONSTANT aFiber
=============================================================================
