----------------------------- MODULE MCControl -----------------------------
(* Instances of Control for TLC: the main program, one fiber, one module. *)
EXTENDS Control

CONSTANT Lib
=============================================================================
