--------------------------- MODULE MCImportCache ---------------------------
(* Instances of ImportCache for TLC.                                       *)
EXTENDS ImportCache

Symmetry == Permutations(Keys \ Extensions) \cup Permutations(Tasks)
=============================================================================
