--------------------------- MODULE MCRequestExport ---------------------------
(* Bounded instances of RequestExport, their numbers given in the .cfg.    *)
EXTENDS RequestExport, TLC

Symmetry == Permutations(Workers)
=============================================================================
