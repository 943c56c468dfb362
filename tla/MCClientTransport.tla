-------------------------- MODULE MCClientTransport --------------------------
(* Bounded instances of ClientTransport, their calls given in the .cfg.    *)
EXTENDS ClientTransport, TLC

Symmetry == Permutations(Carriers)
=============================================================================
