--------------------------- MODULE MCReplayChildren ---------------------------
(* Three items on three workers; memory for three children of the budget,  *)
(* which a child may outgrow.                                              *)
EXTENDS ReplayChildren

MCItems == 1 .. 3
=============================================================================
