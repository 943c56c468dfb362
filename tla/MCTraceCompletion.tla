------------------------- MODULE MCTraceCompletion -------------------------
(* A bounded instance of TraceCompletion: the callers are unconstrained.   *)
EXTENDS TraceCompletion, TLC

Symmetry == Permutations(Traces) \cup Permutations(Spans)
=============================================================================
