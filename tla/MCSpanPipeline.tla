--------------------------- MODULE MCSpanPipeline ---------------------------
(***************************************************************************)
(* Bounded instances of SpanPipeline: trace t1 has the root r1, the span   *)
(* c1 and, when children are nested, the span g1, which ended in an error; *)
(* then there is a trace t2 of the root r2 alone as well, which the host   *)
(* does not drop.                                                          *)
(***************************************************************************)
EXTENDS SpanPipeline

CONSTANTS t1, t2, r1, r2, c1, g1

MCOneTrace == {t1}
MCOneTraceSpans == {r1, c1}
MCTwoTraces == {t1, t2}
MCTwoTraceSpans == {r1, c1, g1, r2}
MCTraceOf == [s \in Spans |-> IF s = r2 THEN t2 ELSE t1]
MCRoots == Spans \cap {r1, r2}
MCKept == {g1}
MCSiblings == [s \in {c1, g1} |-> r1]
MCChild == [s \in {c1} |-> r1]
MCPlans == {{c1, g1}}
MCOnePlan == {{c1}}

(* The states explored: t2 is not dropped, and t1 not after its state was  *)
(* deleted, when none of its spans is left to look.                        *)
MCDrops ==
  /\ t2 \notin asked
  /\ t1 \in dropped => phase[r1] \notin {"closing", "ended"}
=============================================================================
