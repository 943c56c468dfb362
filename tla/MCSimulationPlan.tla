-------------------------- MODULE MCSimulationPlan --------------------------
(***************************************************************************)
(* A bounded instance of SimulationPlan: trace t1 has the root r1, sent    *)
(* with the plan ignored, and the child c1 whose content the plan takes    *)
(* off; trace t2 has the child e1, whose content it leaves on.             *)
(***************************************************************************)
EXTENDS SimulationPlan

CONSTANTS t1, t2, r1, c1, e1

MCTraces == {t1, t2}
MCSpans == {r1, c1, e1}
MCTraceOf == [s \in MCSpans |-> IF s = e1 THEN t2 ELSE t1]
MCRoots == {r1}
MCPlans == {{c1}}
=============================================================================
