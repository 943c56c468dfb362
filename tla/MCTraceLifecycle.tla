-------------------------- MODULE MCTraceLifecycle --------------------------
(***************************************************************************)
(* A bounded instance of TraceLifecycle: trace t1 with the root r1 and its *)
(* children c1 and c2.  r1 and c1 have output finalizers; c2 may outlive   *)
(* its root.                                                               *)
(***************************************************************************)
EXTENDS TraceLifecycle

CONSTANTS t1, r1, c1, c2

MCTraces == {t1}
MCSpans == {r1, c1, c2}
MCTraceOf == [s \in MCSpans |-> t1]
MCRoots == {r1}
MCParent == [s \in {c1, c2} |-> r1]
MCFinalized == {r1, c1}
=============================================================================
