---------------------------- MODULE MCAutoSubtree ----------------------------
(***************************************************************************)
(* Automatic capture. Subtrees: two Traces, one inside the other, and two  *)
(* calls, n1 below the outer one and n2 below both. Scopes: two spans from *)
(* Start, a span around a function, two traces, a node and a generated     *)
(* goroutine. The two share no variable, so that a behaviour is of one or  *)
(* of the other part.                                                      *)
(***************************************************************************)
EXTENDS AutoSubtree, AutoScope, TLC

CONSTANTS outer, inner, t1, t2, n1, n2, a, b, u, g
VARIABLE part

MCOpens == outer :> t1 @@ inner :> t2
MCAround == t1 :> {} @@ t2 :> {t1} @@ n1 :> {t1} @@ n2 :> {t1, t2}
MCOptions ==
  [mode : {"live", "replay", "selective"}, maxDepth : {2}, maxSpans : {1}, exclude : {{}}]
    \cup [mode : {"replay", "selective"}, maxDepth : {1}, maxSpans : {0}, exclude : {{n1}}]

MCKind ==
  a :> "start" @@ b :> "start" @@ u :> "span" @@ t1 :> "trace" @@ t2 :> "trace"
    @@ n1 :> "node" @@ g :> "go"

MCInit ==
  /\ part \in {"subtrees", "scopes"}
  /\ Init /\ ScopeInit
  /\ part = "scopes" => opts = CHOOSE o \in MCOptions : TRUE

MCNext ==
  \/ part = "subtrees" /\ Next /\ UNCHANGED <<part, scopeVars>>
  \/ part = "scopes" /\ ScopeNext /\ UNCHANGED part /\ UNCHANGED vars

MCSpec ==
  /\ MCInit /\ [][MCNext]_<<part, vars, scopeVars>>
  /\ WF_vars(part = "subtrees" /\ UNCHANGED <<part, scopeVars>>
             /\ (SDKStep \/ \E r \in Roots : End(Opens[r])))
=============================================================================
