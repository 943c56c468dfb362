--------------------------- MODULE SelectiveReplay ---------------------------
(***************************************************************************)
(* Selective replay (selective_replay.go): the server marks the recorded   *)
(* spans that must run again, the client refuses a plan that could hide    *)
(* code or evidence that is required, and decides for every call of the    *)
(* replayed item, in whatever order they come, whether it runs, is         *)
(* replaced by what was recorded, or is blocked.                           *)
(***************************************************************************)
EXTENDS Integers, Sequences, FiniteSets

CONSTANTS
  Nodes, Root, ParentOf, Identity, InputOf,  \* the recorded spans; InputOf[n]: its input, or NoInput
  Plans,           \* plans of the server: mustRun, reusable, required, missing, asserted, fullTrace
  MaxCalls,        \* calls of the item, numbered as they come; the first is its own
  CallKeys, Shapes,  \* what a call may be: its key, and its input, whether it is hidden (intercepted
                   \* only), mocked for safety, declared reusable, and has a supported output
  NoInput, nil

Calls == 0..(MaxCalls - 1)
First == 0

(* A plan's nodes lead up to its root, which is above them all, and have  *)
(* the marks of a plan (newSelectiveRuntime).                              *)
ASSUME SelectiveAssumption ==
  /\ nil \notin Nodes /\ nil \notin Calls /\ Root \in Nodes /\ MaxCalls \in Nat \ {0}
  /\ ParentOf \in [Nodes -> Nodes \cup {nil}]
  /\ \A n \in Nodes : ParentOf[n] = nil <=> n = Root
  /\ \A p \in Plans : p.mustRun \subseteq Nodes /\ p.fullTrace \in BOOLEAN
  /\ \A shape \in Shapes : shape.hidden \in BOOLEAN

(* What is above x: the least set with its parent, and with a parent of    *)
(* each that it has.                                                       *)
Above(x, parent) ==
  {y \in DOMAIN parent :
     \A S \in SUBSET DOMAIN parent :
       (\A z \in S \cup {x} : parent[z] # nil => parent[z] \in S) => y \in S}

Children(n) == {m \in Nodes : ParentOf[m] = n}
AncestorsOf(n) == Above(n, ParentOf)

VARIABLES
  plan, accepted,
  live,       \* the calls that have entered, with what they are (parent, key, input, hidden, safety, reuse)
  node,       \* parents: the recorded span a call stands for
  matching,   \* matchingParents: the call in whose place a hidden one's calls are matched
  consumed,   \* recorded spans each call's callees have used up
  required, asserted,  \* requiredScopes, assertionScopes
  action      \* what was decided: run, mock or blocked

selectiveVars == <<plan, accepted, live, node, matching, consumed, required, asserted, action>>

(* newSelectiveRuntime: what the server must have marked.                  *)
AncestorsAnyway(n) == TRUE       \* a mutant: a live call below a replaced one
AncestorsRun(n) == n \in plan.mustRun => AncestorsOf(n) \subseteq plan.mustRun

Required(n) == \E m \in {n} \cup AncestorsOf(n) : Identity[m] \in plan.required
Asserted(n) == plan.fullTrace \/ \E m \in {n} \cup AncestorsOf(n) : Identity[m] \in plan.asserted

Valid ==
  /\ plan.required # {}
  /\ Root \in plan.mustRun
  /\ plan.missing = plan.required \ {Identity[n] : n \in Nodes}
  /\ \A n \in Nodes :
       /\ AncestorsRun(n)
       /\ Required(n) \/ plan.missing # {} \/ Asserted(n) => n \in plan.mustRun

SelectiveInit ==
  /\ plan \in Plans /\ accepted = Valid
  /\ live = [c \in {} |-> nil]
  /\ node = [c \in Calls |-> nil] /\ matching = [c \in Calls |-> c]
  /\ consumed = [c \in Calls |-> {}]
  /\ required = {} /\ asserted = {}
  /\ action = [c \in Calls |-> nil]

------------------------------------------------------------------------------
(* enter, under the runtime's mutex. The candidates are the recorded       *)
(* callees of the span the parent stands for that have the call's key and  *)
(* are not used up; the exact ones have its input too.                     *)
CallsOwn(parent) == parent        \* a mutant: below a hidden call all are unused again
UsedBy(parent) == matching[parent]

Candidates(parent, key) ==
  LET at == node[matching[parent]] IN
  {n \in IF at = nil THEN {} ELSE Children(at) : Identity[n] = key /\ n \notin consumed[UsedBy(parent)]}
Exact(parent, key, input) == {n \in Candidates(parent, key) : input # NoInput /\ InputOf[n] = input}

(* The recorded span a call stands for is the only exact one, or the only  *)
(* candidate; otherwise none, and the candidates are used up all the same. *)
Match(exact, candidates) ==
  IF Cardinality(exact) = 1 THEN exact
  ELSE IF exact = {} /\ Cardinality(candidates) = 1 THEN candidates ELSE {}
UsedUp(match, candidates) == IF match # {} THEN match ELSE candidates

(* The decision: a call that must run, or one that is required or asserted *)
(* or below one that is, runs; another is replaced if it was given what    *)
(* was recorded and its output is supported and declared reusable; one     *)
(* that may not run for safety is blocked if it is not replaced.           *)
Decision(n, mustRun, call) ==
  LET reusable == /\ ~mustRun /\ n # nil
                  /\ call.input # NoInput /\ InputOf[n] = call.input /\ call.supported
  IN  CASE call.safety /\ ~reusable -> "blocked"
        [] call.safety /\ reusable -> "mock"
        [] ~call.safety /\ reusable /\ n \in plan.reusable /\ call.reuse -> "mock"
        [] OTHER -> "run"

InScope(parent, key) == key \in plan.required \/ parent \in required

EnterFirst ==
  /\ accepted /\ First \notin DOMAIN live
  /\ \E key \in CallKeys :
       /\ live' = [c \in {First} |-> [parent |-> nil, key |-> key, hidden |-> FALSE]]
       /\ required' = IF key \in plan.required THEN {First} ELSE {}
       /\ asserted' = IF plan.fullTrace \/ key \in plan.asserted THEN {First} ELSE {}
  /\ node' = [node EXCEPT ![First] = Root]
  /\ action' = [action EXCEPT ![First] = "run"]
  /\ UNCHANGED <<plan, accepted, matching, consumed>>

Enter(c) ==
  /\ c \notin DOMAIN live /\ 0 .. c - 1 \subseteq DOMAIN live
  /\ \E parent \in {p \in DOMAIN live : action[p] = "run"}, key \in CallKeys, shape \in Shapes :
       LET candidates == Candidates(parent, key)
           match == Match(Exact(parent, key, shape.input), candidates)
           isRequired == InScope(parent, key)
           isAsserted == plan.fullTrace \/ key \in plan.asserted \/ parent \in asserted
       IN \E n \in IF match = {} THEN {nil} ELSE match :
            /\ live' = [d \in DOMAIN live \cup {c} |->
                 IF d = c THEN [parent |-> parent, key |-> key, hidden |-> shape.hidden] ELSE live[d]]
            /\ node' = [node EXCEPT ![c] = n]
            /\ consumed' = [consumed EXCEPT ![UsedBy(parent)] = @ \cup UsedUp(match, candidates)]
            /\ matching' = [matching EXCEPT ![c] = IF n = nil /\ shape.hidden THEN matching[parent] ELSE c]
            /\ required' = IF isRequired THEN required \cup {c} ELSE required
            /\ asserted' = IF isAsserted THEN asserted \cup {c} ELSE asserted
            /\ action' = [action EXCEPT ![c] =
                 Decision(n, isRequired \/ isAsserted \/ plan.missing # {} \/ n \in plan.mustRun, shape)]
  /\ UNCHANGED <<plan, accepted>>

SelectiveNext == EnterFirst \/ \E c \in Calls : First \in DOMAIN live /\ Enter(c)
SelectiveSpec == SelectiveInit /\ [][SelectiveNext]_selectiveVars

------------------------------------------------------------------------------
Callers(c) == Above(c, [d \in DOMAIN live |-> live[d].parent])
Replaced == {c \in DOMAIN live : action[c] = "mock"}

(* What is required or asserted is never replaced, nor hidden behind a     *)
(* call that is: neither in the recording, below the span whose output is  *)
(* used, nor in the replay, below the call that requires it                *)
(* (SelectiveReplayOptions: "Each selected subtree and its ancestors stay  *)
(* live").                                                                 *)
RequiredStaysLive ==
  \A c \in Replaced :
    /\ \A n \in Nodes : node[c] \in {n} \cup AncestorsOf(n) =>
         n \notin plan.mustRun /\ Identity[n] \notin plan.required \cup plan.asserted
    /\ \A d \in {c} \cup Callers(c) : live[d].key \notin plan.required \cup plan.asserted

(* A recorded span stands for one call at most, one of its key, below the  *)
(* call its caller stands for; only calls that are hidden and were not     *)
(* recorded may come between (enter).                                      *)
RecordingUsedOnce ==
  \A c \in DOMAIN live \ {First} : node[c] # nil =>
    /\ \A d \in DOMAIN live \ {c} : node[d] # node[c]
    /\ Identity[node[c]] = live[c].key
    /\ \E a \in Callers(c) :
         /\ node[a] = ParentOf[node[c]]
         /\ \A b \in Callers(c) \ ({a} \cup Callers(a)) : live[b].hidden /\ node[b] = nil

(* What is required or asserted runs, and a recorded span stands for one   *)
(* call (newSelectiveRuntime, enter).                                      *)
SelectiveExact == RequiredStaysLive /\ RecordingUsedOnce
=============================================================================
