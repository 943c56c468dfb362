------------------------------ MODULE AutoScope ------------------------------
(***************************************************************************)
(* The scope of instrumentation a goroutine is in (auto_scope.go): every   *)
(* span, trace and node pushes its scope when it is entered and restores   *)
(* the one before it when it is over, if its own is still the current one. *)
(* The calls that take a function (Span, Trace, an instrumented node, the  *)
(* body of a generated goroutine) nest; a span from Client.Start is ended  *)
(* by the host, at any time and from any goroutine. A call is made with a  *)
(* context that has no scope of its own; the outer span of a replayed item *)
(* pushes none and is left out.                                            *)
(***************************************************************************)
EXTENDS Integers, Sequences, FiniteSets

CONSTANTS
  Goroutines, Main,  \* goroutines, of which Main are the host's own
  Calls, Kind        \* calls, and of each: span, start, trace, node or go

None == "none"

ASSUME ScopeAssumption ==
  /\ IsFiniteSet(Calls) /\ None \notin Calls
  /\ Kind \in [Calls -> {"span", "start", "trace", "node", "go"}]
  /\ 0 \notin Goroutines /\ Main \subseteq Goroutines

VARIABLES
  state,      \* new, open or over, for each call
  scope,      \* the scope a call pushed: its own, for a goroutine the launcher's
  previous,   \* the scope it found, that it restores
  home,       \* the goroutine it pushed it on, 0 for none
  frames,     \* the traces whose roots its scope records in
  current,    \* autoScopes: the scope of each goroutine
  stack       \* the nested calls each goroutine is in

scopeVars == <<state, scope, previous, home, frames, current, stack>>

Explicit(s) == s # None /\ Kind[s] \in {"span", "start"}
Automatic(s) == s # None /\ Kind[s] \in {"trace", "node"}
Open(kinds) == {c \in Calls : state[c] = "open" /\ Kind[c] \in kinds}
autoActiveRoots == Cardinality(Open({"trace"}))
Traces(s) == IF s = None THEN {} ELSE frames[s]
Running(g) == g \in Main \/ stack[g] # <<>>

ScopeInit ==
  /\ state = [c \in Calls |-> "new"]
  /\ scope = [c \in Calls |-> None] /\ previous = [c \in Calls |-> None]
  /\ home = [c \in Calls |-> 0] /\ frames = [c \in Calls |-> {}]
  /\ current = [g \in Goroutines |-> None]
  /\ stack = [g \in Goroutines |-> <<>>]

(* pushAutoScope *)
Push(c, g, s) ==
  /\ state[c] = "new"
  /\ state' = [state EXCEPT ![c] = "open"]
  /\ scope' = [scope EXCEPT ![c] = s]
  /\ previous' = [previous EXCEPT ![c] = current[g]]
  /\ home' = [home EXCEPT ![c] = g]
  /\ frames' = [frames EXCEPT ![c] =
       CASE Kind[c] = "trace" -> Traces(current[g]) \cup {c}
         [] Kind[c] = "node" -> Traces(current[g])
         [] OTHER -> {}]
  /\ current' = [current EXCEPT ![g] = s]
  /\ stack' = IF Kind[c] = "start" THEN stack ELSE [stack EXCEPT ![g] = Append(@, c)]

(* What each kind of call asks of the scope it is entered in: a span wants *)
(* no automatic one (checkMixedAutoSpan), Trace no explicit one, and a     *)
(* node is captured in an automatic one only, while some Trace is active.  *)
Mixed(c, g) ==
  CASE Kind[c] \in {"span", "start"} -> autoActiveRoots > 0 /\ Automatic(current[g])
    [] Kind[c] = "trace" -> Explicit(current[g])
    [] Kind[c] = "node" -> ~(autoActiveRoots > 0 /\ Automatic(current[g]))
    [] OTHER -> FALSE

EnterScope(c, g) ==
  /\ Running(g) /\ Kind[c] # "go" /\ ~Mixed(c, g)
  /\ Push(c, g, c)

(* A generated launch takes the scope along (CaptureAutoContext), if any   *)
(* capture is active, and the new goroutine runs in it (RunAutoContext).   *)
Go(c, g, h) ==
  /\ Kind[c] = "go" /\ Running(g)
  /\ autoActiveRoots > 0 /\ current[g] # None
  /\ ~Running(h) /\ \A d \in Calls : home[d] # h
  /\ Push(c, h, current[g])

EvenIfNot(c) == TRUE          \* a mutant: restores whatever is current
Restores(c) == current[home[c]] = scope[c]

(* The restore function of pushAutoScope. *)
Restore(c) ==
  current' = IF Restores(c) THEN [current EXCEPT ![home[c]] = previous[c]] ELSE current

Return(g) ==
  /\ stack[g] # <<>>
  /\ LET c == stack[g][Len(stack[g])] IN
       /\ state' = [state EXCEPT ![c] = "over"]
       /\ Restore(c)
  /\ stack' = [stack EXCEPT ![g] = SubSeq(@, 1, Len(@) - 1)]
  /\ UNCHANGED <<scope, previous, home, frames>>

(* ActiveSpan.End, by whoever has the span. *)
EndSpan(c) ==
  /\ Kind[c] = "start" /\ state[c] = "open"
  /\ state' = [state EXCEPT ![c] = "over"]
  /\ Restore(c)
  /\ UNCHANGED <<scope, previous, home, frames, stack>>

ScopeNext ==
  \/ \E c \in Calls, g \in Goroutines : EnterScope(c, g) \/ \E h \in Goroutines : Go(c, g, h)
  \/ \E g \in Goroutines : Return(g)
  \/ \E c \in Calls : EndSpan(c)

ScopeSpec == ScopeInit /\ [][ScopeNext]_scopeVars

------------------------------------------------------------------------------
Innermost(g) == stack[g][Len(stack[g])]

(* An automatic scope that still records: one of its traces is active. *)
Recording(s) == Automatic(s) /\ \E t \in Traces(s) : state[t] = "open"

(* A call that is captured automatically finds its own scope, and no       *)
(* goroutine that runs is left in the scope of a call that is over,        *)
(* however the spans around it are ended (pushAutoScope): nothing is       *)
(* recorded in a trace, or below a node, that it does not belong to.       *)
AutoScopeExact ==
  \A g \in Goroutines : Running(g) =>
    /\ Recording(current[g]) => stack[g] # <<>> /\ scope[Innermost(g)] = current[g]
    /\ stack[g] # <<>> /\ Recording(Innermost(g)) => current[g] = Innermost(g)

(* A Trace is refused with MixedTracingError inside a span only            *)
(* (subtree.go: it "prevents combining opt-in spans and automatic          *)
(* subtrees"): a goroutine in no span is not left in an explicit scope.    *)
TraceRefusedOnlyInsideSpan ==
  \A g \in Main : Explicit(current[g]) => \E c \in Open({"span", "start"}) : home[c] = g
=============================================================================
