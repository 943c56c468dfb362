---------------------------- MODULE SpanPipeline ----------------------------
(***************************************************************************)
(* The way of a span from its start to the transport: Client.Start or Span *)
(* registers it with the completion tracker, its end hands its payload to  *)
(* the content gate, a root's end hands over the completion as well, and   *)
(* the callbacks the gate runs update the tracker (http.go                 *)
(* sendSpanPayload, sendTracePayload).  CurrentTrace.Drop may come at any  *)
(* time: a span whose end finds its trace dropped is counted but not sent, *)
(* and a completion that says dropped waits for no span.  The module       *)
(* extends the tracker's, TraceCompletion, and takes the gate as an        *)
(* instance of SimulationPlan: what it adds is the code that wires them up.*)
(***************************************************************************)
EXTENDS TraceCompletion

CONSTANTS
  TraceOf, Roots, Kept, Unplanned, Ignored, Plans, MaxHeld, None,
  Parent,   \* the parent of each child span
  Nested    \* whether the host starts and ends a child while its parent is open

(* A trace has one root, and the parents of its other spans lead to it;    *)
(* the further roots that a seed or a replay may give a trace are left out.*)
ASSUME PipelineAssumption ==
  /\ Spans \cap Traces = {}
  /\ TraceOf \in [Spans -> Traces]
  /\ Roots \cup Kept \cup Unplanned \cup Ignored \in SUBSET Spans
  /\ Plans \in SUBSET SUBSET Spans
  /\ MaxHeld \in Nat \ {0}
  /\ None \notin Spans \cup Traces \cup {"reader", "closer"}
  /\ \A q, r \in Roots : TraceOf[q] = TraceOf[r] => q = r
  /\ \A s \in Spans \ Roots :
       Parent[s] \in Spans /\ TraceOf[Parent[s]] = TraceOf[s]
  /\ \A S \in SUBSET (Spans \ Roots) :
       S # {} => \E s \in S : Parent[s] \notin S
  /\ Nested \in BOOLEAN

VARIABLES
  loaded, contentOff, unavailable, closing, stopped, due, held, draining,
  drainer, batch, reader, skipped, outcome, closer, flush, owed, call, evicted,
  fate, allowed, ahead,
  phase,        \* where the goroutine of each span is
  wire,         \* spans handed to an open transport
  completions,  \* counts of the completions handed to an open transport
  dropped,      \* traces whose trace state says Dropped
  flagged,      \* traces whose completion says dropped
  asked         \* history: traces CurrentTrace.Drop was called for

Gate == INSTANCE SimulationPlan

gateVars ==
  <<loaded, contentOff, unavailable, closing, stopped, due, held, draining,
    drainer, batch, reader, skipped, outcome, closer, flush, owed, call,
    evicted, fate, allowed, ahead>>
dropVars == <<dropped, flagged, asked>>
pipelineVars == <<gateVars, vars, phase, wire, completions, dropVars>>

(* A span that was begun and whose deferred end has not run.               *)
Busy == {"open", "uploading", "sending", "completing", "closing"}

PipelineTypeOK ==
  /\ Gate!TypeOK /\ TypeOK
  /\ phase \in [Spans -> {"new", "ended"} \cup Busy]
  /\ wire \in SUBSET Spans
  /\ completions \in [Traces -> Seq(Nat)]
  /\ dropped \in SUBSET Traces /\ flagged \in SUBSET Traces /\ asked \in SUBSET Traces

PipelineInit ==
  /\ Gate!Init /\ Init
  /\ phase = [s \in Spans |-> "new"]
  /\ wire = {}
  /\ completions = [t \in Traces |-> <<>>]
  /\ dropped = {} /\ flagged = {} /\ asked = {}

-----------------------------------------------------------------------------
(* submit drops what arrives after close has taken the transport. *)
TransportClosed == closer = "shut"

Upload(s) == wire' = IF TransportClosed THEN wire ELSE wire \cup {s}

(* The completion callbacks of a tracker call submit the trace's payload.  *)
SubmitCompletions ==
  completions' =
    [t \in Traces |->
       IF TransportClosed THEN completions[t]
       ELSE completions[t] \o
              IF \E c \in called' : c.trace = t
              THEN <<(CHOOSE c \in called' : c.trace = t).count>> ELSE <<>>]

(* Wrong: a discarded span stays in its trace's count. *)
KeepSpan(s) == NoOp

ForgetSpan(s) == Forget(TraceOf[s], s)

(* The submit and discard closures of a span, and that of a completion,    *)
(* run in the step in which the record leaves the gate.                    *)
Leaves(r) == fate[r] = "none" /\ fate'[r] # "none"

Callback ==
  /\ \/ /\ \A r \in Gate!Records : ~Leaves(r)
        /\ NoOp /\ UNCHANGED wire
     \/ \E s \in Spans :
          /\ Leaves(s) /\ fate'[s] = "discarded"
          /\ ForgetSpan(s) /\ UNCHANGED wire
     \/ \E s \in Spans :
          /\ Leaves(s) /\ fate'[s] # "discarded"
          /\ Record(TraceOf[s], s) /\ Upload(s)
     \/ \E t \in Traces :
          /\ Leaves(t)
          /\ Close(t, t \in flagged) /\ UNCHANGED wire
  /\ SubmitCompletions

Wired == Callback /\ UNCHANGED <<phase, dropVars>>

GateStep ==
  /\ \/ \E r \in Gate!Records : Gate!Deliver(r) \/ Gate!Evict(r)
     \/ \E p \in Gate!Drainers : Gate!Drain(p)
     \/ Gate!Refresh \/ Gate!Tick \/ Gate!Reader
     \/ Gate!CloseBegin \/ Gate!Closer
  /\ Wired

-----------------------------------------------------------------------------
Children(s) == {c \in Spans \ Roots : Parent[c] = s}

(* Wrong: a span is not known to the tracker before it is sent. *)
StartUnknown(s) == NoOp

StartSpan(s) == Start(TraceOf[s], s)

(* beginSpan; the context of a span may be used after the span has ended. *)
Begin(s) ==
  /\ phase[s] = "new"
  /\ s \notin Roots => phase[Parent[s]] \in IF Nested THEN {"open"} ELSE Busy \cup {"ended"}
  /\ phase' = [phase EXCEPT ![s] = "open"]
  /\ StartSpan(s)
  /\ UNCHANGED <<gateVars, wire, completions, dropVars>>

(* CurrentTrace.Drop, through the context of any span of the trace; after  *)
(* the trace state was deleted it creates a new one.                       *)
Drop(t) ==
  /\ \E s \in Spans : TraceOf[s] = t /\ phase[s] # "new"
  /\ t \notin dropped
  /\ dropped' = dropped \cup {t}
  /\ asked' = asked \cup {t}
  /\ UNCHANGED <<gateVars, vars, phase, wire, completions, flagged>>

(* The span ends: it looks whether its trace is dropped, *)
EndSpan(s) ==
  /\ phase[s] = "open"
  /\ Nested => \A c \in Children(s) : phase[c] \in {"new", "ended"}
  /\ phase' = [phase EXCEPT ![s] = IF TraceOf[s] \in dropped THEN "sending" ELSE "uploading"]
  /\ UNCHANGED <<gateVars, vars, wire, completions, dropVars>>

(* hands its payload to the gate if it was not, *)
SendPayload(s) ==
  /\ phase[s] = "uploading"
  /\ phase' = [phase EXCEPT ![s] = "sending"]
  /\ Gate!SendSpan(s)
  /\ Callback
  /\ UNCHANGED dropVars

(* The call that hands the payload over has returned or was left out.      *)
Handled(s) == phase[s] = "sending" /\ call[s] \in {"idle", "done"}

(* then a root builds its trace's completion, which says whether the trace *)
(* is dropped by now, *)
BuildCompletion(s) ==
  /\ Handled(s) /\ s \in Roots
  /\ phase' = [phase EXCEPT ![s] = "completing"]
  /\ flagged' = flagged \cup (dropped \cap {TraceOf[s]})
  /\ UNCHANGED <<gateVars, vars, wire, completions, dropped, asked>>

(* sends it, *)
SendTraceCompletion(s) ==
  /\ phase[s] = "completing"
  /\ Gate!SendTrace(TraceOf[s])
  /\ Callback
  /\ UNCHANGED <<phase, dropVars>>

(* and deletes the trace state, *)
DeleteTraceState(s) ==
  /\ phase[s] = "completing" /\ call[TraceOf[s]] = "done"
  /\ phase' = [phase EXCEPT ![s] = "closing"]
  /\ dropped' = dropped \ {TraceOf[s]}
  /\ UNCHANGED <<gateVars, vars, wire, completions, flagged, asked>>

(* Wrong: an ended span stays active. *)
StayActive(s) == NoOp

EndInTracker(s) == End(TraceOf[s], s)

(* and last the deferred end of the tracker runs. *)
Finish(s) ==
  /\ \/ s \notin Roots /\ Handled(s)
     \/ phase[s] = "closing"
  /\ phase' = [phase EXCEPT ![s] = "ended"]
  /\ EndInTracker(s)
  /\ SubmitCompletions
  /\ UNCHANGED <<gateVars, wire, dropVars>>

Ending(s) ==
  \/ EndSpan(s) \/ SendPayload(s) \/ BuildCompletion(s)
  \/ SendTraceCompletion(s) \/ DeleteTraceState(s) \/ Finish(s)

PipelineNext ==
  \/ \E s \in Spans : Begin(s) \/ Ending(s)
  \/ \E t \in Traces : Drop(t)
  \/ GateStep

PipelineSpec == PipelineInit /\ [][PipelineNext]_pipelineVars

(* Goroutines that can run do; the host ends the spans it began.           *)
Fairness ==
  /\ WF_pipelineVars(Gate!Tick /\ Wired) /\ WF_pipelineVars(Gate!Reader /\ Wired)
  /\ WF_pipelineVars(Gate!Closer /\ Wired)
  /\ \A p \in Gate!Drainers : WF_pipelineVars(Gate!Drain(p) /\ Wired)
  /\ \A r \in Gate!Records : WF_pipelineVars((Gate!Deliver(r) \/ Gate!Evict(r)) /\ Wired)
  /\ \A s \in Spans : WF_pipelineVars(Ending(s))

FairSpec == PipelineSpec /\ Fairness

-----------------------------------------------------------------------------
SpansOf(t) == {s \in Spans : TraceOf[s] = t}

(* Spans that ended in a dropped trace: they are counted and not sent.     *)
Withheld ==
  {s \in Spans : phase[s] \notin {"new", "open", "uploading"} /\ call[s] = "idle"}

(* The pipeline keeps the promise of TraceUpload: a trace is announced at  *)
(* most once, when all its spans are settled, with the number of those     *)
(* uploaded and withheld, and if a span was withheld because of a Drop the *)
(* announcement says so.                                                   *)
Promise == INSTANCE TraceUpload WITH
  begun <- {s \in Spans : phase[s] # "new"},
  settled <- {s \in Spans : fate[s] # "none"} \cup Withheld,
  uploaded <- wire,
  withheld <- Withheld,
  announced <- completions,
  told <- {t \in flagged : completions[t] # <<>>}

KeepsPromise == Promise!Spec

(* A completion is never sent twice, and it waits for every span of its    *)
(* trace that is still running, a child that outlives its root included    *)
(* (TestTraceCompletionChildOutlivesRoot), unless it tells the server that *)
(* the trace is dropped, which only a call of Drop makes it do: that one   *)
(* goes as soon as it leaves the gate (trace_completion.go close).         *)
CompletionWaitsForSpans ==
  [][\A t \in Traces : completions'[t] # completions[t] =>
       /\ completions[t] = <<>>
       /\ \/ t \in flagged /\ t \in asked
          \/ \A s \in SpansOf(t) : phase'[s] \notin Busy]_pipelineVars

(* A root that ended is followed by its trace's completion, unless the     *)
(* client is closed first, whatever the plan read returns.                 *)
CompletionSent ==
  \A s \in Roots :
    phase[s] = "ended" ~> completions[TraceOf[s]] # <<>> \/ TransportClosed

(* In the wired pipeline every record handed to the gate leaves it, whether*)
(* the plan is ever read or not, and Close returns: neither drainMu nor a  *)
(* drain that is fed more records can block it for ever                    *)
(* (simulation_plan.go drain, readPlan, flushHeld, stop).                  *)
DrainsEnd == Gate!EveryRecordLeaves /\ Gate!CloseReturns
=============================================================================
