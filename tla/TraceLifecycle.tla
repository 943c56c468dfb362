--------------------------- MODULE TraceLifecycle ---------------------------
(***************************************************************************)
(* The life of a trace on the host's side: the trace state that            *)
(* CurrentTrace edits (span_context.go), the drop flag, the output         *)
(* finalizers that let a span end later on a goroutine of its own          *)
(* (finalize.go), and the completion that a root sends once no finalizer   *)
(* of its trace is pending (bitfab.go sendTraceCompletion).                *)
(*                                                                         *)
(* The content gate is open here: a record handed to it goes straight to   *)
(* the transport, as after a plan that leaves everything on has been read. *)
(* SpanPipeline has the gate and leaves out finalizers.                    *)
(***************************************************************************)
EXTENDS Integers, Sequences, FiniteSets

CONSTANTS
  Spans, Traces, TraceOf, Roots,
  Parent,      \* the parent of each child span
  Finalized,   \* spans created with an output finalizer
  MaxClosed,
  MaxStates,   \* bound on the trace states ever created
  None

(* A root starts a trace of its own, whose spans descend from it: beginSpan *)
(* takes the parent's trace, or an id that is new.  Two roots that a host  *)
(* begins under one seed or in one replayed item share its id and are left *)
(* out.                                                                    *)
ASSUME LifecycleAssumption ==
  /\ IsFiniteSet(Spans) /\ Roots \subseteq Spans /\ Finalized \subseteq Spans
  /\ TraceOf \in [Spans -> Traces]
  /\ \A q, r \in Roots : TraceOf[q] = TraceOf[r] => q = r
  /\ \A s \in Spans \ Roots : Parent[s] \in Spans /\ TraceOf[Parent[s]] = TraceOf[s]
  /\ None \notin Roots /\ MaxStates \in Nat

States == 1..MaxStates
Absent == 0

VARIABLES
  state,              \* traceStateStore: the state of each trace, or Absent
  made,               \* states created so far
  dropped, pendingFinalizers, completion,   \* the fields of each state
  autoPending, autoChan, autoClosed,        \* Client.autoPending and its channels
  pc, back,           \* where each span's goroutine is, where sending a completion returns
  async, ref,         \* spans that began a finalizer, the state it counts in
  job, snapshot,      \* whose completion a goroutine sends, from which state
  tracked, spanIDs, active, complete, closed, closedOrder, called,
  wire, sent,         \* spans and completions handed to the transport path
  flagged,            \* whether a trace's completion said dropped
  waiter, waitChan,   \* waitAutoFinalizers
  dropAsked, before, waitedFor,             \* history:
  lookedLate,         \* spans that looked at the flag after a drop was asked for
  builtLate           \* traces whose completion was built after one was

Tracker == INSTANCE TraceCompletion

stateVars == <<state, made, dropped, pendingFinalizers, completion>>
autoVars == <<autoPending, autoChan, autoClosed>>
goVars == <<back, async, ref, job, snapshot>>
trackerVars == <<tracked, spanIDs, active, complete, closed, closedOrder, called>>
outVars == <<wire, sent, flagged>>
waitVars == <<waiter, waitChan, waitedFor>>
lateVars == <<lookedLate, builtLate>>
askVars == <<dropAsked, lateVars>>
vars == <<stateVars, autoVars, pc, goVars, trackerVars, outVars, waitVars, askVars, before>>

TypeOK ==
  /\ state \in [Traces -> States \cup {Absent}] /\ made \in 0..MaxStates
  /\ dropped \in [States -> BOOLEAN]
  /\ pendingFinalizers \in [States -> 0..Cardinality(Finalized)]
  /\ completion \in [States -> Roots \cup {None}]
  /\ autoPending \in 0..Cardinality(Finalized)
  /\ autoChan \in Nat /\ autoClosed \in SUBSET (1..autoChan)
  /\ pc \in [Spans -> {"new", "open", "finalizing", "sending", "uploading", "checking",
                       "handing", "telling", "deleting", "ending", "done", "leaving", "ended"}]
  /\ back \in [Spans -> {"ending", "leaving"}]
  /\ async \in SUBSET Finalized
  /\ ref \in [Spans -> States \cup {Absent}]
  /\ job \in [Spans -> Roots \cup {None}]
  /\ snapshot \in [Spans -> States \cup {Absent}]
  /\ Tracker!TypeOK
  /\ wire \in SUBSET Spans /\ sent \in [Roots -> Nat] /\ flagged \in SUBSET Traces
  /\ waiter \in {"idle", "waiting", "settled"} /\ waitChan \in 0..autoChan
  /\ dropAsked \in SUBSET Traces
  /\ before \in [Roots -> SUBSET Spans] /\ waitedFor \in SUBSET Spans
  /\ lookedLate \in SUBSET Spans /\ builtLate \in SUBSET Traces

Init ==
  /\ state = [t \in Traces |-> Absent] /\ made = 0
  /\ dropped = [i \in States |-> FALSE]
  /\ pendingFinalizers = [i \in States |-> 0]
  /\ completion = [i \in States |-> None]
  /\ autoPending = 0 /\ autoChan = 0 /\ autoClosed = {}
  /\ pc = [s \in Spans |-> "new"] /\ back = [s \in Spans |-> "ending"]
  /\ async = {} /\ ref = [s \in Spans |-> Absent]
  /\ job = [s \in Spans |-> None] /\ snapshot = [s \in Spans |-> Absent]
  /\ Tracker!Init
  /\ wire = {} /\ sent = [r \in Roots |-> 0] /\ flagged = {}
  /\ waiter = "idle" /\ waitChan = 0 /\ waitedFor = {}
  /\ dropAsked = {} /\ before = [r \in Roots |-> {}]
  /\ lookedLate = {} /\ builtLate = {}

-----------------------------------------------------------------------------
Goto(s, label) == pc' = [pc EXCEPT ![s] = label]

(* createTraceState on a trace that has none. *)
Create(t) ==
  /\ made < MaxStates
  /\ made' = made + 1
  /\ state' = [state EXCEPT ![t] = made + 1]

CreatesState(s) == s \in Roots /\ state[TraceOf[s]] = Absent

(* beginSpan; the context of a span may be used after the span has ended. *)
Begin(s) ==
  /\ pc[s] = "new"
  /\ s \notin Roots => pc[Parent[s]] # "new"
  /\ Goto(s, "open")
  /\ IF CreatesState(s)
     THEN Create(TraceOf[s]) ELSE UNCHANGED <<state, made>>
  /\ Tracker!Start(TraceOf[s], s)
  /\ UNCHANGED <<dropped, pendingFinalizers, completion, autoVars, goVars,
                 outVars, waitVars, askVars, before>>

(* CurrentTrace.Drop, and the setters, which differ from it only in the    *)
(* field they write.  A handle outlives the trace; a state that is deleted *)
(* after the handle found it would be written to in vain, which is left out.*)
EditTrace(t, drops) ==
  /\ \E s \in Spans : TraceOf[s] = t /\ pc[s] # "new"
  /\ IF state[t] = Absent THEN Create(t) ELSE UNCHANGED <<state, made>>
  /\ dropped' = [dropped EXCEPT ![state'[t]] = @ \/ drops]
  /\ dropAsked' = IF drops THEN dropAsked \cup {t} ELSE dropAsked
  /\ UNCHANGED <<pendingFinalizers, completion, autoVars, pc, goVars,
                 trackerVars, outVars, waitVars, lateVars, before>>

-----------------------------------------------------------------------------
(* finalizeSpanOutput without a finalizer, or after an error. *)
End(s) ==
  /\ pc[s] = "open"
  /\ Goto(s, "sending")
  /\ UNCHANGED <<stateVars, autoVars, goVars, trackerVars, outVars, waitVars, askVars, before>>

(* Wrong: all finalizers share one channel. *)
SameChan == 1

NextChan == IF autoPending = 0 THEN autoChan + 1 ELSE autoChan

(* finalizeSpanOutput with one: beginSpanFinalizer, and a new goroutine. *)
EndFinalized(s) ==
  LET ts == state[TraceOf[s]]
  IN /\ pc[s] = "open" /\ s \in Finalized
     /\ autoPending' = autoPending + 1
     /\ autoChan' = NextChan
     /\ async' = async \cup {s}
     /\ ref' = [ref EXCEPT ![s] = ts]
     /\ pendingFinalizers' = [i \in States |-> pendingFinalizers[i] + IF i = ts THEN 1 ELSE 0]
     /\ Goto(s, "finalizing")
     /\ UNCHANGED <<state, made, dropped, completion, autoClosed, back, job,
                    snapshot, trackerVars, outVars, waitVars, askVars, before>>

Finalize(s) ==
  /\ pc[s] = "finalizing"
  /\ Goto(s, "sending")
  /\ UNCHANGED <<stateVars, autoVars, goVars, trackerVars, outVars, waitVars, askVars, before>>

(* Whether the state now in the store, if any, says that t is dropped. *)
IsDropped(t) == state[t] # Absent /\ dropped[state[t]]

(* A span that is done with its payload goes on, a root to its completion. *)
Onward(s) ==
  \/ /\ s \in Roots
     /\ Goto(s, "checking")
     /\ job' = [job EXCEPT ![s] = s] /\ back' = [back EXCEPT ![s] = "ending"]
     /\ before' = [before EXCEPT ![s] =
          {c \in async : TraceOf[c] = TraceOf[s]
                           /\ pc[c] \in {"finalizing", "sending", "uploading", "ending", "done"}}]
  \/ s \notin Roots /\ Goto(s, "ending") /\ UNCHANGED <<job, back, before>>

Delivered(t) == \E r \in Roots : TraceOf[r] = t /\ sent[r] > 0

(* The span looks whether its trace is dropped, *)
CheckDropped(s) ==
  LET t == TraceOf[s]
  IN /\ pc[s] = "sending"
     /\ \/ IsDropped(t) /\ Onward(s)
        \/ ~IsDropped(t) /\ Goto(s, "uploading") /\ UNCHANGED <<job, back, before>>
     /\ lookedLate' = IF t \in dropAsked /\ ~Delivered(t) THEN lookedLate \cup {s} ELSE lookedLate
     /\ UNCHANGED <<stateVars, autoVars, async, ref, snapshot, trackerVars, outVars, waitVars,
                    dropAsked, builtLate>>

(* and uploads its payload if it was not. *)
SendPayload(s) ==
  /\ pc[s] = "uploading"
  /\ Tracker!Record(TraceOf[s], s) /\ wire' = wire \cup {s}
  /\ Onward(s)
  /\ UNCHANGED <<stateVars, autoVars, async, ref, snapshot, sent, flagged, waitVars, askVars>>

-----------------------------------------------------------------------------
(* Wrong: a completion never waits. *)
NeverWaits(t) == FALSE

WaitsForFinalizers(t) == state[t] # Absent /\ pendingFinalizers[state[t]] > 0

(* Wrong: a deferred completion is built without the trace state. *)
NoSnapshot(s) == IF back[s] = "leaving" THEN Absent ELSE state[TraceOf[s]]

Snapshot(s) == state[TraceOf[s]]

(* sendTraceCompletion: it leaves the completion with the state while a    *)
(* finalizer is pending,                                                   *)
CheckFinalizers(s) ==
  LET t == TraceOf[s]
  IN /\ pc[s] = "checking"
     /\ \/ /\ WaitsForFinalizers(t)
           /\ completion' = [completion EXCEPT ![state[t]] = job[s]]
           /\ job' = [job EXCEPT ![s] = None]
           /\ Goto(s, back[s])
           /\ UNCHANGED snapshot
        \/ /\ ~WaitsForFinalizers(t)
           /\ snapshot' = [snapshot EXCEPT ![s] = Snapshot(s)]
           /\ Goto(s, "handing")
           /\ UNCHANGED <<completion, job>>
     /\ UNCHANGED <<state, made, dropped, pendingFinalizers, autoVars, back, async,
                    ref, trackerVars, outVars, waitVars, askVars, before>>

(* else builds the payload, which says whether the trace is dropped by now, *)
BuildCompletion(s) ==
  LET t == TraceOf[s]
  IN /\ pc[s] = "handing"
     /\ flagged' = IF snapshot[s] # Absent /\ dropped[snapshot[s]] THEN flagged \cup {t} ELSE flagged
     /\ builtLate' = IF t \in dropAsked THEN builtLate \cup {t} ELSE builtLate
     /\ Goto(s, "telling")
     /\ UNCHANGED <<stateVars, autoVars, goVars, trackerVars, wire, sent, waitVars,
                    dropAsked, lookedLate, before>>

(* hands it over, *)
HandOver(s) ==
  /\ pc[s] = "telling"
  /\ Tracker!Close(TraceOf[s], TraceOf[s] \in flagged)
  /\ sent' = [sent EXCEPT ![job[s]] = @ + 1]
  /\ Goto(s, "deleting")
  /\ UNCHANGED <<stateVars, autoVars, goVars, wire, flagged, waitVars, askVars, before>>

(* and deletes the trace state. *)
DeleteState(s) ==
  /\ pc[s] = "deleting"
  /\ state' = [state EXCEPT ![TraceOf[s]] = Absent]
  /\ job' = [job EXCEPT ![s] = None]
  /\ Goto(s, back[s])
  /\ UNCHANGED <<made, dropped, pendingFinalizers, completion, autoVars, back, async,
                 ref, snapshot, trackerVars, outVars, waitVars, askVars, before>>

(* The deferred traceCompletion.end. *)
EndTracked(s) ==
  /\ pc[s] = "ending"
  /\ Tracker!End(TraceOf[s], s)
  /\ Goto(s, IF s \in async THEN "done" ELSE "ended")
  /\ UNCHANGED <<stateVars, autoVars, goVars, outVars, waitVars, askVars, before>>

(* Wrong: a finalizer leaves the current state, not the one it is counted in. *)
CurrentState(s) == state[TraceOf[s]]

CountedIn(s) == ref[s]

LastPending(i) == i # Absent /\ pendingFinalizers[i] = 1

(* Wrong: a completion that is taken stays with the state. *)
Untaken(i) == completion

Taken(i) == [completion EXCEPT ![i] = None]

(* A finalizer's done: the last one pending takes the completion, *)
FinalizerDone(s) ==
  LET ts == CountedIn(s)
      last == LastPending(ts)
      taken == IF last THEN completion[ts] ELSE None
  IN /\ pc[s] = "done"
     /\ pendingFinalizers' = [i \in States |-> pendingFinalizers[i] - IF i = ts THEN 1 ELSE 0]
     /\ completion' = IF last THEN Taken(ts) ELSE completion
     /\ job' = [job EXCEPT ![s] = taken]
     /\ back' = [back EXCEPT ![s] = "leaving"]
     /\ Goto(s, IF taken = None THEN "leaving" ELSE "checking")
     /\ UNCHANGED <<state, made, dropped, autoVars, async, ref, snapshot,
                    trackerVars, outVars, waitVars, askVars, before>>

(* and only then stops being waited for by the client. *)
LeaveClient(s) ==
  /\ pc[s] = "leaving"
  /\ autoPending' = autoPending - 1
  /\ autoClosed' = IF autoPending = 1 THEN autoClosed \cup {autoChan} ELSE autoClosed
  /\ Goto(s, "ended")
  /\ UNCHANGED <<stateVars, autoChan, goVars, trackerVars, outVars, waitVars, askVars, before>>

-----------------------------------------------------------------------------
(* waitAutoFinalizers, of FlushTraces and Close.  A waiter that times out  *)
(* answers false.                                                          *)
WaitBegin ==
  /\ waiter = "idle"
  /\ waiter' = IF autoPending = 0 THEN "settled" ELSE "waiting"
  /\ waitChan' = autoChan
  /\ waitedFor' = {s \in async : pc[s] # "ended"}
  /\ UNCHANGED <<stateVars, autoVars, pc, goVars, trackerVars, outVars, askVars, before>>

WaitEnd ==
  /\ waiter = "waiting" /\ waitChan \in autoClosed
  /\ waiter' = "settled"
  /\ UNCHANGED <<stateVars, autoVars, pc, goVars, trackerVars, outVars, waitChan,
                 waitedFor, askVars, before>>

Next ==
  \/ \E s \in Spans :
       \/ Begin(s) \/ End(s) \/ EndFinalized(s) \/ Finalize(s)
       \/ CheckDropped(s) \/ SendPayload(s)
       \/ CheckFinalizers(s) \/ BuildCompletion(s) \/ HandOver(s) \/ DeleteState(s)
       \/ EndTracked(s)
       \/ FinalizerDone(s) \/ LeaveClient(s)
  \/ \E t \in Traces, drops \in BOOLEAN : EditTrace(t, drops)
  \/ WaitBegin \/ WaitEnd

Spec == Init /\ [][Next]_vars

-----------------------------------------------------------------------------
Holding(r) ==
  {s \in Spans : job[s] = r /\ pc[s] \in {"checking", "handing", "telling"}}
    \cup {i \in States : completion[i] = r}

(* The completion a root owes is never lost or duplicated on its way       *)
(* between the root's goroutine, the trace state that waits for the        *)
(* finalizers and the finalizer goroutine that takes it: it is in one of   *)
(* these places or has been handed over, once (finalize.go, bitfab.go      *)
(* sendTraceCompletion); where it is left with a trace state there is a    *)
(* finalizer that will take it.                                            *)
CompletionConserved ==
  /\ \A r \in Roots :
       Cardinality(Holding(r)) + sent[r] =
         IF pc[r] \in {"new", "open", "finalizing", "sending", "uploading"} THEN 0 ELSE 1
  /\ \A i \in States : completion[i] # None => pendingFinalizers[i] > 0

(* A root's completion is handed over only after every finalizer of its    *)
(* trace that was running when the root was sent has finished, so what the *)
(* finalizers recorded is in it                                            *)
(* (TestSpanFinalize_RootWaitsForDroppedChildAndMetadata).                 *)
FinalizersFirst ==
  [][\A r \in Roots : sent'[r] > sent[r] =>
       \A c \in before[r] :
         pc[c] \notin {"finalizing", "sending", "uploading", "ending", "done"}]_vars

(* A completion built after its trace was asked to be dropped says so when *)
(* it is handed over, on whatever goroutine the drop was asked and however *)
(* long the completion was deferred; and a span that looked at the flag    *)
(* after a drop, while the completion was still owed, is not uploaded      *)
(* (TestTraceCompletion_Drop).  What was read before the drop may go out   *)
(* after it: such a span is scrubbed by the server (bitfab.go).            *)
DropHonoured ==
  /\ \A r \in Roots : sent[r] > 0 /\ TraceOf[r] \in builtLate => TraceOf[r] \in flagged
  /\ wire \cap lookedLate = {}

(* When waitAutoFinalizers has settled, every finalizer begun before the   *)
(* wait has finished, the completion it took included, though others may   *)
(* have begun and a new channel been made meanwhile.                       *)
FinalizersSettled == waiter = "settled" => \A s \in waitedFor : pc[s] = "ended"
=============================================================================
