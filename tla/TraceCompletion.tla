--------------------------- MODULE TraceCompletion ---------------------------
(***************************************************************************)
(* The completion tracker of trace_completion.go.  A trace's completion    *)
(* (the record that tells the server how many spans to expect) may be sent *)
(* only when every started span of the trace has ended.  Each exported     *)
(* method is one action: it runs under the tracker's mutex, and the        *)
(* completion callbacks it goes on to run are the value of called'.        *)
(***************************************************************************)
EXTENDS Integers, Sequences, FiniteSets

CONSTANTS
  Traces,     \* trace ids
  Spans,      \* span ids
  MaxClosed   \* closed traces remembered (1024 in the code)

ASSUME TrackerAssumption ==
  /\ IsFiniteSet(Spans)
  /\ MaxClosed \in Nat \ {0}

VARIABLES
  tracked,      \* traces that have a completionState
  spanIDs,      \* spans a completion of the trace counts
  active,       \* started spans that have not ended
  complete,     \* whether a completion waits for the active spans
  closed,       \* final count of a closed trace, NotClosed otherwise
  closedOrder,  \* closed traces, the oldest first
  called        \* completion callbacks run by the last call

vars == <<tracked, spanIDs, active, complete, closed, closedOrder, called>>

NotClosed == -1
IsClosed(t) == closed[t] # NotClosed

Completion == [trace : Traces, count : Nat]

TypeOK ==
  /\ tracked \in SUBSET Traces
  /\ spanIDs \in [Traces -> SUBSET Spans]
  /\ active \in [Traces -> SUBSET Spans]
  /\ complete \in [Traces -> BOOLEAN]
  /\ closed \in [Traces -> Nat \cup {NotClosed}]
  /\ closedOrder \in Seq(Traces)
  /\ called \in SUBSET Completion

Init ==
  /\ tracked = {}
  /\ spanIDs = [t \in Traces |-> {}]
  /\ active = [t \in Traces |-> {}]
  /\ complete = [t \in Traces |-> FALSE]
  /\ closed = [t \in Traces |-> NotClosed]
  /\ closedOrder = <<>>
  /\ called = {}

-----------------------------------------------------------------------------
(* The state of t, present or absent. *)
Store(t, ids, act, cmp) ==
  /\ tracked' = tracked \cup {t}
  /\ spanIDs' = [spanIDs EXCEPT ![t] = ids]
  /\ active' = [active EXCEPT ![t] = act]
  /\ complete' = [complete EXCEPT ![t] = cmp]

(* Wrong: the state of a trace survives. *)
DeleteNothing(t) == UNCHANGED <<tracked, spanIDs, active, complete>>

Delete(t) ==
  /\ tracked' = tracked \ {t}
  /\ spanIDs' = [spanIDs EXCEPT ![t] = {}]
  /\ active' = [active EXCEPT ![t] = {}]
  /\ complete' = [complete EXCEPT ![t] = FALSE]

Fits(order) == Len(order) <= MaxClosed

(* A closed trace is remembered with its count; past MaxClosed the oldest  *)
(* one is forgotten.                                                       *)
Remember(t, n) ==
  LET order == Append(closedOrder, t)
  IN \/ /\ Fits(order)
        /\ closedOrder' = order
        /\ closed' = [closed EXCEPT ![t] = n]
     \/ /\ ~Fits(order)
        /\ closedOrder' = Tail(order)
        /\ closed' = [closed EXCEPT ![t] = n, ![Head(order)] = NotClosed]

(* drain, on the state the caller has just brought t to. *)
Drain(t, ids, act, cmp) ==
  \/ /\ act # {} \/ ~cmp
     /\ Store(t, ids, act, cmp)
     /\ called' = {}
     /\ UNCHANGED <<closed, closedOrder>>
  \/ /\ act = {} /\ cmp
     /\ Delete(t)
     /\ Remember(t, Cardinality(ids))
     /\ called' = {[trace |-> t, count |-> Cardinality(ids)]}

NoOp ==
  /\ called' = {}
  /\ UNCHANGED <<tracked, spanIDs, active, complete, closed, closedOrder>>

(* An operation that only edits the state of t. *)
Edit(t, ids, act) ==
  /\ Store(t, ids, act, complete[t])
  /\ called' = {}
  /\ UNCHANGED <<closed, closedOrder>>

-----------------------------------------------------------------------------
(* Wrong: a closed trace is started again. *)
StartReopens(t, s) == Edit(t, spanIDs[t] \cup {s}, active[t] \cup {s})

Start(t, s) ==
  \/ IsClosed(t) /\ NoOp
  \/ ~IsClosed(t) /\ Edit(t, spanIDs[t] \cup {s}, active[t] \cup {s})

Open(t) ==
  \/ IsClosed(t) /\ NoOp
  \/ ~IsClosed(t) /\ Edit(t, spanIDs[t], active[t])

Record(t, s) ==
  \/ IsClosed(t) /\ NoOp
  \/ ~IsClosed(t) /\ Edit(t, spanIDs[t] \cup {s}, active[t])

Forget(t, s) ==
  \/ t \notin tracked /\ NoOp
  \/ t \in tracked /\ Edit(t, spanIDs[t] \ {s}, active[t])

End(t, s) ==
  \/ t \notin tracked /\ NoOp
  \/ t \in tracked /\ Drain(t, spanIDs[t], active[t] \ {s}, complete[t])

Abort(t, s) ==
  LET ids == spanIDs[t] \ {s}
      act == active[t] \ {s}
      empty == ids = {} /\ act = {} /\ ~complete[t]
  IN \/ t \notin tracked /\ NoOp
     \/ /\ t \in tracked /\ empty
        /\ Delete(t)
        /\ called' = {}
        /\ UNCHANGED <<closed, closedOrder>>
     \/ /\ t \in tracked /\ ~empty
        /\ Drain(t, ids, act, complete[t])

(* A second close of a closed trace repeats the count; a trace that was    *)
(* never seen, or was forgotten, is not completed at all.  The close of a  *)
(* dropped trace does not wait for its spans.                              *)
Close(t, dropped) ==
  \/ /\ IsClosed(t)
     /\ called' = {[trace |-> t, count |-> closed[t]]}
     /\ UNCHANGED <<tracked, spanIDs, active, complete, closed, closedOrder>>
  \/ ~IsClosed(t) /\ t \notin tracked /\ NoOp
  \/ /\ ~IsClosed(t) /\ t \in tracked
     /\ Drain(t, spanIDs[t], IF dropped THEN {} ELSE active[t], TRUE)

Next ==
  \E t \in Traces :
    \/ Open(t)
    \/ \E dropped \in BOOLEAN : Close(t, dropped)
    \/ \E s \in Spans : Start(t, s) \/ Record(t, s) \/ Forget(t, s)
                          \/ End(t, s) \/ Abort(t, s)

Spec == Init /\ [][Next]_vars

-----------------------------------------------------------------------------
(* The ledger of closed traces: closedOrder lists exactly the traces whose *)
(* count is remembered, each once, at most MaxClosed of them, and none of  *)
(* them still has live state (trace_completion.go drain, state).  An entry *)
(* listed twice would make a later eviction forget a live count.           *)
ClosedLedger ==
  /\ Len(closedOrder) <= MaxClosed
  /\ \A i, j \in 1..Len(closedOrder) :
       closedOrder[i] = closedOrder[j] => i = j
  /\ \A t \in Traces :
       IsClosed(t) <=> \E i \in 1..Len(closedOrder) : closedOrder[i] = t
  /\ \A t \in tracked : ~IsClosed(t)

(* No completion is stranded: a trace whose completion has been requested  *)
(* and not sent has a span whose end will send it (close, end and abort    *)
(* all drain; start, record and forget may not leave a drainable state).   *)
PendingWaits ==
  \A t \in Traces : complete[t] => t \in tracked /\ active[t] # {}

(* While a trace is remembered as closed its count never changes, so a     *)
(* repeated completion repeats the number the server was given first,      *)
(* whatever late spans start, end or are recorded in between.              *)
CountStable ==
  [][\A t \in Traces : IsClosed(t) /\ IsClosed(t)' => closed'[t] = closed[t]]_vars

(* A trace leaves the ledger only when it is the oldest one and another    *)
(* trace closes in the same step with the ledger full.                     *)
EvictsOldest ==
  [][\A t \in Traces :
       IsClosed(t) /\ ~IsClosed(t)' =>
         /\ t = Head(closedOrder) /\ Len(closedOrder) = MaxClosed
         /\ \E u \in Traces : ~IsClosed(u) /\ IsClosed(u)']_vars
=============================================================================
