-------------------------- MODULE SpanPipelineProofs --------------------------
(***************************************************************************)
(* Proofs about the way of a span to the transport: first the tracker by   *)
(* itself, for every set of traces, every finite set of spans and every    *)
(* ledger size; then the pipeline, for every gate and tracker, every tree  *)
(* of spans and every order of their goroutines: a completion waits for    *)
(* all running spans of its trace, and the pipeline implements TraceUpload.*)
(***************************************************************************)
EXTENDS SpanPipeline, FiniteSetTheorems, SequenceTheorems, TLAPS

GateProofs == INSTANCE SimulationPlanProofs


(* The count of a completion is a natural number, as the tracked span ids  *)
(* are finitely many.                                                      *)
LEMMA CountNat ==
  ASSUME NEW ids \in SUBSET Spans
  PROVE  Cardinality(ids) \in Nat
  BY TrackerAssumption, FS_Subset, FS_CardinalityType

(* Whatever state drain is handed, it leaves a well-typed tracker.         *)
LEMMA DrainType ==
  ASSUME TypeOK,
         NEW t \in Traces, NEW ids \in SUBSET Spans,
         NEW act \in SUBSET Spans, NEW cmp \in BOOLEAN,
         Drain(t, ids, act, cmp)
  PROVE  TypeOK'
  <1>1. CASE act # {} \/ ~cmp
    BY <1>1 DEF Drain, Store, TypeOK
  <1>2. CASE act = {} /\ cmp
    <2> DEFINE n == Cardinality(ids)
               order == Append(closedOrder, t)
    <2>1. n \in Nat
      BY CountNat
    <2>2. Delete(t) /\ Remember(t, n) /\ called' = {[trace |-> t, count |-> n]}
      BY <1>2 DEF Drain
    <2>3. /\ tracked' \in SUBSET Traces
          /\ spanIDs' \in [Traces -> SUBSET Spans]
          /\ active' \in [Traces -> SUBSET Spans]
          /\ complete' \in [Traces -> BOOLEAN]
      BY <2>2 DEF Delete, TypeOK
    <2>4. called' \in SUBSET Completion
      BY <2>1, <2>2 DEF Completion
    <2>5. order \in Seq(Traces) /\ order # <<>>
      BY DEF TypeOK
    <2>6. closed' \in [Traces -> Nat \cup {NotClosed}]
      BY <2>1, <2>2 DEF Remember, Fits, TypeOK, NotClosed
    <2>7. closedOrder' \in Seq(Traces)
      BY <2>2, <2>5 DEF Remember, Fits
    <2> QED
      BY <2>3, <2>4, <2>6, <2>7 DEF TypeOK
  <1> QED
    BY <1>1, <1>2

(* Every operation keeps the tracker well typed.                           *)
LEMMA StepType ==
  ASSUME TypeOK, [Next]_vars
  PROVE  TypeOK'
  <1>1. CASE UNCHANGED vars
    BY <1>1 DEF TypeOK, vars
  <1>2. ASSUME NEW t \in Traces, Open(t)
        PROVE  TypeOK'
    BY <1>2 DEF Open, NoOp, Edit, Store, TypeOK
  <1>3. ASSUME NEW t \in Traces, NEW atOnce \in BOOLEAN, Close(t, atOnce)
        PROVE  TypeOK'
    <2>1. CASE IsClosed(t)
      <3>1. closed[t] \in Nat
        BY <2>1 DEF IsClosed, TypeOK
      <3>2. called' \in SUBSET Completion
        BY <1>3, <2>1, <3>1 DEF Close, Completion, NoOp
      <3> QED
        BY <1>3, <2>1, <3>2 DEF Close, NoOp, TypeOK
    <2>2. CASE ~IsClosed(t) /\ t \notin tracked
      BY <1>3, <2>2 DEF Close, NoOp, TypeOK
    <2>3. CASE ~IsClosed(t) /\ t \in tracked
      <3>1. Drain(t, spanIDs[t], IF atOnce THEN {} ELSE active[t], TRUE)
        BY <1>3, <2>3 DEF Close
      <3>2. /\ spanIDs[t] \in SUBSET Spans
            /\ (IF atOnce THEN {} ELSE active[t]) \in SUBSET Spans
        BY DEF TypeOK
      <3> QED
        BY <3>1, <3>2, DrainType
    <2> QED
      BY <2>1, <2>2, <2>3
  <1>4. ASSUME NEW t \in Traces, NEW s \in Spans,
               Start(t, s) \/ Record(t, s) \/ Forget(t, s)
        PROVE  TypeOK'
    BY <1>4 DEF Start, Record, Forget, NoOp, Edit, Store, TypeOK
  <1>5. ASSUME NEW t \in Traces, NEW s \in Spans, End(t, s)
        PROVE  TypeOK'
    <2>1. CASE t \notin tracked
      BY <1>5, <2>1 DEF End, NoOp, TypeOK
    <2>2. CASE t \in tracked
      <3>1. Drain(t, spanIDs[t], active[t] \ {s}, complete[t])
        BY <1>5, <2>2 DEF End
      <3>2. /\ spanIDs[t] \in SUBSET Spans
            /\ active[t] \ {s} \in SUBSET Spans
            /\ complete[t] \in BOOLEAN
        BY DEF TypeOK
      <3> QED
        BY <3>1, <3>2, DrainType
    <2> QED
      BY <2>1, <2>2
  <1>6. ASSUME NEW t \in Traces, NEW s \in Spans, Abort(t, s)
        PROVE  TypeOK'
    <2> DEFINE ids == spanIDs[t] \ {s}
               act == active[t] \ {s}
    <2>1. ids \in SUBSET Spans /\ act \in SUBSET Spans /\ complete[t] \in BOOLEAN
      BY DEF TypeOK
    <2>2. CASE t \notin tracked
      BY <1>6, <2>2 DEF Abort, NoOp, TypeOK
    <2>3. CASE t \in tracked /\ ids = {} /\ act = {} /\ ~complete[t]
      BY <1>6, <2>3 DEF Abort, Delete, TypeOK
    <2>4. CASE t \in tracked /\ ~(ids = {} /\ act = {} /\ ~complete[t])
      <3>1. Drain(t, ids, act, complete[t])
        BY <1>6, <2>4 DEF Abort
      <3> QED
        BY <2>1, <3>1, DrainType
    <2> QED
      BY <2>2, <2>3, <2>4
  <1> QED
    BY <1>1, <1>2, <1>3, <1>4, <1>5, <1>6 DEF Next

(* The tracker's state always has its type, whatever its callers do.       *)
THEOREM TrackerTypeCorrect == Spec => []TypeOK
  <1>1. Init => TypeOK
    BY DEF Init, TypeOK, NotClosed
  <1>2. TypeOK /\ [Next]_vars => TypeOK'
    BY StepType
  <1> QED
    BY <1>1, <1>2, PTL DEF Spec
-----------------------------------------------------------------------------
(* A step that leaves the ledger alone and tracks no closed trace keeps    *)
(* ClosedLedger.                                                           *)
LEMMA LedgerUntouched ==
  ASSUME ClosedLedger, UNCHANGED <<closed, closedOrder>>,
         \A t \in tracked' : ~IsClosed(t)
  PROVE  ClosedLedger'
  BY DEF ClosedLedger, IsClosed

(* Closing a trace that is not in the ledger keeps the ledger exact: it is *)
(* appended once, and what eviction forgets is what leaves closedOrder.    *)
LEMMA RememberLedger ==
  ASSUME TypeOK, ClosedLedger,
         NEW t \in Traces, ~IsClosed(t),
         NEW n \in Nat, Remember(t, n)
  PROVE  /\ Len(closedOrder') <= MaxClosed
         /\ \A i, j \in 1..Len(closedOrder') :
              closedOrder'[i] = closedOrder'[j] => i = j
         /\ \A u \in Traces :
              IsClosed(u)' <=> \E i \in 1..Len(closedOrder') : closedOrder'[i] = u
         /\ \A u \in Traces : IsClosed(u)' => IsClosed(u) \/ u = t
         /\ \A u \in Traces :
              IsClosed(u) /\ IsClosed(u)' => closed'[u] = closed[u]
         /\ \A u \in Traces : IsClosed(u) /\ ~IsClosed(u)' =>
              u = Head(closedOrder) /\ Len(closedOrder) = MaxClosed /\ IsClosed(t)'
  <1> DEFINE order == Append(closedOrder, t)
             L == Len(closedOrder)
  <1>1. /\ closedOrder \in Seq(Traces)
        /\ L \in Nat
        /\ L <= MaxClosed
        /\ MaxClosed \in Nat /\ MaxClosed >= 1
        /\ closed \in [Traces -> Nat \cup {NotClosed}]
    BY TrackerAssumption, LenProperties DEF TypeOK, ClosedLedger
  <1>2. /\ order \in Seq(Traces)
        /\ order # <<>>
        /\ Len(order) = L + 1
        /\ \A i \in 1..L : order[i] = closedOrder[i]
        /\ order[L + 1] = t
    BY <1>1, AppendProperties
  <1>3. \A i, j \in 1..(L + 1) : order[i] = order[j] => i = j
    <2>1. \A i \in 1..L : closedOrder[i] # t
      BY DEF ClosedLedger
    <2> QED
      BY <1>1, <1>2, <2>1 DEF ClosedLedger
  <1>4. \A u \in Traces :
          (IsClosed(u) \/ u = t) <=> \E i \in 1..(L + 1) : order[i] = u
    BY <1>1, <1>2 DEF ClosedLedger
  <1>5. CASE Len(order) <= MaxClosed
    <2>1. closedOrder' = order /\ closed' = [closed EXCEPT ![t] = n]
      BY <1>1, <1>2, <1>5 DEF Remember, Fits
    <2>2. \A u \in Traces : IsClosed(u)' <=> IsClosed(u) \/ u = t
      BY <1>1, <2>1 DEF IsClosed, NotClosed
    <2>3. \A u \in Traces : IsClosed(u) => closed'[u] = closed[u]
      BY <1>1, <2>1
    <2> QED
      BY <1>2, <1>3, <1>4, <1>5, <2>1, <2>2, <2>3
  <1>6. CASE Len(order) > MaxClosed
    <2> DEFINE h == Head(order)
    <2>1. /\ closedOrder' = Tail(order)
          /\ closed' = [closed EXCEPT ![t] = n, ![h] = NotClosed]
      BY <1>1, <1>2, <1>6 DEF Remember, Fits
    <2>2. L = MaxClosed
      BY <1>1, <1>2, <1>6
    <2>3. /\ h = order[1] /\ h \in Traces
          /\ Len(Tail(order)) = L
          /\ \A i \in 1..L : Tail(order)[i] = order[i + 1]
      BY <1>1, <1>2, HeadTailProperties
    <2>4. h = Head(closedOrder)
      BY <1>1, <1>2, <2>2, <2>3
    <2>5. h # t
      BY <1>1, <1>2, <1>3, <2>2, <2>3
    <2>6. \A u \in Traces : IsClosed(u)' <=> (IsClosed(u) \/ u = t) /\ u # h
      BY <1>1, <2>1, <2>3, <2>5 DEF IsClosed, NotClosed
    <2>7. \A u \in Traces :
            (\E i \in 1..L : Tail(order)[i] = u)
              <=> (\E i \in 1..(L + 1) : order[i] = u) /\ u # h
      <3>1. ASSUME NEW i \in 1..L
            PROVE  Tail(order)[i] = order[i + 1] /\ order[i + 1] # h
        BY <1>1, <1>3, <2>3
      <3>2. ASSUME NEW i \in 1..(L + 1), order[i] # h
            PROVE  i - 1 \in 1..L /\ Tail(order)[i - 1] = order[i]
        BY <1>1, <2>3, <3>2
      <3>3. ASSUME NEW u \in Traces, \E i \in 1..L : Tail(order)[i] = u
            PROVE  (\E i \in 1..(L + 1) : order[i] = u) /\ u # h
        BY <1>1, <3>1, <3>3
      <3>4. ASSUME NEW u \in Traces, \E i \in 1..(L + 1) : order[i] = u, u # h
            PROVE  \E i \in 1..L : Tail(order)[i] = u
        BY <1>1, <3>2, <3>4
      <3> QED
        BY <3>3, <3>4
    <2>8. \A i, j \in 1..L : Tail(order)[i] = Tail(order)[j] => i = j
      BY <1>1, <1>3, <2>3
    <2>9. \A u \in Traces : IsClosed(u) /\ IsClosed(u)' => closed'[u] = closed[u]
      BY <1>1, <2>1, <2>3, <2>6 DEF IsClosed
    <2>10. \A u \in Traces :
             IsClosed(u)' <=> \E i \in 1..L : Tail(order)[i] = u
      <3> HIDE DEF h, order, L
      <3> QED
        BY <1>4, <2>6, <2>7
    <2>11. IsClosed(t)'
      BY <2>5, <2>6
    <2> HIDE DEF h, order, L
    <2>12. L <= MaxClosed
      BY <1>1
    <2>13. \A u \in Traces : IsClosed(u) /\ ~IsClosed(u)' =>
             u = Head(closedOrder) /\ Len(closedOrder) = MaxClosed
      <3>1. Len(closedOrder) = MaxClosed
        BY <2>2 DEF L
      <3> QED
        BY <2>4, <2>6, <3>1
    <2> QED
      BY <2>1, <2>3, <2>6, <2>8, <2>9, <2>10, <2>11, <2>12, <2>13
  <1> QED
    BY <1>1, <1>2, <1>5, <1>6
-----------------------------------------------------------------------------
(* What one operation does to the ledger and to the waiting completions.   *)
StepGood ==
  /\ ClosedLedger'
  /\ PendingWaits'
  /\ \A u \in Traces : IsClosed(u) /\ IsClosed(u)' => closed'[u] = closed[u]
  /\ \A u \in Traces :
       IsClosed(u) /\ ~IsClosed(u)' =>
         /\ u = Head(closedOrder) /\ Len(closedOrder) = MaxClosed
         /\ \E v \in Traces : ~IsClosed(v) /\ IsClosed(v)'

(* An operation that closes nothing.                                       *)
LEMMA QuietGood ==
  ASSUME ClosedLedger, PendingWaits', UNCHANGED <<closed, closedOrder>>,
         \A u \in tracked' : ~IsClosed(u)
  PROVE  StepGood
  BY DEF StepGood, ClosedLedger, IsClosed

LEMMA NoOpGood ==
  ASSUME ClosedLedger, PendingWaits, NoOp
  PROVE  StepGood
  BY QuietGood DEF NoOp, ClosedLedger, PendingWaits

(* Editing the state of an open trace is harmless unless it takes away the *)
(* last active span a completion waits for.                                *)
LEMMA EditGood ==
  ASSUME TypeOK, ClosedLedger, PendingWaits,
         NEW t \in Traces, ~IsClosed(t),
         NEW ids, NEW act, complete[t] => act # {},
         Edit(t, ids, act)
  PROVE  StepGood
  <1>1. PendingWaits' /\ \A u \in tracked' : ~IsClosed(u)
    BY DEF Edit, Store, TypeOK, ClosedLedger, PendingWaits
  <1> QED
    BY <1>1, QuietGood DEF Edit

(* Dropping the state of a trace without closing it.                       *)
LEMMA DeleteGood ==
  ASSUME TypeOK, ClosedLedger, PendingWaits, NEW t \in Traces,
         Delete(t), UNCHANGED <<closed, closedOrder>>
  PROVE  StepGood
  <1>1. PendingWaits' /\ \A u \in tracked' : ~IsClosed(u)
    BY DEF Delete, TypeOK, ClosedLedger, PendingWaits
  <1> QED
    BY <1>1, QuietGood

LEMMA DrainGood ==
  ASSUME TypeOK, ClosedLedger, PendingWaits,
         NEW t \in Traces, ~IsClosed(t),
         NEW ids \in SUBSET Spans, NEW act \in SUBSET Spans, NEW cmp \in BOOLEAN,
         Drain(t, ids, act, cmp)
  PROVE  StepGood
  <1>1. CASE act # {} \/ ~cmp
    <2>1. Store(t, ids, act, cmp) /\ UNCHANGED <<closed, closedOrder>>
      BY <1>1 DEF Drain
    <2>2. PendingWaits' /\ \A u \in tracked' : ~IsClosed(u)
      BY <1>1, <2>1 DEF Store, TypeOK, ClosedLedger, PendingWaits
    <2> QED
      BY <2>1, <2>2, QuietGood
  <1>2. CASE act = {} /\ cmp
    <2> DEFINE n == Cardinality(ids)
    <2>1. Delete(t) /\ Remember(t, n) /\ n \in Nat
      BY <1>2, CountNat DEF Drain
    <2> HIDE DEF n
    <2>2. /\ tracked' = tracked \ {t}
          /\ PendingWaits'
      BY <2>1 DEF Delete, TypeOK, PendingWaits
    <2>3. \A u \in tracked' : ~IsClosed(u)'
      BY <2>1, <2>2, RememberLedger DEF ClosedLedger, TypeOK
    <2>4. ClosedLedger'
      BY <2>1, <2>3, RememberLedger DEF ClosedLedger
    <2> QED
      BY <2>1, <2>2, <2>4, RememberLedger DEF StepGood
  <1> QED
    BY <1>1, <1>2

(* Every operation keeps the ledger exact and leaves no completion         *)
(* stranded: one case per method of the tracker.                           *)
LEMMA StepKeepsGood ==
  ASSUME TypeOK, ClosedLedger, PendingWaits, [Next]_vars
  PROVE  StepGood
  <1>1. CASE UNCHANGED vars
    BY <1>1 DEF vars, StepGood, ClosedLedger, PendingWaits, IsClosed
  <1>2. ASSUME NEW t \in Traces, Open(t)
        PROVE  StepGood
    BY <1>2, NoOpGood, EditGood DEF Open, PendingWaits
  <1>3. ASSUME NEW t \in Traces, NEW atOnce \in BOOLEAN, Close(t, atOnce)
        PROVE  StepGood
    <2>1. CASE IsClosed(t)
      <3>1. UNCHANGED <<tracked, active, complete, closed, closedOrder>>
        BY <1>3, <2>1 DEF Close, NoOp
      <3> QED
        BY <3>1, QuietGood DEF ClosedLedger, PendingWaits
    <2>2. CASE ~IsClosed(t) /\ t \notin tracked
      BY <1>3, <2>2, NoOpGood DEF Close
    <2>3. CASE ~IsClosed(t) /\ t \in tracked
      <3> DEFINE act == IF atOnce THEN {} ELSE active[t]
      <3>1. Drain(t, spanIDs[t], act, TRUE)
        BY <1>3, <2>3 DEF Close
      <3>2. spanIDs[t] \in SUBSET Spans /\ act \in SUBSET Spans
        BY DEF TypeOK
      <3> QED
        BY <2>3, <3>1, <3>2, DrainGood
    <2> QED
      BY <2>1, <2>2, <2>3
  <1>4. ASSUME NEW t \in Traces, NEW s \in Spans, Start(t, s)
        PROVE  StepGood
    BY <1>4, NoOpGood, EditGood DEF Start
  <1>5. ASSUME NEW t \in Traces, NEW s \in Spans, Record(t, s)
        PROVE  StepGood
    BY <1>5, NoOpGood, EditGood DEF Record, PendingWaits
  <1>6. ASSUME NEW t \in Traces, NEW s \in Spans, Forget(t, s)
        PROVE  StepGood
    BY <1>6, NoOpGood, EditGood DEF Forget, PendingWaits, ClosedLedger
  <1>7. ASSUME NEW t \in Traces, NEW s \in Spans, End(t, s)
        PROVE  StepGood
    <2>1. CASE t \notin tracked
      BY <1>7, <2>1, NoOpGood DEF End
    <2>2. CASE t \in tracked
      <3>1. Drain(t, spanIDs[t], active[t] \ {s}, complete[t])
        BY <1>7, <2>2 DEF End
      <3>2. /\ spanIDs[t] \in SUBSET Spans
            /\ active[t] \ {s} \in SUBSET Spans
            /\ complete[t] \in BOOLEAN
            /\ ~IsClosed(t)
        BY <2>2 DEF TypeOK, ClosedLedger
      <3> QED
        BY <3>1, <3>2, DrainGood
    <2> QED
      BY <2>1, <2>2
  <1>8. ASSUME NEW t \in Traces, NEW s \in Spans, Abort(t, s)
        PROVE  StepGood
    <2> DEFINE ids == spanIDs[t] \ {s}
               act == active[t] \ {s}
               empty == ids = {} /\ act = {} /\ ~complete[t]
    <2>1. CASE t \notin tracked
      BY <1>8, <2>1, NoOpGood DEF Abort
    <2>2. CASE t \in tracked /\ empty
      <3>1. Delete(t) /\ UNCHANGED <<closed, closedOrder>>
        BY <1>8, <2>2 DEF Abort
      <3> QED
        BY <3>1, DeleteGood
    <2>3. CASE t \in tracked /\ ~empty
      <3>1. Drain(t, ids, act, complete[t])
        BY <1>8, <2>3 DEF Abort
      <3>2. /\ ids \in SUBSET Spans /\ act \in SUBSET Spans
            /\ complete[t] \in BOOLEAN /\ ~IsClosed(t)
        BY <2>3 DEF TypeOK, ClosedLedger
      <3> QED
        BY <3>1, <3>2, DrainGood
    <2> QED
      BY <2>1, <2>2, <2>3
  <1> QED
    BY <1>1, <1>2, <1>3, <1>4, <1>5, <1>6, <1>7, <1>8 DEF Next

-----------------------------------------------------------------------------
(* The ledger is exact and no completion is stranded in any reachable      *)
(* state.  TypeOK /\ ClosedLedger /\ PendingWaits is inductive: the ledger *)
(* part needs that a trace with live state is not in the ledger, so that   *)
(* drain appends it once, and PendingWaits needs ClosedLedger to know that *)
(* an operation on a closed trace does nothing.                            *)
THEOREM LedgerExact == Spec => [](ClosedLedger /\ PendingWaits)
  <1> DEFINE Good == ClosedLedger /\ PendingWaits
  <1>1. Init => Good
    BY TrackerAssumption DEF Init, ClosedLedger, PendingWaits, IsClosed
  <1>2. TypeOK /\ Good /\ [Next]_vars => Good'
    BY StepKeepsGood DEF StepGood
  <1> QED
    BY <1>1, <1>2, TrackerTypeCorrect, PTL DEF Spec

(* A remembered count never changes.                                       *)
THEOREM CountNeverChanges == Spec => CountStable
  <1>1. TypeOK /\ ClosedLedger /\ PendingWaits /\ [Next]_vars
          => [\A t \in Traces : IsClosed(t) /\ IsClosed(t)' => closed'[t] = closed[t]]_vars
    BY StepKeepsGood DEF StepGood
  <1> QED
    BY <1>1, TrackerTypeCorrect, LedgerExact, PTL DEF Spec, CountStable

(* Only a full ledger forgets, and it forgets its oldest trace.            *)
THEOREM OnlyOldestForgotten == Spec => EvictsOldest
  <1>1. TypeOK /\ ClosedLedger /\ PendingWaits /\ [Next]_vars
          => [\A t \in Traces :
                IsClosed(t) /\ ~IsClosed(t)' =>
                  /\ t = Head(closedOrder) /\ Len(closedOrder) = MaxClosed
                  /\ \E u \in Traces : ~IsClosed(u) /\ IsClosed(u)']_vars
    BY StepKeepsGood DEF StepGood
  <1> QED
    BY <1>1, TrackerTypeCorrect, LedgerExact, PTL DEF Spec, EvictsOldest

-----------------------------------------------------------------------------
(* The gate of the pipeline is the gate of SimulationPlanProofs: what is   *)
(* proved of it there holds here.                                          *)
Records == Spans \cup Traces

LEMMA RecordNames ==
  /\ Gate!Records = Records /\ GateProofs!Records = Records
  /\ Gate!Drainers = {"reader", "closer"} /\ GateProofs!Drainers = {"reader", "closer"}
BY DEF Records, Gate!Records, GateProofs!Records, Gate!Drainers, GateProofs!Drainers

LEMMA GatePlan ==
  /\ Spans \cap Traces = {}
  /\ TraceOf \in [Spans -> Traces]
  /\ Roots \cup Kept \cup Unplanned \cup Ignored \in SUBSET Spans
  /\ Plans \in SUBSET SUBSET Spans
  /\ MaxHeld \in Nat \ {0}
  /\ None \notin GateProofs!Records \cup GateProofs!Drainers
BY PipelineAssumption, RecordNames DEF Records

LEMMA GateCalls ==
  /\ \A s : Gate!SendSpan(s) <=> GateProofs!SendSpan(s)
  /\ \A t : Gate!SendTrace(t) <=> GateProofs!SendTrace(t)
<1> USE DEF Gate!Hold, GateProofs!Hold, Gate!Fits, GateProofs!Fits,
            Gate!Refreshed, GateProofs!Refreshed, Gate!Pass, GateProofs!Pass,
            Gate!planVars, GateProofs!planVars, Gate!flushVars, GateProofs!flushVars
<1>1. \A s : Gate!SendSpan(s) <=> GateProofs!SendSpan(s)
  BY DEF Gate!SendSpan, GateProofs!SendSpan, Gate!HoldsSpan, GateProofs!HoldsSpan
<1>2. \A t : Gate!SendTrace(t) <=> GateProofs!SendTrace(t)
  BY DEF Gate!SendTrace, GateProofs!SendTrace, Gate!HoldsTrace, GateProofs!HoldsTrace,
         Gate!SpanHeld, GateProofs!SpanHeld
<1> QED
  BY <1>1, <1>2

LEMMA GateWork ==
  /\ \A r : Gate!Deliver(r) <=> GateProofs!Deliver(r)
  /\ \A r : Gate!Evict(r) <=> GateProofs!Evict(r)
  /\ \A p : Gate!Drain(p) <=> GateProofs!Drain(p)
  /\ Gate!Refresh <=> GateProofs!Refresh
  /\ Gate!Tick <=> GateProofs!Tick
  /\ Gate!Reader <=> GateProofs!Reader
  /\ Gate!CloseBegin <=> GateProofs!CloseBegin
  /\ Gate!Closer <=> GateProofs!Closer
<1> USE DEF Gate!planVars, GateProofs!planVars, Gate!flushVars, GateProofs!flushVars,
            Gate!queueVars, GateProofs!queueVars, Gate!readerVars, GateProofs!readerVars,
            Gate!callVars, GateProofs!callVars, Gate!Refreshed, GateProofs!Refreshed
<1>1. \A r : Gate!Deliver(r) <=> GateProofs!Deliver(r)
  BY DEF Gate!Deliver, GateProofs!Deliver, Gate!Form, GateProofs!Form,
         Gate!NoPlanComes, GateProofs!NoPlanComes, Gate!WithoutPlan, GateProofs!WithoutPlan
<1>2. \A r : Gate!Evict(r) <=> GateProofs!Evict(r)
  BY DEF Gate!Evict, GateProofs!Evict, Gate!FormWithoutPlan, GateProofs!FormWithoutPlan,
         Gate!WithoutPlan, GateProofs!WithoutPlan
<1>3. \A p : Gate!DrainOne(p) <=> GateProofs!DrainOne(p)
  BY DEF Gate!DrainOne, GateProofs!DrainOne, Gate!Form, GateProofs!Form,
         Gate!NoPlanComes, GateProofs!NoPlanComes, Gate!WithoutPlan, GateProofs!WithoutPlan
<1>4. \A p : Gate!DrainMore(p) <=> GateProofs!DrainMore(p)
  BY DEF Gate!DrainMore, GateProofs!DrainMore, Gate!HeldMeanwhile, GateProofs!HeldMeanwhile,
         Gate!ClearHeld, GateProofs!ClearHeld, Gate!UnlockDrainMu, GateProofs!UnlockDrainMu
<1>5. Gate!Refresh <=> GateProofs!Refresh
  BY DEF Gate!Refresh, GateProofs!Refresh
<1>6. Gate!Tick <=> GateProofs!Tick
  BY DEF Gate!Tick, GateProofs!Tick
<1>7. \A p : Gate!TakeHeld(p) <=> GateProofs!TakeHeld(p)
  BY DEF Gate!TakeHeld, GateProofs!TakeHeld, Gate!ClearHeld, GateProofs!ClearHeld
<1>8. /\ Gate!ReaderBegin <=> GateProofs!ReaderBegin
      /\ Gate!ReaderRead <=> GateProofs!ReaderRead
      /\ Gate!ReaderExit <=> GateProofs!ReaderExit
  BY DEF Gate!ReaderBegin, GateProofs!ReaderBegin, Gate!ReaderRead, GateProofs!ReaderRead,
         Gate!ReaderExit, GateProofs!ReaderExit
<1>9. Gate!ReaderLock <=> GateProofs!ReaderLock
  BY <1>7 DEF Gate!ReaderLock, GateProofs!ReaderLock
<1>10. Gate!FlushHeld <=> GateProofs!FlushHeld
  BY <1>7 DEF Gate!FlushHeld, GateProofs!FlushHeld
<1>11. Gate!Stop <=> GateProofs!Stop
  BY DEF Gate!Stop, GateProofs!Stop
<1>12. Gate!CloseBegin <=> GateProofs!CloseBegin
  BY DEF Gate!CloseBegin, GateProofs!CloseBegin
<1> QED
  BY <1>1, <1>2, <1>3, <1>4, <1>5, <1>6, <1>8, <1>9, <1>10, <1>11, <1>12
     DEF Gate!Drain, GateProofs!Drain, Gate!Reader, GateProofs!Reader,
         Gate!Closer, GateProofs!Closer

LEMMA GateStarts == Gate!Init <=> GateProofs!Init
BY DEF Gate!Init, GateProofs!Init, Gate!Records, GateProofs!Records,
       Gate!Drainers, GateProofs!Drainers

LEMMA GateVars == UNCHANGED gateVars => UNCHANGED GateProofs!vars
BY DEF gateVars, GateProofs!vars, GateProofs!planVars, GateProofs!queueVars,
       GateProofs!readerVars, GateProofs!callVars, GateProofs!flushVars

(* The steps of an ending span that only read or write the trace state.    *)
Looks(s) == EndSpan(s) \/ BuildCompletion(s) \/ DeleteTraceState(s)

(* What the gate guarantees, in the words of SimulationPlanProofs.         *)
GateFacts ==
  GateProofs!TypeOK /\ GateProofs!Conserved /\ GateProofs!CompletionFollowsSpans

LEMMA GateHoldsHere == PipelineSpec => []GateFacts
<1>1. PipelineInit => GateProofs!Init
  BY GateStarts DEF PipelineInit
<1>2. [PipelineNext]_pipelineVars => [GateProofs!Next]_(GateProofs!vars)
  <2> SUFFICES ASSUME [PipelineNext]_pipelineVars PROVE [GateProofs!Next]_(GateProofs!vars)
    OBVIOUS
  <2>1. ASSUME NEW s \in Spans, Begin(s) \/ Finish(s) \/ Looks(s) PROVE UNCHANGED GateProofs!vars
    BY <2>1, GateVars DEF Begin, Finish, Looks, EndSpan, BuildCompletion, DeleteTraceState
  <2>2. ASSUME NEW s \in Spans, SendPayload(s) PROVE GateProofs!Next
    BY <2>2, GateCalls DEF SendPayload, GateProofs!Next
  <2>3. ASSUME NEW s \in Spans, SendTraceCompletion(s) PROVE GateProofs!Next
    BY <2>3, GateCalls, PipelineAssumption DEF SendTraceCompletion, GateProofs!Next
  <2>4. ASSUME GateStep PROVE GateProofs!Next
    BY <2>4, GateWork, RecordNames DEF GateStep, GateProofs!Next
  <2>5. UNCHANGED pipelineVars => UNCHANGED GateProofs!vars
    BY GateVars DEF pipelineVars
  <2>6. ASSUME NEW t \in Traces, Drop(t) PROVE UNCHANGED GateProofs!vars
    BY <2>6, GateVars DEF Drop
  <2> QED
    BY <2>1, <2>2, <2>3, <2>4, <2>5, <2>6 DEF PipelineNext, Ending, Looks
<1>3. PipelineSpec => GateProofs!Spec
  BY <1>1, <1>2, PTL DEF PipelineSpec, GateProofs!Spec
<1>4. GateProofs!Spec => []GateProofs!CompletionFollowsSpans
  BY GateProofs!CompletionInOrder, GatePlan
<1>5. GateProofs!Spec =>
        [](GateProofs!TypeOK /\ GateProofs!Gated /\ GateProofs!Emptied
             /\ GateProofs!Conserved /\ GateProofs!Settled)
  BY GateProofs!GateHolds, GatePlan
<1> QED
  BY <1>3, <1>4, <1>5, PTL DEF GateFacts

-----------------------------------------------------------------------------
(* What a step of the pipeline does to one record, to the tracker and to   *)
(* the transport.                                                          *)
OneOut(r) ==
  /\ fate[r] = "none" /\ fate'[r] # "none"
  /\ \A d \in Records : d # r => fate'[d] = fate[d]

Quiet == fate' = fate /\ NoOp /\ UNCHANGED <<wire, completions>>

Discarded(s) ==
  OneOut(s) /\ fate'[s] = "discarded" /\ ForgetSpan(s) /\ UNCHANGED <<wire, completions>>

Uploaded(s) ==
  /\ OneOut(s) /\ fate'[s] # "discarded"
  /\ Record(TraceOf[s], s) /\ Upload(s) /\ UNCHANGED completions

Completed(t) ==
  OneOut(t) /\ Close(t, t \in flagged) /\ UNCHANGED wire /\ SubmitCompletions

LEMMA SubmitNothing ==
  ASSUME completions \in [Traces -> Seq(Nat)], called' = {}, SubmitCompletions
  PROVE  completions' = completions
<1>1. \A t \in Traces : completions[t] \o <<>> = completions[t]
  BY ConcatEmptySeq
<1>2. \A t \in Traces : ~\E c \in called' : c.trace = t
  OBVIOUS
<1>3. \A t \in Traces : completions'[t] = completions[t]
  BY <1>1, <1>2 DEF SubmitCompletions
<1>4. completions' = [t \in Traces |-> completions'[t]]
  BY DEF SubmitCompletions
<1> QED
  BY <1>3, <1>4

LEMMA SubmitOne ==
  ASSUME completions \in [Traces -> Seq(Nat)], NEW t \in Traces, NEW n \in Nat,
         called' = {[trace |-> t, count |-> n]}, SubmitCompletions
  PROVE  /\ completions' \in [Traces -> Seq(Nat)]
         /\ \A u \in Traces : u # t => completions'[u] = completions[u]
         /\ TransportClosed => completions' = completions
         /\ ~TransportClosed => completions'[t] = completions[t] \o <<n>>
<1>1. \A u \in Traces : completions[u] \o <<>> = completions[u]
  BY ConcatEmptySeq
<1>2. \A u \in Traces : (\E c \in called' : c.trace = u) <=> u = t
  OBVIOUS
<1>3. (CHOOSE c \in called' : c.trace = t).count = n
  <2>1. (CHOOSE c \in called' : c.trace = t) = [trace |-> t, count |-> n]
    OBVIOUS
  <2> QED
    BY <2>1
<1>4. \A u \in Traces : u # t => completions'[u] = completions[u]
  BY <1>1, <1>2 DEF SubmitCompletions
<1>5. completions'[t] = IF TransportClosed THEN completions[t] ELSE completions[t] \o <<n>>
  BY <1>2, <1>3 DEF SubmitCompletions
<1>6. completions' = [u \in Traces |-> completions'[u]]
  BY DEF SubmitCompletions
<1>7. \A u \in Traces : completions'[u] \in Seq(Nat)
  <2>1. completions[t] \o <<n>> \in Seq(Nat)
    BY ConcatProperties
  <2> QED
    BY <1>4, <1>5, <2>1
<1>8. TransportClosed => \A u \in Traces : completions'[u] = completions[u]
  BY <1>4, <1>5
<1> QED
  BY <1>4, <1>5, <1>6, <1>7, <1>8

(* The callbacks, by the record that leaves. *)
LEMMA CallbackForms ==
  ASSUME completions \in [Traces -> Seq(Nat)], Callback,
         fate' = fate \/ \E r \in Records : OneOut(r)
  PROVE  \/ Quiet
         \/ \E s \in Spans : Discarded(s) \/ Uploaded(s)
         \/ \E t \in Traces : Completed(t)
<1>1. CASE fate' = fate
  <2>1. \A r : ~Leaves(r)
    BY <1>1 DEF Leaves
  <2>2. NoOp /\ UNCHANGED wire /\ SubmitCompletions
    BY <2>1 DEF Callback
  <2> QED
    BY <1>1, <2>2, SubmitNothing DEF NoOp, Quiet
<1>2. ASSUME NEW r \in Records, OneOut(r)
      PROVE  \/ \E s \in Spans : Discarded(s) \/ Uploaded(s)
             \/ \E t \in Traces : Completed(t)
  <2>1. Leaves(r) /\ \A d \in Records : Leaves(d) => d = r
    BY <1>2 DEF OneOut, Leaves
  <2>2. \A s \in Spans : s \in Records /\ TraceOf[s] \in Traces
    BY PipelineAssumption DEF Records
  <2>3. ASSUME NEW s \in Spans, Leaves(s), fate'[s] = "discarded", ForgetSpan(s), UNCHANGED wire
        PROVE  Discarded(s)
    BY <1>2, <2>1, <2>2, <2>3, SubmitNothing
       DEF Discarded, ForgetSpan, Forget, NoOp, Edit, Callback
  <2>4. ASSUME NEW s \in Spans, Leaves(s), fate'[s] # "discarded", Record(TraceOf[s], s), Upload(s)
        PROVE  Uploaded(s)
    BY <1>2, <2>1, <2>2, <2>4, SubmitNothing
       DEF Uploaded, Record, NoOp, Edit, Callback
  <2>5. ASSUME NEW t \in Traces, Leaves(t), Close(t, t \in flagged), UNCHANGED wire
        PROVE  Completed(t)
    BY <1>2, <2>1, <2>5 DEF Completed, Callback, Records
  <2> QED
    BY <2>1, <2>3, <2>4, <2>5, RecordNames DEF Callback
<1> QED
  BY <1>1, <1>2

LEMMA GateStepForms ==
  ASSUME completions \in [Traces -> Seq(Nat)], GateFacts, GateStep
  PROVE  /\ \/ Quiet
            \/ \E s \in Spans : Discarded(s) \/ Uploaded(s)
            \/ \E t \in Traces : Completed(t)
         /\ phase' = phase /\ ahead' = ahead /\ UNCHANGED dropVars
         /\ \A d \in Records :
              /\ call'[d] = "idle" <=> call[d] = "idle"
              /\ call[d] = "done" => call'[d] = "done"
         /\ TransportClosed => TransportClosed'
<1>1. \/ \E r \in GateProofs!Records : GateProofs!Deliver(r) \/ GateProofs!Evict(r)
      \/ \E p \in GateProofs!Drainers : GateProofs!Drain(p)
      \/ GateProofs!Refresh \/ GateProofs!Tick \/ GateProofs!Reader
      \/ GateProofs!CloseBegin \/ GateProofs!Closer
  BY GateWork, RecordNames DEF GateStep
<1>2. /\ \/ fate' = fate
         \/ \E r \in GateProofs!Records :
              /\ fate[r] = "none" /\ fate'[r] # "none"
              /\ \A d \in GateProofs!Records : d # r => fate'[d] = fate[d]
      /\ \A d \in GateProofs!Records :
           /\ call'[d] = "idle" <=> call[d] = "idle"
           /\ call[d] = "done" => call'[d] = "done"
      /\ ahead' = ahead
      /\ closer = "shut" => closer' = "shut"
  BY <1>1, GateProofs!OneLeaves, GatePlan DEF GateFacts
<1>3. fate' = fate \/ \E r \in Records : OneOut(r)
  BY <1>2, RecordNames DEF OneOut
<1>4. Callback /\ phase' = phase /\ UNCHANGED dropVars
  BY DEF GateStep, Wired
<1> QED
  BY <1>2, <1>3, <1>4, CallbackForms, RecordNames DEF TransportClosed

(* A call that hands a record to the gate. *)
LEMMA HandOverForms ==
  ASSUME completions \in [Traces -> Seq(Nat)], GateFacts, NEW r \in Records,
         \/ r \in Spans /\ Gate!SendSpan(r)
         \/ r \in Traces /\ Gate!SendTrace(r),
         Callback
  PROVE  /\ Quiet /\ call[r] = "idle" /\ call'[r] # "idle"
         /\ \A d \in Records : d # r => call'[d] = call[d]
         /\ closer' = closer
<1>1. /\ r \in GateProofs!Records /\ GateProofs!TypeOK
      /\ GateProofs!Hold(r) \/ GateProofs!Pass(r)
      /\ call[r] = "idle" /\ fate' = fate /\ closer' = closer
  BY GateCalls, RecordNames DEF GateFacts, GateProofs!SendSpan, GateProofs!SendTrace
<1>2. /\ call'[r] # "idle"
      /\ \A d \in GateProofs!Records : d # r => call'[d] = call[d]
  BY <1>1, GateProofs!HandOver, GatePlan
<1>3. Quiet
  <2>1. \A d : ~Leaves(d)
    BY <1>1 DEF Leaves
  <2> QED
    BY <1>1, <2>1, SubmitNothing DEF Callback, NoOp, Quiet
<1> QED
  BY <1>1, <1>2, <1>3, RecordNames

-----------------------------------------------------------------------------
(* The pipeline types its variables and keeps the tracker's ledger.        *)
Typed ==
  /\ TypeOK
  /\ phase \in [Spans -> {"new", "ended"} \cup Busy]
  /\ wire \in SUBSET Spans
  /\ completions \in [Traces -> Seq(Nat)]
  /\ asked \in SUBSET Traces /\ dropped \in SUBSET asked /\ flagged \in SUBSET asked

LEMMA SpanTyped ==
  ASSUME NEW s \in Spans
  PROVE  s \in Records /\ TraceOf[s] \in Traces
BY PipelineAssumption DEF Records

(* What a look at the trace state leaves alone. *)
LEMMA LookForms ==
  ASSUME Typed, NEW s \in Spans, Looks(s)
  PROVE  /\ UNCHANGED <<gateVars, vars, wire, completions, asked>>
         /\ phase[s] \in Busy
         /\ \E p \in Busy : phase' = [phase EXCEPT ![s] = p]
         /\ dropped' \in SUBSET asked' /\ flagged' \in SUBSET asked'
<1>1. CASE EndSpan(s)
  BY <1>1 DEF EndSpan, dropVars, Typed, Busy
<1>2. CASE BuildCompletion(s)
  BY <1>2 DEF BuildCompletion, Handled, Typed, Busy
<1>3. CASE DeleteTraceState(s)
  BY <1>3 DEF DeleteTraceState, Typed, Busy
<1> QED
  BY <1>1, <1>2, <1>3 DEF Looks

(* Whatever the pipeline does, it calls the tracker once or not at all.    *)
LEMMA StepTracker ==
  ASSUME Typed, GateFacts, [PipelineNext]_pipelineVars
  PROVE  [Next]_vars \/ NoOp
<1>1. ASSUME NEW s \in Spans, Begin(s) PROVE Next
  BY <1>1, SpanTyped DEF Begin, StartSpan, Next
<1>2. ASSUME NEW s \in Spans, Finish(s) PROVE Next
  BY <1>2, SpanTyped DEF Finish, EndInTracker, Next
<1>3. ASSUME NEW s \in Spans, SendPayload(s) PROVE NoOp
  BY <1>3, SpanTyped, HandOverForms DEF SendPayload, Quiet, Typed
<1>4. ASSUME NEW s \in Spans, SendTraceCompletion(s) PROVE NoOp
  BY <1>4, SpanTyped, HandOverForms DEF SendTraceCompletion, Quiet, Typed, Records
<1>5. CASE GateStep
  <2>1. ASSUME NEW s \in Spans, Discarded(s) PROVE Next
    BY <2>1, SpanTyped DEF Discarded, ForgetSpan, Next
  <2>2. ASSUME NEW s \in Spans, Uploaded(s) PROVE Next
    BY <2>2, SpanTyped DEF Uploaded, Next
  <2>3. ASSUME NEW t \in Traces, Completed(t) PROVE Next
    <3>1. PICK atOnce \in BOOLEAN : atOnce <=> t \in flagged
      OBVIOUS
    <3>2. Close(t, atOnce)
      <4>1. CASE t \in flagged
        BY <2>3, <3>1, <4>1 DEF Completed, Close
      <4>2. CASE t \notin flagged
        BY <2>3, <3>1, <4>2 DEF Completed, Close
      <4> QED
        BY <4>1, <4>2
    <3> QED
      BY <3>2 DEF Next
  <2> QED
    BY <1>5, <2>1, <2>2, <2>3, GateStepForms DEF Quiet, Typed
<1>6. UNCHANGED pipelineVars => UNCHANGED vars
  BY DEF pipelineVars
<1>7. ASSUME NEW s \in Spans, Looks(s) PROVE UNCHANGED vars
  BY <1>7, LookForms
<1>8. ASSUME NEW t \in Traces, Drop(t) PROVE UNCHANGED vars
  BY <1>8 DEF Drop
<1> QED
  BY <1>1, <1>2, <1>3, <1>4, <1>5, <1>6, <1>7, <1>8 DEF PipelineNext, Ending, Looks

(* What drain leaves behind: the trace it worked on, open or closed, *)
LEMMA DrainDoes ==
  ASSUME TypeOK, ClosedLedger, NEW t \in Traces, ~IsClosed(t),
         NEW ids \in SUBSET Spans, NEW act \in SUBSET Spans, NEW cmp \in BOOLEAN,
         Drain(t, ids, act, cmp)
  PROVE  /\ \A u \in Traces : u # t =>
              /\ spanIDs'[u] = spanIDs[u] /\ active'[u] = active[u]
              /\ complete'[u] = complete[u]
              /\ u \in tracked' <=> u \in tracked
              /\ IsClosed(u)' => IsClosed(u)
         /\ \/ /\ act # {} \/ ~cmp
               /\ called' = {} /\ t \in tracked' /\ ~IsClosed(t)'
               /\ spanIDs'[t] = ids /\ active'[t] = act /\ complete'[t] = cmp
            \/ /\ act = {} /\ cmp
               /\ called' = {[trace |-> t, count |-> Cardinality(ids)]}
               /\ t \notin tracked' /\ active'[t] = {} /\ complete'[t] = FALSE
<1>1. CASE act # {} \/ ~cmp
  BY <1>1 DEF Drain, Store, TypeOK, IsClosed
<1>2. CASE act = {} /\ cmp
  <2>1. PICK n : n = Cardinality(ids)
    OBVIOUS
  <2>2. /\ Delete(t) /\ Remember(t, n) /\ n \in Nat
        /\ called' = {[trace |-> t, count |-> n]}
    BY <1>2, <2>1, CountNat DEF Drain
  <2>3. \A u \in Traces : IsClosed(u)' => IsClosed(u) \/ u = t
    BY <2>2, RememberLedger
  <2> QED
    BY <1>2, <2>1, <2>2, <2>3 DEF Delete, TypeOK
<1> QED
  BY <1>1, <1>2

(* and an edit. *)
LEMMA EditDoes ==
  ASSUME TypeOK, NEW t \in Traces, NEW ids, NEW act, Edit(t, ids, act)
  PROVE  /\ \A u \in Traces : u # t =>
              /\ spanIDs'[u] = spanIDs[u] /\ active'[u] = active[u]
              /\ u \in tracked' <=> u \in tracked
         /\ complete' = complete /\ closed' = closed /\ called' = {}
         /\ t \in tracked' /\ spanIDs'[t] = ids /\ active'[t] = act
BY DEF Edit, Store, TypeOK

LEMMA StepTyped ==
  ASSUME Typed, ClosedLedger, PendingWaits, GateFacts, [PipelineNext]_pipelineVars
  PROVE  Typed' /\ ClosedLedger' /\ PendingWaits'
<1>1. TypeOK' /\ ClosedLedger' /\ PendingWaits'
  BY StepTracker, StepType, StepKeepsGood, NoOpGood DEF StepGood, Typed, NoOp, TypeOK
<1>2. ASSUME called' = {} \/ \E t \in Traces, n \in Nat : called' = {[trace |-> t, count |-> n]},
             SubmitCompletions
      PROVE  completions' \in [Traces -> Seq(Nat)]
  BY <1>2, SubmitNothing, SubmitOne DEF Typed
<1>3. ASSUME NEW t \in Traces, Close(t, t \in flagged)
      PROVE  called' = {} \/ \E n \in Nat : called' = {[trace |-> t, count |-> n]}
  <2>1. CASE IsClosed(t)
    BY <1>3, <2>1 DEF Close, IsClosed, Typed, TypeOK
  <2>2. spanIDs[t] \in SUBSET Spans
    BY DEF Typed, TypeOK
  <2> QED
    BY <1>3, <2>1, <2>2, CountNat DEF Close, NoOp, Drain
<1>4. ASSUME NEW s \in Spans, EndInTracker(s)
      PROVE  called' = {} \/ \E n \in Nat : called' = {[trace |-> TraceOf[s], count |-> n]}
  <2>1. spanIDs[TraceOf[s]] \in SUBSET Spans
    BY SpanTyped DEF Typed, TypeOK
  <2> QED
    BY <1>4, <2>1, CountNat DEF EndInTracker, End, NoOp, Drain
<1>5. ASSUME NEW s \in Spans, Begin(s) PROVE Typed'
  BY <1>1, <1>5 DEF Begin, dropVars, Typed, Busy
<1>6. ASSUME NEW s \in Spans, Finish(s) PROVE Typed'
  <2>1. completions' \in [Traces -> Seq(Nat)]
    BY <1>2, <1>4, <1>6, SpanTyped DEF Finish
  <2> QED
    BY <1>1, <1>6, <2>1 DEF Finish, dropVars, Typed
<1>7. ASSUME NEW s \in Spans, SendPayload(s) PROVE Typed'
  <2>1. Quiet
    BY <1>7, SpanTyped, HandOverForms DEF SendPayload, Typed
  <2> QED
    BY <1>1, <1>7, <2>1 DEF SendPayload, dropVars, Typed, Quiet, Busy
<1>8. ASSUME NEW s \in Spans, SendTraceCompletion(s) PROVE Typed'
  <2>1. Quiet
    BY <1>8, SpanTyped, HandOverForms DEF SendTraceCompletion, Typed, Records
  <2> QED
    BY <1>1, <1>8, <2>1 DEF SendTraceCompletion, dropVars, Typed, Quiet
<1>9. ASSUME GateStep PROVE Typed'
  <2>1. phase' = phase /\ UNCHANGED <<dropped, flagged, asked>>
    BY <1>9, GateStepForms DEF Typed, dropVars
  <2>2. CASE Quiet \/ \E s \in Spans : Discarded(s) \/ Uploaded(s)
    <3>1. wire' \in SUBSET Spans /\ completions' = completions
      BY <2>2 DEF Quiet, Discarded, Uploaded, Upload, Typed
    <3> QED
      BY <1>1, <2>1, <3>1 DEF Typed
  <2>3. ASSUME NEW t \in Traces, Completed(t) PROVE Typed'
    <3>1. completions' \in [Traces -> Seq(Nat)] /\ wire' = wire
      BY <1>2, <1>3, <2>3 DEF Completed
    <3> QED
      BY <1>1, <2>1, <3>1 DEF Typed
  <2> QED
    BY <1>9, <2>2, <2>3, GateStepForms DEF Typed
<1>10. CASE UNCHANGED pipelineVars
  BY <1>1, <1>10 DEF pipelineVars, dropVars, Typed
<1>11. ASSUME NEW s \in Spans, Looks(s) PROVE Typed'
  BY <1>1, <1>11, LookForms DEF Typed
<1>12. ASSUME NEW t \in Traces, Drop(t) PROVE Typed'
  BY <1>1, <1>12 DEF Drop, Typed
<1> QED
  BY <1>1, <1>5, <1>6, <1>7, <1>8, <1>9, <1>10, <1>11, <1>12 DEF PipelineNext, Ending, Looks

LEMMA PipelineFacts == PipelineSpec => [](Typed /\ ClosedLedger /\ PendingWaits /\ GateFacts)
<1>1. PipelineInit => Typed /\ ClosedLedger /\ PendingWaits
  BY TrackerAssumption DEF PipelineInit, Init, Typed, TypeOK, NotClosed, ClosedLedger,
                           PendingWaits, IsClosed
<1> QED
  BY <1>1, StepTyped, GateHoldsHere, PTL DEF PipelineSpec

(* Every variable of the gate, of the tracker and of the code that wires   *)
(* them up keeps its type.                                                 *)
THEOREM PipelineTypeCorrect == PipelineSpec => []PipelineTypeOK
<1>1. Typed /\ GateFacts => PipelineTypeOK
  BY RecordNames DEF Typed, GateFacts, PipelineTypeOK, Gate!TypeOK, GateProofs!TypeOK
<1> QED
  BY <1>1, PipelineFacts, PTL

-----------------------------------------------------------------------------
Running(t) == {s \in SpansOf(t) : phase[s] \in Busy}

(* Why a completion waits: until a trace is closed for good, the tracker's *)
(* active spans are those that run.                                        *)
AwaitedFor(t) ==
  /\ fate[t] = "none" \/ complete[t] => active[t] = Running(t) /\ ~IsClosed(t)
  /\ complete[t] => fate[t] # "none"
  /\ completions[t] # <<>> => fate[t] # "none" /\ ~complete[t]
  /\ active[t] # {} => t \in tracked

Awaited == \A t \in Traces : AwaitedFor(t)

(* A step announces nothing of t, or that t is dropped, or all that it has *)
(* to wait for is over.                                                    *)
Waits(t) ==
  completions'[t] # completions[t] =>
    /\ completions[t] = <<>>
    /\ \/ t \in flagged /\ t \in asked
       \/ \A s \in SpansOf(t) : phase'[s] \notin Busy

(* A trace that a step does not touch. *)
LEMMA OtherAwaited ==
  ASSUME NEW t \in Traces, AwaitedFor(t),
         fate'[t] = fate[t], complete'[t] = complete[t], active'[t] = active[t],
         completions'[t] = completions[t], Running(t)' = Running(t),
         t \in tracked' <=> t \in tracked, IsClosed(t)' => IsClosed(t)
  PROVE  AwaitedFor(t)' /\ Waits(t)
BY DEF AwaitedFor, Waits

LEMMA RunningOthers ==
  ASSUME Typed, NEW s \in Spans, NEW p, phase' = [phase EXCEPT ![s] = p]
  PROVE  /\ \A t \in Traces : t # TraceOf[s] => Running(t)' = Running(t)
         /\ p \in Busy => Running(TraceOf[s])' = Running(TraceOf[s]) \cup {s}
         /\ p = "ended" => Running(TraceOf[s])' = Running(TraceOf[s]) \ {s}
BY DEF Running, SpansOf, Typed, Busy

LEMMA BeginAwaited ==
  ASSUME Typed, Awaited, NEW s \in Spans, Begin(s), NEW t \in Traces
  PROVE  AwaitedFor(t)' /\ Waits(t)
<1> DEFINE u == TraceOf[s]
<1>1. /\ phase' = [phase EXCEPT ![s] = "open"] /\ Start(u, s) /\ u \in Traces
      /\ fate' = fate /\ completions' = completions
  BY SpanTyped DEF Begin, StartSpan, gateVars
<1> HIDE DEF u
<1>2. CASE IsClosed(u)
  <2>1. NoOp
    BY <1>1, <1>2 DEF Start
  <2>2. CASE t = u
    BY <1>1, <1>2, <2>1, <2>2 DEF NoOp, Awaited, AwaitedFor, Waits, IsClosed
  <2>3. CASE t # u
    <3>1. Running(t)' = Running(t)
      BY <1>1, <2>3, RunningOthers DEF u
    <3> QED
      BY <1>1, <2>1, <3>1, OtherAwaited DEF NoOp, Awaited, IsClosed
  <2> QED
    BY <2>2, <2>3
<1>3. CASE ~IsClosed(u)
  <2>1. Edit(u, spanIDs[u] \cup {s}, active[u] \cup {s})
    BY <1>1, <1>3 DEF Start
  <2>2. /\ \A v \in Traces : v # u =>
             active'[v] = active[v] /\ (v \in tracked' <=> v \in tracked)
        /\ complete' = complete /\ closed' = closed
        /\ u \in tracked' /\ active'[u] = active[u] \cup {s}
    BY <1>1, <2>1, EditDoes DEF Typed
  <2>3. CASE t = u
    <3>1. Running(u)' = Running(u) \cup {s}
      BY <1>1, RunningOthers DEF u, Busy
    <3> QED
      BY <1>1, <2>2, <2>3, <3>1 DEF Awaited, AwaitedFor, Waits, IsClosed
  <2>4. CASE t # u
    <3>1. Running(t)' = Running(t)
      BY <1>1, <2>4, RunningOthers DEF u
    <3> QED
      BY <1>1, <2>2, <2>4, <3>1, OtherAwaited DEF Awaited, IsClosed
  <2> QED
    BY <2>3, <2>4
<1> QED
  BY <1>2, <1>3

(* Nothing leaves the gate: the completions stand as they are. *)
LEMMA QuietAwaited ==
  ASSUME Awaited, Quiet, NEW t \in Traces, Running(t)' = Running(t)
  PROVE  AwaitedFor(t)' /\ Waits(t)
BY OtherAwaited DEF Quiet, NoOp, Awaited, IsClosed

LEMMA SpanOutAwaited ==
  ASSUME Typed, Awaited, phase' = phase, NEW s \in Spans, Discarded(s) \/ Uploaded(s),
         NEW t \in Traces
  PROVE  AwaitedFor(t)' /\ Waits(t)
<1>1. fate'[t] = fate[t] /\ completions' = completions /\ Running(t)' = Running(t)
  BY PipelineAssumption DEF Discarded, Uploaded, OneOut, Records, Running
<1>2. /\ active'[t] = active[t] /\ complete' = complete /\ closed' = closed
      /\ t \in tracked' => t \in tracked \/ t = TraceOf[s]
      /\ t \in tracked => t \in tracked'
  BY SpanTyped DEF Discarded, Uploaded, ForgetSpan, Forget, Record, NoOp, Edit, Store, Typed, TypeOK
<1> QED
  BY <1>1, <1>2 DEF Awaited, AwaitedFor, Waits, IsClosed

(* A drain closes a trace whose completion waits and none of whose spans   *)
(* runs any more.                                                          *)
LEMMA DrainAwaited ==
  ASSUME Typed, ClosedLedger, Awaited, NEW t \in Traces, ~IsClosed(t),
         Running(t)' \in SUBSET Spans,
         Drain(t, spanIDs[t], Running(t)', TRUE), SubmitCompletions,
         completions[t] = <<>>, fate'[t] # "none",
         \A u \in Traces : u # t => fate'[u] = fate[u] /\ Running(u)' = Running(u),
         NEW u \in Traces
  PROVE  AwaitedFor(u)' /\ Waits(u)
<1>1. TypeOK /\ spanIDs[t] \in SUBSET Spans
  BY DEF Typed, TypeOK
<1>2. /\ \A v \in Traces : v # t =>
           /\ active'[v] = active[v] /\ complete'[v] = complete[v]
           /\ v \in tracked' <=> v \in tracked
           /\ IsClosed(v)' => IsClosed(v)
      /\ \/ /\ called' = {} /\ t \in tracked' /\ ~IsClosed(t)'
            /\ active'[t] = Running(t)' /\ complete'[t] = TRUE
         \/ /\ Running(t)' = {}
            /\ called' = {[trace |-> t, count |-> Cardinality(spanIDs[t])]}
            /\ t \notin tracked' /\ active'[t] = {} /\ complete'[t] = FALSE
  BY <1>1, DrainDoes
<1>3. /\ \A v \in Traces : v # t => completions'[v] = completions[v]
      /\ called' = {} => completions' = completions
  BY <1>1, <1>2, CountNat, SubmitNothing, SubmitOne DEF Typed
<1>4. CASE u # t
  BY <1>2, <1>3, <1>4, OtherAwaited DEF Awaited
<1>5. CASE u = t
  <2>1. CASE called' = {}
    <3>1. /\ u \in tracked' /\ ~IsClosed(u)' /\ active'[u] = Running(u)'
          /\ completions' = completions
      BY <1>2, <1>3, <1>5, <2>1
    <3> QED
      BY <1>5, <3>1 DEF AwaitedFor, Waits
  <2>2. CASE called' # {}
    <3>1. /\ Running(u)' = {} /\ active'[u] = {} /\ complete'[u] = FALSE
      BY <1>2, <1>5, <2>2
    <3>2. \A s \in SpansOf(u) : phase'[s] \notin Busy
      BY <3>1 DEF Running, SpansOf
    <3> QED
      BY <1>5, <3>1, <3>2 DEF AwaitedFor, Waits
  <2> QED
    BY <2>1, <2>2
<1> QED
  BY <1>4, <1>5

(* The completion of a dropped trace closes it at once. *)
LEMMA DroppedAwaited ==
  ASSUME Typed, ClosedLedger, Awaited, NEW t \in Traces, ~IsClosed(t), t \in flagged,
         Drain(t, spanIDs[t], {}, TRUE), SubmitCompletions,
         completions[t] = <<>>, fate'[t] # "none",
         \A u \in Traces : u # t => fate'[u] = fate[u] /\ Running(u)' = Running(u),
         NEW u \in Traces
  PROVE  AwaitedFor(u)' /\ Waits(u)
<1>1. PICK ids, act : ids = spanIDs[t] /\ act = {}
  OBVIOUS
<1>2. TypeOK /\ ids \in SUBSET Spans /\ act \in SUBSET Spans /\ Drain(t, ids, act, TRUE)
  BY <1>1 DEF Typed, TypeOK
<1>3. /\ \A v \in Traces : v # t =>
           /\ active'[v] = active[v] /\ complete'[v] = complete[v]
           /\ v \in tracked' <=> v \in tracked
           /\ IsClosed(v)' => IsClosed(v)
      /\ called' = {[trace |-> t, count |-> Cardinality(ids)]}
      /\ t \notin tracked' /\ active'[t] = {} /\ complete'[t] = FALSE
  BY <1>1, <1>2, DrainDoes
<1>4. \A v \in Traces : v # t => completions'[v] = completions[v]
  BY <1>2, <1>3, CountNat, SubmitOne DEF Typed
<1>5. u # t => AwaitedFor(u)' /\ Waits(u)
  BY <1>3, <1>4, OtherAwaited DEF Awaited
<1>6. u = t => AwaitedFor(u)' /\ Waits(u)
  BY <1>3 DEF AwaitedFor, Waits, Typed
<1> QED
  BY <1>5, <1>6

LEMMA CompletedAwaited ==
  ASSUME Typed, ClosedLedger, Awaited, phase' = phase, NEW t \in Traces, Completed(t),
         NEW u \in Traces
  PROVE  AwaitedFor(u)' /\ Waits(u)
<1>1. /\ fate[t] = "none" /\ fate'[t] # "none" /\ Close(t, t \in flagged) /\ SubmitCompletions
      /\ \A v \in Traces : v # t => fate'[v] = fate[v]
  BY DEF Completed, OneOut, Records
<1>2. /\ ~IsClosed(t) /\ active[t] = Running(t) /\ completions[t] = <<>>
      /\ complete[t] = FALSE
  BY <1>1 DEF Awaited, AwaitedFor, Typed, TypeOK
<1>3. \A v : Running(v)' = Running(v)
  BY DEF Running
<1>4. CASE t \notin tracked
  <2>1. NoOp
    BY <1>1, <1>2, <1>4 DEF Close
  <2>2. completions' = completions
    BY <1>1, <2>1, SubmitNothing DEF NoOp, Typed
  <2> QED
    BY <1>1, <1>2, <1>3, <2>1, <2>2 DEF NoOp, Awaited, AwaitedFor, Waits, IsClosed
<1>5. CASE t \in tracked /\ t \notin flagged
  <2>1. Drain(t, spanIDs[t], Running(t)', TRUE)
    BY <1>1, <1>2, <1>3, <1>5 DEF Close
  <2>2. Running(t)' \in SUBSET Spans
    BY DEF Running, SpansOf
  <2> QED
    BY <1>1, <1>2, <1>3, <2>1, <2>2, DrainAwaited
<1>6. CASE t \in tracked /\ t \in flagged
  <2>1. Drain(t, spanIDs[t], {}, TRUE)
    BY <1>1, <1>2, <1>6 DEF Close
  <2> QED
    BY <1>1, <1>2, <1>3, <1>6, <2>1, DroppedAwaited
<1> QED
  BY <1>4, <1>5, <1>6

LEMMA FinishAwaited ==
  ASSUME Typed, ClosedLedger, PendingWaits, Awaited, NEW s \in Spans, Finish(s),
         NEW u \in Traces
  PROVE  AwaitedFor(u)' /\ Waits(u)
<1> DEFINE t == TraceOf[s]
<1>1. /\ phase' = [phase EXCEPT ![s] = "ended"] /\ phase[s] \in Busy
      /\ End(t, s) /\ t \in Traces /\ fate' = fate /\ SubmitCompletions
  BY SpanTyped DEF Finish, Handled, EndInTracker, gateVars, Busy
<1>2. /\ \A v \in Traces : v # t => Running(v)' = Running(v)
      /\ Running(t)' = Running(t) \ {s}
      /\ s \in Running(t)
  BY <1>1, RunningOthers DEF Running, SpansOf
<1> HIDE DEF t
<1>3. CASE t \notin tracked
  <2>1. NoOp /\ completions' = completions
    BY <1>1, <1>3, SubmitNothing DEF End, NoOp, Typed
  <2>2. u # t => AwaitedFor(u)' /\ Waits(u)
    BY <1>1, <1>2, <2>1, OtherAwaited DEF NoOp, Awaited, IsClosed
  <2>3. active[t] = {} /\ ~(fate[t] = "none" \/ complete[t])
    BY <1>1, <1>2, <1>3 DEF Awaited, AwaitedFor
  <2>4. u = t => AwaitedFor(u)' /\ Waits(u)
    BY <1>1, <2>1, <2>3 DEF NoOp, Awaited, AwaitedFor, Waits
  <2> QED
    BY <2>2, <2>4
<1>4. CASE t \in tracked
  <2>1. ~IsClosed(t) /\ Drain(t, spanIDs[t], active[t] \ {s}, complete[t])
    BY <1>1, <1>4 DEF End, ClosedLedger
  <2>2. CASE complete[t]
    <3>1. active[t] \ {s} = Running(t)' /\ completions[t] = <<>> /\ fate'[t] # "none"
      BY <1>1, <1>2, <2>2 DEF Awaited, AwaitedFor
    <3>2. complete[t] = TRUE /\ Running(t)' \in SUBSET Spans
      BY <1>1, <2>2 DEF Typed, TypeOK, Running, SpansOf
    <3> QED
      BY <1>1, <1>2, <2>1, <3>1, <3>2, DrainAwaited
  <2>3. CASE ~complete[t]
    <3>0. PICK act : act = active[t] \ {s}
      OBVIOUS
    <3>1. /\ TypeOK /\ spanIDs[t] \in SUBSET Spans /\ act \in SUBSET Spans
          /\ complete[t] = FALSE /\ Drain(t, spanIDs[t], act, FALSE)
      BY <1>1, <2>1, <2>3, <3>0 DEF Typed, TypeOK
    <3>2. /\ \A v \in Traces : v # t =>
               /\ active'[v] = active[v] /\ complete'[v] = complete[v]
               /\ v \in tracked' <=> v \in tracked
               /\ IsClosed(v)' => IsClosed(v)
          /\ called' = {} /\ t \in tracked' /\ ~IsClosed(t)'
          /\ active'[t] = act /\ complete'[t] = FALSE
      BY <1>1, <2>1, <3>1, DrainDoes
    <3>3. completions' = completions
      BY <1>1, <3>2, SubmitNothing DEF Typed
    <3>4. u # t => AwaitedFor(u)' /\ Waits(u)
      BY <1>1, <1>2, <3>1, <3>2, <3>3, OtherAwaited DEF Awaited
    <3>5. u = t => AwaitedFor(u)' /\ Waits(u)
      BY <1>1, <1>2, <2>3, <3>0, <3>2, <3>3 DEF Awaited, AwaitedFor, Waits
    <3> QED
      BY <3>4, <3>5
  <2> QED
    BY <2>2, <2>3
<1> QED
  BY <1>3, <1>4

LEMMA StepAwaited ==
  ASSUME Typed, ClosedLedger, PendingWaits, GateFacts, Awaited, [PipelineNext]_pipelineVars
  PROVE  Awaited' /\ \A t \in Traces : Waits(t)
<1> SUFFICES ASSUME NEW t \in Traces PROVE AwaitedFor(t)' /\ Waits(t)
  BY DEF Awaited
<1>1. ASSUME NEW s \in Spans, Begin(s) PROVE AwaitedFor(t)' /\ Waits(t)
  BY <1>1, BeginAwaited
<1>2. ASSUME NEW s \in Spans, SendPayload(s) PROVE AwaitedFor(t)' /\ Waits(t)
  <2>1. Quiet
    BY <1>2, SpanTyped, HandOverForms DEF SendPayload, Typed
  <2>2. Running(t)' = Running(t)
    BY <1>2 DEF SendPayload, Running, SpansOf, Typed, Busy
  <2> QED
    BY <2>1, <2>2, QuietAwaited
<1>3. ASSUME NEW s \in Spans, SendTraceCompletion(s) PROVE AwaitedFor(t)' /\ Waits(t)
  <2>1. Quiet
    BY <1>3, SpanTyped, HandOverForms DEF SendTraceCompletion, Typed, Records
  <2>2. Running(t)' = Running(t)
    BY <1>3 DEF SendTraceCompletion, Running
  <2> QED
    BY <2>1, <2>2, QuietAwaited
<1>4. ASSUME NEW s \in Spans, Finish(s) PROVE AwaitedFor(t)' /\ Waits(t)
  BY <1>4, FinishAwaited
<1>5. CASE GateStep
  <2>1. phase' = phase /\ Running(t)' = Running(t)
    BY <1>5, GateStepForms DEF Typed, Running
  <2> QED
    BY <1>5, <2>1, GateStepForms, QuietAwaited, SpanOutAwaited, CompletedAwaited DEF Typed
<1>6. CASE UNCHANGED pipelineVars
  BY <1>6, OtherAwaited DEF pipelineVars, gateVars, vars, Awaited, Running, IsClosed
<1>7. ASSUME UNCHANGED <<gateVars, vars, completions>>, Running(t)' = Running(t)
      PROVE  AwaitedFor(t)' /\ Waits(t)
  BY <1>7, OtherAwaited DEF gateVars, vars, Awaited, IsClosed
<1>8. ASSUME NEW s \in Spans, Looks(s) PROVE AwaitedFor(t)' /\ Waits(t)
  <2>1. Running(t)' = Running(t)
    BY <1>8, LookForms DEF Running, SpansOf, Typed
  <2> QED
    BY <1>7, <1>8, <2>1, LookForms
<1>9. ASSUME NEW u \in Traces, Drop(u) PROVE AwaitedFor(t)' /\ Waits(t)
  BY <1>7, <1>9 DEF Drop, Running
<1> QED
  BY <1>1, <1>2, <1>3, <1>4, <1>5, <1>6, <1>8, <1>9 DEF PipelineNext, Ending, Looks

LEMMA AwaitedHolds == PipelineSpec => []Awaited
<1>1. PipelineInit => Awaited
  <2> SUFFICES ASSUME PipelineInit PROVE Awaited
    OBVIOUS
  <2>1. \A t : Running(t) = {}
    BY DEF PipelineInit, Running, SpansOf, Busy
  <2> QED
    BY <2>1 DEF PipelineInit, Init, Awaited, AwaitedFor, IsClosed
<1> QED
  BY <1>1, StepAwaited, PipelineFacts, PTL DEF PipelineSpec

(* A completion waits for every span of its trace that still runs, unless  *)
(* it says that the host asked to drop the trace, and is sent once: however*)
(* the spans are nested, whether the plan is read, fails or is given up,   *)
(* whatever the queue pushes out, whoever drains it and whenever Drop is   *)
(* called.                                                                 *)
THEOREM CompletionWaits == PipelineSpec => CompletionWaitsForSpans
<1>1. Typed /\ ClosedLedger /\ PendingWaits /\ GateFacts /\ Awaited /\ [PipelineNext]_pipelineVars
        => [\A t \in Traces : completions'[t] # completions[t] =>
              /\ completions[t] = <<>>
              /\ \/ t \in flagged /\ t \in asked
                 \/ \A s \in SpansOf(t) : phase'[s] \notin Busy]_pipelineVars
  BY StepAwaited DEF Waits
<1> QED
  BY <1>1, PipelineFacts, AwaitedHolds, PTL DEF PipelineSpec, CompletionWaitsForSpans

-----------------------------------------------------------------------------
(* The pipeline implements TraceUpload.                                    *)
Begun(t) == {s \in SpansOf(t) : phase[s] # "new"}

(* Where a span is tells how far its payload has come, *)
Over == {"completing", "closing", "ended"}

Handed ==
  \A s \in Spans :
    /\ phase[s] \in {"new", "open", "uploading"} => call[s] = "idle"
    /\ phase[s] \in Over => call[s] \in {"idle", "done"}
    /\ phase[s] \in {"completing", "closing"} => s \in Roots

(* a completion is handed over when no other span of its trace runs, *)
RootLast ==
  /\ \A s \in Spans \ Roots :
       phase[s] \in Busy => phase[Parent[s]] = "open"
  /\ \A t \in Traces : call[t] # "idle" =>
       /\ \E r \in Roots : TraceOf[r] = t /\ phase[r] \in Over
       /\ ahead[t] = Begun(t) \ Withheld

(* says dropped if a span of its trace was withheld, *)
ToldOf ==
  \A s \in Withheld :
    /\ TraceOf[s] \in asked
    /\ \A r \in Roots : TraceOf[r] = TraceOf[s] =>
         TraceOf[s] \in IF phase[r] \in Over THEN flagged ELSE dropped

(* and until then the tracker's ids and the wire are exact.                *)
Counted ==
  /\ ~TransportClosed => wire = {s \in Spans : fate[s] \in {"full", "stripped"}}
  /\ \A t \in Traces : fate[t] = "none" \/ complete[t] =>
       /\ spanIDs[t] = {s \in Begun(t) : fate[s] # "discarded"}
       /\ Begun(t) # {} => t \in tracked

IdleUnsent == \A r \in Records : call[r] = "idle" => fate[r] = "none"

LEMMA IdleStays == GateFacts => IdleUnsent
BY GateProofs!IdleOutside, GatePlan, RecordNames DEF GateFacts, IdleUnsent

LEMMA FateTyped ==
  ASSUME GateFacts, NEW r \in Records
  PROVE  fate[r] \in {"none", "full", "stripped", "discarded"}
BY RecordNames DEF GateFacts, GateProofs!TypeOK

LEMMA StepHanded ==
  ASSUME Typed, GateFacts, Handed, [PipelineNext]_pipelineVars
  PROVE  Handed'
<1> USE DEF Over
<1>1. ASSUME NEW s \in Spans, Begin(s) PROVE Handed'
  BY <1>1 DEF Begin, gateVars, Handed, Typed
<1>2. ASSUME NEW s \in Spans, SendPayload(s) PROVE Handed'
  <2>1. \A d \in Records : d # s => call'[d] = call[d]
    BY <1>2, SpanTyped, HandOverForms DEF SendPayload, Typed
  <2> QED
    BY <1>2, <2>1, SpanTyped DEF SendPayload, Handed, Typed
<1>3. ASSUME NEW s \in Spans, SendTraceCompletion(s) PROVE Handed'
  <2>1. \A d \in Records : d # TraceOf[s] => call'[d] = call[d]
    BY <1>3, SpanTyped, HandOverForms DEF SendTraceCompletion, Typed, Records
  <2>2. \A q \in Spans : call'[q] = call[q]
    BY <2>1, SpanTyped, PipelineAssumption
  <2> QED
    BY <1>3, <2>2 DEF SendTraceCompletion, Handed
<1>4. ASSUME NEW s \in Spans, Finish(s) PROVE Handed'
  BY <1>4 DEF Finish, Handled, gateVars, Handed, Typed
<1>5. ASSUME GateStep PROVE Handed'
  <2>1. /\ phase' = phase
        /\ \A q \in Spans : (call'[q] = "idle" <=> call[q] = "idle")
        /\ \A q \in Spans : call[q] = "done" => call'[q] = "done"
    BY <1>5, GateStepForms, SpanTyped DEF Typed
  <2> QED
    BY <2>1 DEF Handed
<1>6. CASE UNCHANGED pipelineVars
  BY <1>6 DEF pipelineVars, gateVars, Handed
<1>7. ASSUME NEW s \in Spans, EndSpan(s) PROVE Handed'
  BY <1>7 DEF EndSpan, gateVars, Handed, Typed
<1>8. ASSUME NEW s \in Spans, BuildCompletion(s) PROVE Handed'
  BY <1>8 DEF BuildCompletion, Handled, gateVars, Handed, Typed
<1>9. ASSUME NEW s \in Spans, DeleteTraceState(s) PROVE Handed'
  BY <1>9 DEF DeleteTraceState, gateVars, Handed, Typed
<1>10. ASSUME NEW t \in Traces, Drop(t) PROVE Handed'
  BY <1>10 DEF Drop, gateVars, Handed
<1> QED
  BY <1>1, <1>2, <1>3, <1>4, <1>5, <1>6, <1>7, <1>8, <1>9, <1>10 DEF PipelineNext, Ending

(* Only the end of a span in a dropped trace withholds a span. *)
Withholds(s) ==
  /\ EndSpan(s) /\ TraceOf[s] \in dropped
  /\ s \notin Withheld /\ Withheld' = Withheld \cup {s}

LEMMA WithheldStep ==
  ASSUME Typed, GateFacts, Handed, [PipelineNext]_pipelineVars
  PROVE  Withheld' = Withheld \/ \E s \in Spans : Withholds(s)
<1>1. ASSUME NEW s \in Spans, Begin(s) PROVE Withheld' = Withheld
  BY <1>1 DEF Begin, gateVars, Withheld, Typed
<1>2. ASSUME NEW s \in Spans, SendPayload(s) PROVE Withheld' = Withheld
  <2>1. call'[s] # "idle" /\ \A d \in Records : d # s => call'[d] = call[d]
    BY <1>2, SpanTyped, HandOverForms DEF SendPayload, Typed
  <2> QED
    BY <1>2, <2>1, SpanTyped DEF SendPayload, Withheld, Typed
<1>3. ASSUME NEW s \in Spans, SendTraceCompletion(s) PROVE Withheld' = Withheld
  <2>1. \A d \in Records : d # TraceOf[s] => call'[d] = call[d]
    BY <1>3, SpanTyped, HandOverForms DEF SendTraceCompletion, Typed, Records
  <2>2. \A q \in Spans : call'[q] = call[q]
    BY <2>1, SpanTyped, PipelineAssumption
  <2> QED
    BY <1>3, <2>2 DEF SendTraceCompletion, Withheld
<1>4. ASSUME NEW s \in Spans, Finish(s) PROVE Withheld' = Withheld
  BY <1>4 DEF Finish, Handled, gateVars, Withheld, Typed
<1>5. ASSUME GateStep PROVE Withheld' = Withheld
  <2>1. phase' = phase /\ \A q \in Spans : call'[q] = "idle" <=> call[q] = "idle"
    BY <1>5, GateStepForms, SpanTyped DEF Typed
  <2> QED
    BY <2>1 DEF Withheld
<1>6. CASE UNCHANGED pipelineVars
  BY <1>6 DEF pipelineVars, gateVars, Withheld
<1>7. ASSUME NEW s \in Spans, EndSpan(s) PROVE Withheld' = Withheld \/ Withholds(s)
  <2>1. phase[s] = "open" /\ call' = call
    BY <1>7 DEF EndSpan, gateVars
  <2>2. CASE TraceOf[s] \in dropped
    <3>1. phase' = [phase EXCEPT ![s] = "sending"]
      BY <1>7, <2>2 DEF EndSpan
    <3>2. s \notin Withheld /\ Withheld' = Withheld \cup {s}
      BY <2>1, <3>1 DEF Withheld, Handed, Typed
    <3> QED
      BY <1>7, <2>2, <3>2 DEF Withholds
  <2>3. CASE TraceOf[s] \notin dropped
    <3>1. phase' = [phase EXCEPT ![s] = "uploading"]
      BY <1>7, <2>3 DEF EndSpan
    <3> QED
      BY <2>1, <3>1 DEF Withheld, Typed
  <2> QED
    BY <2>2, <2>3
<1>8. ASSUME NEW s \in Spans, BuildCompletion(s) PROVE Withheld' = Withheld
  BY <1>8 DEF BuildCompletion, Handled, gateVars, Withheld, Typed
<1>9. ASSUME NEW s \in Spans, DeleteTraceState(s) PROVE Withheld' = Withheld
  BY <1>9 DEF DeleteTraceState, gateVars, Withheld, Typed
<1>10. ASSUME NEW t \in Traces, Drop(t) PROVE Withheld' = Withheld
  BY <1>10 DEF Drop, gateVars, Withheld
<1> QED
  BY <1>1, <1>2, <1>3, <1>4, <1>5, <1>6, <1>7, <1>8, <1>9, <1>10 DEF PipelineNext, Ending

(* A nested tree whose root does not run any more runs nowhere: every      *)
(* running span would have a running parent.                               *)
LEMMA TreeOver ==
  ASSUME RootLast, NEW r \in Roots, phase[r] # "open",
         NEW s \in SpansOf(TraceOf[r]), s # r
  PROVE  phase[s] \notin Busy
<1> DEFINE S == {q \in Spans \ Roots : TraceOf[q] = TraceOf[r] /\ phase[q] \in Busy}
<1>1. s \in Spans /\ TraceOf[s] = TraceOf[r] /\ s \notin Roots
  BY PipelineAssumption DEF SpansOf
<1>2. ASSUME NEW q \in S PROVE Parent[q] \in S
  <2>1. /\ phase[Parent[q]] = "open" /\ Parent[q] \in Spans
        /\ TraceOf[Parent[q]] = TraceOf[r]
    BY PipelineAssumption DEF RootLast, Busy
  <2>2. Parent[q] \notin Roots
    BY <2>1, PipelineAssumption
  <2> QED
    BY <2>1, <2>2 DEF Busy
<1>3. S = {}
  <2>1. S \in SUBSET (Spans \ Roots)
    OBVIOUS
  <2> QED
    BY <1>2, <2>1, PipelineAssumption
<1> QED
  BY <1>1, <1>3

LEMMA NoSelfParent == \A s \in Spans \ Roots : Parent[s] # s
<1> TAKE s \in Spans \ Roots
<1>1. {s} \in SUBSET (Spans \ Roots) /\ {s} # {}
  OBVIOUS
<1>2. \E q \in {s} : Parent[q] \notin {s}
  BY <1>1, PipelineAssumption
<1> QED
  BY <1>2

(* A span that is open has its root open, and no completion on its way. *)
LEMMA OpenEarly ==
  ASSUME RootLast, NEW s \in Spans, phase[s] = "open"
  PROVE  /\ \A r \in Roots : TraceOf[r] = TraceOf[s] => phase[r] = "open"
         /\ call[TraceOf[s]] = "idle"
<1>1. ASSUME NEW r \in Roots, TraceOf[r] = TraceOf[s] PROVE phase[r] = "open"
  BY <1>1, TreeOver DEF SpansOf, Busy
<1> QED
  BY <1>1, SpanTyped DEF RootLast, Over

LEMMA StepRootLast ==
  ASSUME Nested, Typed, GateFacts, Handed, Handed', RootLast, [PipelineNext]_pipelineVars
  PROVE  RootLast'
<1> DEFINE TreeRuns == \A s \in Spans \ Roots : phase[s] \in Busy => phase[Parent[s]] = "open"
           RootOver(t) == \E r \in Roots : TraceOf[r] = t /\ phase[r] \in Over
<1>0. Roots \subseteq Spans /\ \A s \in Spans \ Roots : Parent[s] \in Spans
  BY PipelineAssumption
<1>1. ASSUME NEW s \in Spans, Begin(s) PROVE RootLast'
  <2>1. /\ phase[s] = "new" /\ phase' = [phase EXCEPT ![s] = "open"]
        /\ s \notin Roots => phase[Parent[s]] = "open"
        /\ UNCHANGED <<call, ahead>>
    BY <1>1 DEF Begin, gateVars
  <2>2. phase'[s] = "open" /\ \A q \in Spans : q # s => phase'[q] = phase[q]
    BY <2>1 DEF Typed
  <2>3. TreeRuns'
    BY <1>0, <2>1, <2>2 DEF RootLast
  <2>4. ASSUME NEW t \in Traces, call[t] # "idle"
        PROVE  RootOver(t)' /\ ahead[t] = (Begun(t) \ Withheld)'
    <3>1. PICK r \in Roots : TraceOf[r] = t /\ phase[r] \in Over
      BY <2>4 DEF RootLast
    <3>2. RootOver(t)'
      BY <1>0, <2>1, <2>2, <3>1 DEF Over
    <3>3. s \notin SpansOf(t)
      <4> SUFFICES ASSUME TraceOf[s] = t PROVE FALSE
        BY DEF SpansOf
      <4>1. s # r /\ s \notin Roots
        BY <2>1, <3>1, PipelineAssumption DEF Over
      <4>2. Parent[s] \in Spans /\ TraceOf[Parent[s]] = t /\ phase[Parent[s]] = "open"
        BY <2>1, <4>1, PipelineAssumption
      <4> QED
        BY <2>4, <4>2, OpenEarly
    <3>4. Begun(t)' = Begun(t)
      BY <2>2, <3>3 DEF Begun, SpansOf
    <3>5. Withheld' = Withheld
      BY <2>1, <2>2 DEF Withheld
    <3> QED
      BY <2>4, <3>2, <3>4, <3>5 DEF RootLast
  <2> QED
    BY <2>1, <2>3, <2>4 DEF RootLast
<1>2. ASSUME NEW s \in Spans, EndSpan(s) PROVE RootLast'
  <2>1. /\ phase[s] = "open" /\ phase'[s] \in Busy \ {"open"}
        /\ \A q \in Spans : q # s => phase'[q] = phase[q]
        /\ \A c \in Children(s) : phase[c] \in {"new", "ended"}
        /\ UNCHANGED <<call, ahead>>
    BY <1>2 DEF EndSpan, gateVars, Typed, Busy
  <2>2. TreeRuns'
    <3> SUFFICES ASSUME NEW q \in Spans \ Roots, phase'[q] \in Busy
                 PROVE  phase'[Parent[q]] = "open"
      OBVIOUS
    <3>1. phase[q] \in Busy
      BY <2>1 DEF Busy
    <3>2. phase[Parent[q]] = "open" /\ Parent[q] # s
      BY <2>1, <3>1 DEF RootLast, Children, Busy
    <3> QED
      BY <1>0, <2>1, <3>2
  <2>3. call[TraceOf[s]] = "idle"
    BY <2>1, OpenEarly
  <2>4. ASSUME NEW t \in Traces, call[t] # "idle"
        PROVE  RootOver(t)' /\ ahead[t] = (Begun(t) \ Withheld)'
    <3>1. \A q \in SpansOf(t) : phase'[q] = phase[q]
      BY <2>1, <2>3, <2>4 DEF SpansOf
    <3>2. Begun(t)' = Begun(t) /\ (Begun(t) \ Withheld)' = Begun(t) \ Withheld
      BY <2>1, <3>1 DEF Begun, SpansOf, Withheld
    <3>3. RootOver(t)'
      BY <1>0, <2>4, <3>1 DEF RootLast, SpansOf
    <3> QED
      BY <2>4, <3>2, <3>3 DEF RootLast
  <2> QED
    BY <2>1, <2>2, <2>4 DEF RootLast
<1>3. ASSUME NEW s \in Spans, SendTraceCompletion(s) PROVE RootLast'
  <2> DEFINE u == TraceOf[s]
  <2>1. /\ phase[s] = "completing" /\ s \in Roots /\ phase' = phase
        /\ ahead' = [ahead EXCEPT ![u] = {q \in Spans : TraceOf[q] = u /\ call[q] = "done"}]
    BY <1>3 DEF SendTraceCompletion, Gate!SendTrace, Handed
  <2>2. \A d \in Records : d # u => call'[d] = call[d]
    BY <1>3, SpanTyped, HandOverForms DEF SendTraceCompletion, Typed, Records
  <2>3. u \in Traces /\ ahead \in [Traces -> SUBSET Spans]
    BY SpanTyped DEF GateFacts, GateProofs!TypeOK
  <2>4. \A t \in Traces : Begun(t)' = Begun(t)
    BY <2>1 DEF Begun, SpansOf
  <2>5. Begun(u) \ Withheld = {q \in Spans : TraceOf[q] = u /\ call[q] = "done"}
    <3>1. \A q \in SpansOf(u) : q # s => phase[q] \notin Busy
      BY <2>1, TreeOver
    <3>2. \A q \in SpansOf(u) : q \in Begun(u) \ Withheld <=> call[q] = "done"
      BY <2>1, <3>1 DEF Handed, SpansOf, Typed, Over, Begun, Withheld
    <3> QED
      BY <3>2 DEF Begun, SpansOf
  <2>6. \A q \in Spans : call'[q] = call[q]
    BY <2>2, SpanTyped, PipelineAssumption
  <2>7. Withheld' = Withheld
    BY <2>1, <2>6 DEF Withheld
  <2> HIDE DEF u
  <2>8. ahead'[u] = Begun(u) \ Withheld /\ \A t \in Traces : t # u => ahead'[t] = ahead[t]
    BY <2>1, <2>3, <2>5
  <2>9. \A t \in Traces : RootOver(t) => RootOver(t)'
    BY <2>1
  <2>10. RootOver(u)
    BY <2>1 DEF u, Over
  <2> QED
    BY <2>1, <2>2, <2>4, <2>7, <2>8, <2>9, <2>10 DEF RootLast, Records
<1>4. ASSUME NEW s \in Spans, NEW p \in Busy \cup {"ended"},
             phase[s] \in Busy \ {"open"}, phase' = [phase EXCEPT ![s] = p], p # "open",
             phase[s] \in Over => p \in Over,
             Withheld' = Withheld, ahead' = ahead,
             \A t \in Traces : call'[t] = call[t]
      PROVE  RootLast'
  <2>1. phase'[s] = p /\ \A q \in Spans : q # s => phase'[q] = phase[q]
    BY <1>4 DEF Typed
  <2>2. TreeRuns'
    BY <1>0, <1>4, <2>1 DEF RootLast
  <2>3. \A t \in Traces : Begun(t)' = Begun(t) /\ (RootOver(t) => RootOver(t)')
    BY <1>0, <1>4, <2>1 DEF Begun, SpansOf, Busy
  <2> QED
    BY <1>4, <2>2, <2>3 DEF RootLast
<1>5. ASSUME NEW s \in Spans, SendPayload(s) PROVE RootLast'
  <2>1. call'[s] # "idle" /\ \A d \in Records : d # s => call'[d] = call[d]
    BY <1>5, SpanTyped, HandOverForms DEF SendPayload, Typed
  <2>2. \A t \in Traces : call'[t] = call[t]
    BY <2>1, PipelineAssumption DEF Records
  <2>3. phase[s] = "uploading" /\ phase' = [phase EXCEPT ![s] = "sending"] /\ ahead' = ahead
    BY <1>5 DEF SendPayload, Gate!SendSpan
  <2>4. Withheld' = Withheld
    BY <2>1, <2>3, SpanTyped DEF Withheld, Typed
  <2> QED
    BY <1>4, <2>2, <2>3, <2>4 DEF Busy, Over
<1>6. ASSUME NEW s \in Spans, BuildCompletion(s) PROVE RootLast'
  <2>1. /\ phase[s] = "sending" /\ phase' = [phase EXCEPT ![s] = "completing"]
        /\ UNCHANGED <<call, ahead>>
    BY <1>6 DEF BuildCompletion, Handled, gateVars
  <2>2. Withheld' = Withheld
    BY <2>1 DEF Withheld, Typed
  <2> QED
    BY <1>4, <2>1, <2>2 DEF Busy, Over
<1>7. ASSUME NEW s \in Spans, DeleteTraceState(s) PROVE RootLast'
  <2>1. /\ phase[s] = "completing" /\ phase' = [phase EXCEPT ![s] = "closing"]
        /\ UNCHANGED <<call, ahead>>
    BY <1>7 DEF DeleteTraceState, gateVars
  <2>2. Withheld' = Withheld
    BY <2>1 DEF Withheld, Typed
  <2> QED
    BY <1>4, <2>1, <2>2 DEF Busy, Over
<1>8. ASSUME NEW s \in Spans, Finish(s) PROVE RootLast'
  <2>1. /\ phase[s] \in {"sending", "closing"} /\ phase' = [phase EXCEPT ![s] = "ended"]
        /\ UNCHANGED <<call, ahead>>
    BY <1>8 DEF Finish, Handled, gateVars
  <2>2. Withheld' = Withheld
    BY <2>1 DEF Withheld, Typed
  <2> QED
    BY <1>4, <2>1, <2>2 DEF Busy, Over
<1>9. ASSUME phase' = phase, ahead' = ahead,
             \A d \in Records : call'[d] = "idle" <=> call[d] = "idle"
      PROVE  RootLast'
  <2>1. (\A t \in Traces : Begun(t)' = Begun(t)) /\ Withheld' = Withheld
    BY <1>9, SpanTyped DEF Begun, SpansOf, Withheld
  <2> QED
    BY <1>9, <2>1 DEF RootLast, Records
<1>10. ASSUME GateStep PROVE RootLast'
  BY <1>9, <1>10, GateStepForms DEF Typed
<1>11. CASE UNCHANGED pipelineVars
  BY <1>9, <1>11 DEF pipelineVars, gateVars
<1>12. ASSUME NEW t \in Traces, Drop(t) PROVE RootLast'
  BY <1>9, <1>12 DEF Drop, gateVars
<1> QED
  BY <1>1, <1>2, <1>3, <1>5, <1>6, <1>7, <1>8, <1>10, <1>11, <1>12 DEF PipelineNext, Ending

LEMMA StepToldOf ==
  ASSUME Nested, Typed, GateFacts, Handed, RootLast, ToldOf, [PipelineNext]_pipelineVars
  PROVE  ToldOf'
<1>0. Roots \subseteq Spans /\ \A q, r \in Roots : TraceOf[q] = TraceOf[r] => q = r
  BY PipelineAssumption
<1>1. ASSUME NEW s \in Spans, Withholds(s) PROVE ToldOf'
  <2>1. /\ phase[s] = "open" /\ phase'[s] \notin Over
        /\ \A q \in Spans : q # s => phase'[q] = phase[q]
        /\ UNCHANGED dropVars /\ TraceOf[s] \in dropped
        /\ Withheld' = Withheld \cup {s}
    BY <1>1 DEF Withholds, EndSpan, Typed, Over
  <2>2. \A r \in Roots : phase'[r] \in Over <=> phase[r] \in Over
    BY <1>0, <2>1 DEF Over
  <2>3. ASSUME NEW r \in Roots, TraceOf[r] = TraceOf[s] PROVE phase'[r] \notin Over
    BY <2>1, <2>2, <2>3, OpenEarly DEF Over
  <2> QED
    BY <2>1, <2>2, <2>3 DEF ToldOf, dropVars, Typed
<1>2. ASSUME Withheld' = Withheld, UNCHANGED flagged, dropped \subseteq dropped', asked \subseteq asked',
             \A r \in Roots : phase'[r] \in Over <=> phase[r] \in Over
      PROVE  ToldOf'
  BY <1>2 DEF ToldOf
<1>3. SUFFICES ASSUME Withheld' = Withheld PROVE ToldOf'
  BY <1>1, WithheldStep
<1>4. ASSUME NEW s \in Spans, Begin(s) \/ EndSpan(s) \/ SendPayload(s) \/ SendTraceCompletion(s)
      PROVE  ToldOf'
  <2>1. \A r \in Roots : phase'[r] \in Over <=> phase[r] \in Over
    BY <1>0, <1>4 DEF Begin, EndSpan, SendPayload, SendTraceCompletion, Typed, Over
  <2>2. UNCHANGED dropVars
    BY <1>4 DEF Begin, EndSpan, SendPayload, SendTraceCompletion
  <2> QED
    BY <1>2, <1>3, <2>1, <2>2 DEF dropVars
<1>5. ASSUME NEW s \in Spans, Finish(s) PROVE ToldOf'
  <2>1. \A r \in Roots : phase'[r] \in Over <=> phase[r] \in Over
    BY <1>0, <1>5 DEF Finish, Typed, Over
  <2> QED
    BY <1>2, <1>3, <1>5, <2>1 DEF Finish, dropVars
<1>6. ASSUME NEW s \in Spans, BuildCompletion(s) PROVE ToldOf'
  <2>1. /\ phase[s] = "sending" /\ phase'[s] = "completing" /\ s \in Roots
        /\ \A q \in Spans : q # s => phase'[q] = phase[q]
        /\ flagged' = flagged \cup (dropped \cap {TraceOf[s]}) /\ UNCHANGED <<dropped, asked>>
    BY <1>6 DEF BuildCompletion, Handled, Typed
  <2> QED
    BY <1>0, <1>3, <2>1 DEF ToldOf, Over
<1>7. ASSUME NEW s \in Spans, DeleteTraceState(s) PROVE ToldOf'
  <2>1. /\ phase[s] = "completing" /\ phase'[s] = "closing" /\ s \in Roots
        /\ \A q \in Spans : q # s => phase'[q] = phase[q]
        /\ dropped' = dropped \ {TraceOf[s]} /\ UNCHANGED <<flagged, asked>>
    BY <1>7 DEF DeleteTraceState, Handed, Typed
  <2> QED
    BY <1>0, <1>3, <2>1 DEF ToldOf, Over
<1>8. ASSUME GateStep PROVE ToldOf'
  BY <1>2, <1>3, <1>8, GateStepForms DEF Typed, dropVars
<1>9. ASSUME NEW t \in Traces, Drop(t) PROVE ToldOf'
  BY <1>2, <1>3, <1>9 DEF Drop
<1>10. CASE UNCHANGED pipelineVars
  BY <1>2, <1>3, <1>10 DEF pipelineVars, dropVars
<1> QED
  BY <1>4, <1>5, <1>6, <1>7, <1>8, <1>9, <1>10 DEF PipelineNext, Ending

IdsExact(t) ==
  fate[t] = "none" \/ complete[t] =>
    /\ spanIDs[t] = {s \in Begun(t) : fate[s] # "discarded"}
    /\ Begun(t) # {} => t \in tracked

(* A trace that a step does not touch. *)
LEMMA OtherExact ==
  ASSUME NEW t \in Traces, IdsExact(t),
         fate'[t] = fate[t], complete'[t] = complete[t], spanIDs'[t] = spanIDs[t],
         t \in tracked' <=> t \in tracked, Begun(t)' = Begun(t),
         \A s \in SpansOf(t) : fate'[s] = fate[s]
  PROVE  IdsExact(t)'
BY DEF IdsExact, Begun

LEMMA BeginExact ==
  ASSUME Typed, IdleUnsent, Handed, Awaited, Counted, NEW s \in Spans, Begin(s), NEW t \in Traces
  PROVE  IdsExact(t)'
<1> DEFINE u == TraceOf[s]
<1>1. /\ phase[s] = "new" /\ phase' = [phase EXCEPT ![s] = "open"] /\ Start(u, s) /\ u \in Traces
      /\ fate' = fate /\ IdsExact(t) /\ fate[s] = "none"
  BY SpanTyped DEF Begin, StartSpan, gateVars, Counted, IdsExact, Handed, IdleUnsent
<1>2. /\ t # u => Begun(t)' = Begun(t)
      /\ Begun(u)' = Begun(u) \cup {s}
  BY <1>1 DEF Begun, SpansOf, Typed
<1> HIDE DEF u
<1>3. CASE IsClosed(u)
  <2>1. NoOp
    BY <1>1, <1>3 DEF Start
  <2>2. CASE t = u
    BY <1>1, <1>3, <2>1, <2>2 DEF NoOp, Awaited, AwaitedFor, IdsExact
  <2>3. CASE t # u
    BY <1>1, <1>2, <2>1, <2>3, OtherExact DEF NoOp
  <2> QED
    BY <2>2, <2>3
<1>4. CASE ~IsClosed(u)
  <2>1. Edit(u, spanIDs[u] \cup {s}, active[u] \cup {s})
    BY <1>1, <1>4 DEF Start
  <2>2. /\ \A v \in Traces : v # u =>
             spanIDs'[v] = spanIDs[v] /\ (v \in tracked' <=> v \in tracked)
        /\ complete' = complete
        /\ u \in tracked' /\ spanIDs'[u] = spanIDs[u] \cup {s}
    BY <1>1, <2>1, EditDoes DEF Typed
  <2>3. CASE t = u
    BY <1>1, <1>2, <2>2, <2>3 DEF IdsExact
  <2>4. CASE t # u
    BY <1>1, <1>2, <2>2, <2>4, OtherExact
  <2> QED
    BY <2>3, <2>4
<1> QED
  BY <1>3, <1>4

(* A span that leaves the gate has begun. *)
LEMMA OutBegun ==
  ASSUME IdleUnsent', Handed', phase' = phase, NEW s \in Spans, OneOut(s)
  PROVE  s \in Begun(TraceOf[s])
BY SpanTyped DEF IdleUnsent, Handed, OneOut, Begun, SpansOf

LEMMA SpanOutExact ==
  ASSUME Typed, IdleUnsent', Handed', Awaited, Counted, phase' = phase,
         NEW s \in Spans, Discarded(s) \/ Uploaded(s), NEW t \in Traces
  PROVE  IdsExact(t)'
<1> DEFINE u == TraceOf[s]
<1>1. /\ u \in Traces /\ IdsExact(t) /\ IdsExact(u) /\ OneOut(s)
      /\ s \in Begun(u)
      /\ \A v : Begun(v)' = Begun(v)
  BY SpanTyped, OutBegun DEF Counted, IdsExact, Discarded, Uploaded, Begun, SpansOf
<1>2. /\ \A d \in Records : d # s => fate'[d] = fate[d]
      /\ fate[s] = "none"
      /\ \A v \in Traces : fate'[v] = fate[v]
  BY <1>1, PipelineAssumption DEF OneOut, Records
<1>3. t # u => \A q \in SpansOf(t) : fate'[q] = fate[q]
  BY <1>2 DEF SpansOf, Records
<1>4. \A q \in SpansOf(u) : q # s => fate'[q] = fate[q]
  BY <1>2 DEF SpansOf, Records
<1>5. Forget(u, s) \/ Record(u, s)
  BY DEF Discarded, Uploaded, ForgetSpan
<1>6. /\ fate'[s] = "discarded" => Forget(u, s)
      /\ fate'[s] # "discarded" => Record(u, s)
  BY DEF Discarded, Uploaded, ForgetSpan
<1> HIDE DEF u
<1>7. CASE t # u
  <2>1. /\ complete'[t] = complete[t] /\ spanIDs'[t] = spanIDs[t]
        /\ t \in tracked' <=> t \in tracked
    BY <1>1, <1>5, <1>7 DEF Forget, Record, NoOp, Edit, Store, Typed, TypeOK
  <2> QED
    BY <1>1, <1>2, <1>3, <1>7, <2>1, OtherExact
<1>8. CASE t = u
  <2>1. SUFFICES ASSUME fate'[u] = "none" \/ complete'[u]
                 PROVE  /\ spanIDs'[u] = {q \in Begun(u) : fate'[q] # "discarded"}
                        /\ u \in tracked'
    BY <1>1, <1>8 DEF IdsExact
  <2>2. complete'[u] = complete[u]
    BY <1>1, <1>5 DEF Forget, Record, NoOp, Edit, Store, Typed, TypeOK
  <2>3. /\ spanIDs[u] = {q \in Begun(u) : fate[q] # "discarded"}
        /\ u \in tracked /\ ~IsClosed(u)
    BY <1>1, <1>2, <2>1, <2>2 DEF IdsExact, Awaited, AwaitedFor
  <2>4. \A q \in Begun(u) : q # s => fate'[q] = fate[q]
    BY <1>4 DEF Begun
  <2>5. CASE fate'[s] = "discarded"
    <3>1. Edit(u, spanIDs[u] \ {s}, active[u])
      BY <1>6, <2>3, <2>5 DEF Forget
    <3>2. u \in tracked' /\ spanIDs'[u] = spanIDs[u] \ {s}
      BY <1>1, <3>1, EditDoes DEF Typed
    <3> QED
      BY <2>3, <2>4, <2>5, <3>2
  <2>6. CASE fate'[s] # "discarded"
    <3>1. Edit(u, spanIDs[u] \cup {s}, active[u])
      BY <1>6, <2>3, <2>6 DEF Record
    <3>2. u \in tracked' /\ spanIDs'[u] = spanIDs[u] \cup {s}
      BY <1>1, <3>1, EditDoes DEF Typed
    <3> QED
      BY <1>1, <2>3, <2>4, <2>6, <3>2
  <2> QED
    BY <2>5, <2>6
<1> QED
  BY <1>7, <1>8

(* A drain that keeps the ids of a trace, or closes the trace for good. *)
LEMMA DrainExact ==
  ASSUME Typed, ClosedLedger, NEW t \in Traces, ~IsClosed(t), Begun(t)' = Begun(t),
         NEW act \in SUBSET Spans, NEW cmp \in BOOLEAN,
         Drain(t, spanIDs[t], act, cmp),
         IdsExact(t), fate[t] = "none" \/ complete[t] \/ ~cmp, fate'[t] = "none" => fate[t] = "none",
         cmp => fate'[t] # "none",
         complete[t] => cmp,
         \A s \in SpansOf(t) : fate'[s] = fate[s]
  PROVE  IdsExact(t)'
<1>1. TypeOK /\ spanIDs[t] \in SUBSET Spans
  BY DEF Typed, TypeOK
<1>0. PICK ids : ids = spanIDs[t]
  OBVIOUS
<1>2. CASE cmp
  <2>1. Drain(t, ids, act, TRUE)
    BY <1>0, <1>2
  <2>2. \/ t \in tracked' /\ spanIDs'[t] = ids
        \/ complete'[t] = FALSE
    BY <1>0, <1>1, <2>1, DrainDoes
  <2> QED
    BY <1>0, <1>2, <2>2 DEF IdsExact, Begun
<1>3. CASE ~cmp
  <2>1. Drain(t, ids, act, FALSE)
    BY <1>0, <1>3
  <2>2. t \in tracked' /\ spanIDs'[t] = ids /\ complete'[t] = FALSE
    BY <1>0, <1>1, <2>1, DrainDoes
  <2> QED
    BY <1>0, <1>3, <2>2 DEF IdsExact, Begun
<1> QED
  BY <1>2, <1>3

LEMMA CompletedExact ==
  ASSUME Typed, ClosedLedger, Awaited, Counted, phase' = phase, NEW t \in Traces, Completed(t),
         NEW u \in Traces
  PROVE  IdsExact(u)'
<1>0. /\ fate[t] = "none" /\ fate'[t] # "none" /\ Close(t, t \in flagged)
      /\ \A v \in Traces : v # t => fate'[v] = fate[v]
      /\ \A s \in Spans : s # t => fate'[s] = fate[s]
      /\ IdsExact(t) /\ IdsExact(u)
  BY DEF Completed, OneOut, Records, Counted, IdsExact
<1>1. /\ fate[t] = "none" /\ fate'[t] # "none" /\ Close(t, t \in flagged)
      /\ \A v \in Traces : v # t => fate'[v] = fate[v]
      /\ \A v : \A s \in SpansOf(v) : fate'[s] = fate[s]
      /\ \A v : Begun(v)' = Begun(v)
      /\ IdsExact(t) /\ IdsExact(u)
  BY <1>0, PipelineAssumption DEF Begun, SpansOf
<1>2. ~IsClosed(t) /\ ~complete[t]
  BY <1>1 DEF Awaited, AwaitedFor
<1>3. CASE t \notin tracked
  <2>1. NoOp
    BY <1>1, <1>2, <1>3 DEF Close
  <2>2. u # t => IdsExact(u)'
    BY <1>1, <2>1, OtherExact DEF NoOp
  <2>3. u = t => IdsExact(u)'
    BY <1>1, <1>2, <2>1 DEF NoOp, IdsExact
  <2> QED
    BY <2>2, <2>3
<1>4. CASE t \in tracked
  <2>0. PICK act : act = IF t \in flagged THEN {} ELSE active[t]
    OBVIOUS
  <2>1. Drain(t, spanIDs[t], act, TRUE)
    <3>1. CASE t \in flagged
      BY <1>1, <1>2, <1>4, <2>0, <3>1 DEF Close
    <3>2. CASE t \notin flagged
      BY <1>1, <1>2, <1>4, <2>0, <3>2 DEF Close
    <3> QED
      BY <3>1, <3>2
  <2>2. act \in SUBSET Spans /\ spanIDs[t] \in SUBSET Spans /\ TypeOK
    BY <2>0 DEF Typed, TypeOK
  <2>3. u = t => IdsExact(u)'
    BY <1>1, <1>2, <2>1, <2>2, DrainExact
  <2>4. u # t => spanIDs'[u] = spanIDs[u] /\ complete'[u] = complete[u]
                 /\ (u \in tracked' <=> u \in tracked)
    BY <1>2, <2>1, <2>2, DrainDoes
  <2> QED
    BY <1>1, <2>3, <2>4, OtherExact
<1> QED
  BY <1>3, <1>4

LEMMA FinishExact ==
  ASSUME Typed, ClosedLedger, Awaited, Counted, NEW s \in Spans, Finish(s), NEW u \in Traces
  PROVE  IdsExact(u)'
<1> DEFINE t == TraceOf[s]
<1>1. /\ phase' = [phase EXCEPT ![s] = "ended"] /\ phase[s] \in Busy
      /\ End(t, s) /\ t \in Traces /\ fate' = fate /\ IdsExact(t) /\ IdsExact(u)
  BY SpanTyped DEF Finish, Handled, Busy, EndInTracker, gateVars, Counted, IdsExact
<1>2. \A v : Begun(v)' = Begun(v)
  BY <1>1 DEF Begun, SpansOf, Typed, Busy
<1> HIDE DEF t
<1>3. CASE t \notin tracked
  BY <1>1, <1>2, <1>3, OtherExact DEF End, NoOp
<1>4. CASE t \in tracked
  <2>1. PICK act : act = active[t] \ {s}
    OBVIOUS
  <2>2. /\ ~IsClosed(t) /\ Drain(t, spanIDs[t], act, complete[t]) /\ act \in SUBSET Spans
        /\ TypeOK /\ spanIDs[t] \in SUBSET Spans /\ complete[t] \in BOOLEAN
    BY <1>1, <1>4, <2>1 DEF End, ClosedLedger, Typed, TypeOK
  <2>3. complete[t] => fate[t] # "none"
    BY <1>1 DEF Awaited, AwaitedFor
  <2>4. u = t => IdsExact(u)'
    BY <1>1, <1>2, <2>2, <2>3, DrainExact
  <2>5. u # t => spanIDs'[u] = spanIDs[u] /\ complete'[u] = complete[u]
                 /\ (u \in tracked' <=> u \in tracked)
    <3>1. Drain(t, spanIDs[t], act, TRUE) \/ Drain(t, spanIDs[t], act, FALSE)
      BY <2>2
    <3> QED
      BY <1>1, <2>2, <3>1, DrainDoes
  <2> QED
    BY <1>1, <1>2, <2>4, <2>5, OtherExact
<1> QED
  BY <1>3, <1>4

(* The wire is what was uploaded, as long as the transport is open. *)
WireExact == ~TransportClosed => wire = {s \in Spans : fate[s] \in {"full", "stripped"}}

LEMMA QuietExact ==
  ASSUME Counted, Quiet, TransportClosed => TransportClosed', NEW t \in Traces, Begun(t)' = Begun(t)
  PROVE  IdsExact(t)' /\ WireExact'
BY OtherExact DEF Quiet, NoOp, Counted, IdsExact, WireExact

LEMMA StepCounted ==
  ASSUME Typed, ClosedLedger, GateFacts, GateFacts', IdleUnsent, IdleUnsent', Handed, Handed',
         Awaited, Counted, [PipelineNext]_pipelineVars
  PROVE  Counted'
<1>0. SUFFICES WireExact' /\ \A t \in Traces : IdsExact(t)'
  BY DEF Counted, WireExact, IdsExact
<1>1. ASSUME NEW s \in Spans, Begin(s) PROVE WireExact' /\ \A t \in Traces : IdsExact(t)'
  <2>1. WireExact'
    BY <1>1 DEF Begin, gateVars, Counted, WireExact, TransportClosed
  <2> QED
    BY <1>1, <2>1, BeginExact
<1>2. ASSUME NEW s \in Spans, SendPayload(s) PROVE WireExact' /\ \A t \in Traces : IdsExact(t)'
  <2>1. Quiet /\ closer' = closer
    BY <1>2, SpanTyped, HandOverForms DEF SendPayload, Typed
  <2>2. \A t : Begun(t)' = Begun(t)
    BY <1>2 DEF SendPayload, Begun, SpansOf, Typed
  <2>3. WireExact'
    BY <2>1 DEF Quiet, Counted, WireExact, TransportClosed
  <2> QED
    BY <2>1, <2>2, <2>3, QuietExact DEF TransportClosed
<1>3. ASSUME NEW s \in Spans, SendTraceCompletion(s)
      PROVE WireExact' /\ \A t \in Traces : IdsExact(t)'
  <2>1. Quiet /\ closer' = closer
    BY <1>3, SpanTyped, HandOverForms DEF SendTraceCompletion, Typed, Records
  <2>2. \A t : Begun(t)' = Begun(t)
    BY <1>3 DEF SendTraceCompletion, Begun, SpansOf
  <2>3. WireExact'
    BY <2>1 DEF Quiet, Counted, WireExact, TransportClosed
  <2> QED
    BY <2>1, <2>2, <2>3, QuietExact DEF TransportClosed
<1>4. ASSUME NEW s \in Spans, Finish(s) PROVE WireExact' /\ \A t \in Traces : IdsExact(t)'
  <2>1. WireExact'
    BY <1>4 DEF Finish, gateVars, Counted, WireExact, TransportClosed
  <2> QED
    BY <1>4, <2>1, FinishExact
<1>5. ASSUME GateStep PROVE WireExact' /\ \A t \in Traces : IdsExact(t)'
  <2>1. phase' = phase /\ (TransportClosed => TransportClosed') /\ \A t : Begun(t)' = Begun(t)
    BY <1>5, GateStepForms DEF Typed, Begun, SpansOf
  <2>2. ASSUME Quiet PROVE WireExact' /\ \A t \in Traces : IdsExact(t)'
    <3>1. WireExact'
      BY <2>1, <2>2 DEF Quiet, Counted, WireExact
    <3> QED
      BY <2>1, <2>2, <3>1, QuietExact
  <2>3. ASSUME NEW s \in Spans, Discarded(s) \/ Uploaded(s)
        PROVE  WireExact' /\ \A t \in Traces : IdsExact(t)'
    <3>1. /\ fate[s] = "none" /\ fate'[s] \in {"full", "stripped", "discarded"}
          /\ \A q \in Spans : q # s => fate'[q] = fate[q]
      BY <2>3, SpanTyped DEF Discarded, Uploaded, OneOut, Records, GateFacts, GateProofs!TypeOK,
                             GateProofs!Records
    <3>2. WireExact'
      <4> SUFFICES ASSUME ~TransportClosed
                   PROVE  wire' = {q \in Spans : fate'[q] \in {"full", "stripped"}}
        BY <2>1 DEF WireExact
      <4>1. wire = {q \in Spans : fate[q] \in {"full", "stripped"}}
        BY DEF Counted
      <4>2. CASE Discarded(s)
        BY <3>1, <4>1, <4>2 DEF Discarded
      <4>3. CASE Uploaded(s)
        BY <3>1, <4>1, <4>3 DEF Uploaded, Upload
      <4> QED
        BY <2>3, <4>2, <4>3
    <3> QED
      BY <2>1, <2>3, <3>2, SpanOutExact
  <2>4. ASSUME NEW u \in Traces, Completed(u) PROVE WireExact' /\ \A t \in Traces : IdsExact(t)'
    <3>1. wire' = wire /\ \A q \in Spans : fate'[q] = fate[q]
      BY <2>4, PipelineAssumption DEF Completed, OneOut, Records
    <3>2. WireExact'
      BY <2>1, <3>1 DEF Counted, WireExact
    <3> QED
      BY <2>1, <2>4, <3>2, CompletedExact
  <2> QED
    BY <1>5, <2>2, <2>3, <2>4, GateStepForms DEF Typed
<1>6. ASSUME UNCHANGED <<gateVars, vars, wire>>, \A t : Begun(t)' = Begun(t)
      PROVE  WireExact' /\ \A t \in Traces : IdsExact(t)'
  <2>1. UNCHANGED <<fate, complete, spanIDs, tracked, wire, closer>>
    BY <1>6 DEF gateVars, vars
  <2> QED
    BY <1>6, <2>1, OtherExact DEF Counted, IdsExact, WireExact, TransportClosed
<1>7. CASE UNCHANGED pipelineVars
  BY <1>6, <1>7 DEF pipelineVars, Begun
<1>8. ASSUME NEW s \in Spans, Looks(s) PROVE WireExact' /\ \A t \in Traces : IdsExact(t)'
  <2>1. \A t : Begun(t)' = Begun(t)
    BY <1>8, LookForms DEF Begun, SpansOf, Typed, Busy
  <2> QED
    BY <1>6, <1>8, <2>1, LookForms
<1>9. ASSUME NEW u \in Traces, Drop(u) PROVE WireExact' /\ \A t \in Traces : IdsExact(t)'
  BY <1>6, <1>9 DEF Drop, Begun
<1> QED
  BY <1>1, <1>2, <1>3, <1>4, <1>5, <1>7, <1>8, <1>9 DEF PipelineNext, Ending, Looks

(* A completion leaves the gate after all the spans of its trace, where    *)
(* none was pushed out of the full queue.                                  *)
NothingPushedOut == \A r \in Gate!Records : evicted[r] = None

AllOut ==
  \A t \in Traces : fate[t] # "none" => \A s \in Begun(t) : fate[s] # "none" \/ s \in Withheld

LEMMA CompletionLast ==
  GateFacts /\ IdleUnsent /\ RootLast /\ NothingPushedOut => AllOut
<1> SUFFICES ASSUME GateFacts, IdleUnsent, RootLast, NothingPushedOut,
                    NEW t \in Traces, fate[t] # "none", NEW s \in Begun(t), s \notin Withheld
             PROVE  fate[s] # "none"
  BY DEF AllOut
<1>1. s \in ahead[t] /\ s \in Spans
  BY DEF IdleUnsent, RootLast, Records, Begun, SpansOf
<1>2. fate[s] # "none" \/ GateProofs!Overflowing(s)
  BY <1>1 DEF GateFacts, GateProofs!CompletionFollowsSpans
<1>3. ~GateProofs!Overflowing(s)
  BY <1>1, RecordNames, PipelineAssumption
     DEF GateProofs!Overflowing, GateProofs!Carries, NothingPushedOut, Records
<1> QED
  BY <1>2, <1>3

Ready ==
  /\ Typed /\ ClosedLedger /\ GateFacts /\ IdleUnsent /\ Handed /\ RootLast /\ ToldOf
  /\ Awaited /\ Counted

LEMMA PromiseCounts == \A S : Promise!Cardinality(S) = Cardinality(S)
BY DEF Promise!Cardinality, Cardinality

LEMMA PromiseSpansOf == \A t : Promise!SpansOf(t) = SpansOf(t)
BY DEF Promise!SpansOf, SpansOf

Settled == {s \in Spans : fate[s] # "none"} \cup Withheld
AllBegun == {s \in Spans : phase[s] # "new"}
ToldTraces == {t \in flagged : completions[t] # <<>>}
promiseVars == <<AllBegun, Settled, wire, Withheld, asked, completions, ToldTraces>>

(* The step of the tracker that closes a trace announces it. *)
LEMMA CloseAnnounces ==
  ASSUME Ready, NEW t \in Traces, NEW n, n = Cardinality(spanIDs[t]),
         called' = {[trace |-> t, count |-> n]}, SubmitCompletions,
         completions[t] = <<>>, fate[t] = "none" \/ complete[t], call[t] # "idle",
         \A s \in Begun(t) : fate[s] # "none" \/ s \in Withheld,
         UNCHANGED <<AllBegun, Settled, wire, Withheld, asked, flagged>>
  PROVE  Promise!Announce(t) \/ UNCHANGED promiseVars
<1>1. n \in Nat
  BY CountNat DEF Ready, Typed, TypeOK
<1>2. completions \in [Traces -> Seq(Nat)] /\ completions' \in [Traces -> Seq(Nat)]
  BY <1>1, SubmitOne DEF Ready, Typed
<1>3. CASE TransportClosed
  <2>1. completions' = completions
    BY <1>1, <1>3, SubmitOne DEF Ready, Typed
  <2> QED
    BY <2>1 DEF promiseVars, ToldTraces
<1>4. CASE ~TransportClosed
  <2>1. spanIDs[t] = (wire \cup Withheld) \cap SpansOf(t)
    <3>1. wire = {s \in Spans : fate[s] \in {"full", "stripped"}}
      BY <1>4 DEF Ready, Counted
    <3>2. spanIDs[t] = {s \in Begun(t) : fate[s] # "discarded"}
      BY DEF Ready, Counted
    <3>3. ASSUME NEW s \in SpansOf(t), fate[s] # "none" PROVE s \in Begun(t)
      BY <3>3, SpanTyped DEF Ready, IdleUnsent, Handed, Begun, SpansOf
    <3>4. \A s \in SpansOf(t) : fate[s] \in {"none", "full", "stripped", "discarded"}
      BY FateTyped, SpanTyped DEF Ready, SpansOf
    <3>5. \A s \in SpansOf(t) : s \in Withheld => s \in Begun(t) /\ fate[s] = "none"
      BY SpanTyped DEF Ready, IdleUnsent, Withheld, Begun, SpansOf
    <3>6. \A s \in SpansOf(t) : s \in spanIDs[t] <=> s \in wire \cup Withheld
      BY <3>1, <3>2, <3>3, <3>4, <3>5 DEF SpansOf
    <3> QED
      BY <3>2, <3>6 DEF Begun
  <2>2. completions'[t] = <<Promise!Cardinality((wire \cup Withheld) \cap Promise!SpansOf(t))>>
    <3>1. completions'[t] = <<>> \o <<n>>
      BY <1>1, <1>4, SubmitOne DEF Ready, Typed
    <3>2. <<>> \o <<n>> = <<n>>
      BY <1>1
    <3> QED
      BY <2>1, <3>1, <3>2, PromiseCounts, PromiseSpansOf
  <2>3. \A u \in Traces : u # t => completions'[u] = completions[u]
    BY <1>1, SubmitOne DEF Ready, Typed
  <2>4. completions' =
          [completions EXCEPT ![t] =
             <<Promise!Cardinality((wire \cup Withheld) \cap Promise!SpansOf(t))>>]
    BY <1>2, <2>2, <2>3
  <2>5. AllBegun \cap Promise!SpansOf(t) \subseteq Settled
    BY PromiseSpansOf DEF AllBegun, Begun, SpansOf, Settled
  <2>6. \/ t \in asked /\ ToldTraces' = ToldTraces \cup {t}
        \/ Withheld \cap Promise!SpansOf(t) = {} /\ ToldTraces' = ToldTraces
    <3>1. completions'[t] # <<>>
      BY <2>2
    <3>2. flagged \subseteq asked /\ asked \subseteq Traces
      BY DEF Ready, Typed
    <3>3. CASE t \in flagged
      <4>1. ToldTraces' = ToldTraces \cup {t}
        BY <2>3, <3>1, <3>2, <3>3 DEF ToldTraces
      <4> QED
        BY <3>2, <3>3, <4>1
    <3>4. CASE t \notin flagged
      <4>1. ToldTraces' = ToldTraces
        BY <2>3, <3>2, <3>4 DEF ToldTraces
      <4>2. PICK r \in Roots : TraceOf[r] = t /\ phase[r] \in Over
        BY DEF Ready, RootLast
      <4>3. ASSUME NEW s \in Withheld, TraceOf[s] = t PROVE FALSE
        BY <3>4, <4>2, <4>3 DEF Ready, ToldOf
      <4> QED
        BY <4>1, <4>3, PromiseSpansOf DEF SpansOf
    <3> QED
      BY <3>3, <3>4
  <2> QED
    BY <2>4, <2>5, <2>6 DEF Promise!Announce, AllBegun, Settled, ToldTraces
<1> QED
  BY <1>3, <1>4

(* While no completion of a trace was handed over, none went. *)
LEMMA NothingYet ==
  ASSUME Ready, NEW t \in Traces, call[t] = "idle"
  PROVE  completions[t] = <<>>
BY DEF Ready, IdleUnsent, Awaited, AwaitedFor, Records

LEMMA BeginMaps ==
  ASSUME Nested, Ready, NEW s \in Spans, Begin(s), Withheld' = Withheld
  PROVE  Promise!Begin(s)
<1>1. /\ phase[s] = "new" /\ phase' = [phase EXCEPT ![s] = "open"]
      /\ s \notin Roots => phase[Parent[s]] = "open"
      /\ UNCHANGED <<fate, call, wire, completions, asked, flagged>>
  BY DEF Begin, gateVars, dropVars
<1>2. completions[TraceOf[s]] = <<>>
  <2> SUFFICES ASSUME call[TraceOf[s]] # "idle" PROVE FALSE
    BY NothingYet, SpanTyped
  <2>2. PICK r \in Roots : TraceOf[r] = TraceOf[s] /\ phase[r] \in Over
    BY SpanTyped DEF Ready, RootLast
  <2>3. s # r /\ s \notin Roots
    BY <1>1, <2>2, PipelineAssumption DEF Over
  <2>4. Parent[s] \in Spans /\ TraceOf[Parent[s]] = TraceOf[s] /\ phase[Parent[s]] = "open"
    BY <1>1, <2>3, PipelineAssumption
  <2> QED
    BY <2>4, OpenEarly DEF Ready
<1>3. AllBegun' = AllBegun \cup {s} /\ s \notin AllBegun
  BY <1>1 DEF AllBegun, Ready, Typed
<1>4. Settled' = Settled /\ ToldTraces' = ToldTraces
  BY <1>1 DEF Settled, ToldTraces
<1> QED
  BY <1>1, <1>2, <1>3, <1>4 DEF Promise!Begin, AllBegun, Settled, ToldTraces

(* A span that leaves the gate is settled. *)
LEMMA SpanOutMaps ==
  ASSUME Ready, IdleUnsent', Handed', phase' = phase, UNCHANGED dropVars, Withheld' = Withheld,
         NEW s \in Spans, Discarded(s) \/ Uploaded(s)
  PROVE  Promise!Settle(s)
<1>1. /\ OneOut(s) /\ s \in Begun(TraceOf[s]) /\ completions' = completions
      /\ wire' = wire \/ wire' = wire \cup {s}
  BY OutBegun DEF Discarded, Uploaded, Upload
<1>2. s \notin Withheld
  <2>1. call'[s] # "idle"
    BY <1>1, SpanTyped DEF IdleUnsent, OneOut
  <2>2. s \notin Withheld'
    BY <2>1 DEF Withheld
  <2> QED
    BY <2>2
<1>3. s \in AllBegun \ Settled /\ AllBegun' = AllBegun
  BY <1>1, <1>2 DEF OneOut, Begun, AllBegun, Settled
<1>4. Settled' = Settled \cup {s}
  BY <1>1 DEF OneOut, Records, Settled
<1>5. UNCHANGED asked /\ ToldTraces' = ToldTraces
  BY <1>1 DEF dropVars, ToldTraces
<1> QED
  BY <1>1, <1>3, <1>4, <1>5 DEF Promise!Settle, AllBegun, Settled, ToldTraces

LEMMA CompletedMaps ==
  ASSUME Ready, AllOut', phase' = phase, UNCHANGED dropVars, Withheld' = Withheld,
         NEW t \in Traces, Completed(t), call[t] # "idle"
  PROVE  Promise!Announce(t) \/ UNCHANGED promiseVars
<1>1. /\ fate[t] = "none" /\ fate'[t] # "none" /\ Close(t, t \in flagged) /\ SubmitCompletions
      /\ wire' = wire /\ \A s \in Spans : fate'[s] = fate[s]
  BY PipelineAssumption DEF Completed, OneOut, Records
<1>2. UNCHANGED <<AllBegun, Settled, wire, Withheld, asked, flagged>>
  BY <1>1 DEF AllBegun, Settled, dropVars
<1>3. \A s \in Begun(t) : fate[s] # "none" \/ s \in Withheld
  <2>1. \A s \in Begun(t)' : fate'[s] # "none" \/ s \in Withheld'
    BY <1>1 DEF AllOut
  <2>2. Begun(t)' = Begun(t)
    BY DEF Begun, SpansOf
  <2> QED
    BY <1>1, <2>1, <2>2 DEF Begun, SpansOf
<1>4. ~IsClosed(t) /\ completions[t] = <<>>
  BY <1>1 DEF Ready, Awaited, AwaitedFor
<1>5. \/ called' = {}
      \/ called' = {[trace |-> t, count |-> Cardinality(spanIDs[t])]}
  BY <1>1, <1>4 DEF Close, NoOp, Drain
<1>6. CASE called' = {}
  <2>1. completions' = completions
    BY <1>1, <1>6, SubmitNothing DEF Ready, Typed
  <2> QED
    BY <1>2, <2>1 DEF promiseVars, ToldTraces
<1>7. CASE called' # {}
  BY <1>1, <1>2, <1>3, <1>4, <1>5, <1>7, CloseAnnounces
<1> QED
  BY <1>6, <1>7

LEMMA FinishMaps ==
  ASSUME Ready, AllOut, NEW s \in Spans, Finish(s), Withheld' = Withheld
  PROVE  \/ \E t \in Traces : Promise!Announce(t)
         \/ UNCHANGED promiseVars
<1> DEFINE t == TraceOf[s]
<1>1. /\ phase[s] # "new" /\ phase' = [phase EXCEPT ![s] = "ended"]
      /\ End(t, s) /\ t \in Traces /\ UNCHANGED <<fate, wire, asked, flagged>>
      /\ SubmitCompletions
  BY SpanTyped DEF Finish, Handled, EndInTracker, gateVars, dropVars
<1> HIDE DEF t
<1>2. UNCHANGED <<AllBegun, Settled, wire, Withheld, asked, flagged>>
  BY <1>1 DEF AllBegun, Settled, Ready, Typed
<1>3. \/ called' = {}
      \/ complete[t] /\ called' = {[trace |-> t, count |-> Cardinality(spanIDs[t])]}
  BY <1>1 DEF End, NoOp, Drain
<1>4. CASE called' = {}
  <2>1. completions' = completions
    BY <1>1, <1>4, SubmitNothing DEF Ready, Typed
  <2> QED
    BY <1>2, <2>1 DEF promiseVars, ToldTraces
<1>5. CASE called' # {}
  <2>1. complete[t] /\ fate[t] # "none" /\ completions[t] = <<>>
    BY <1>1, <1>3, <1>5 DEF Ready, Awaited, AwaitedFor
  <2>2. \A q \in Begun(t) : fate[q] # "none" \/ q \in Withheld
    BY <1>1, <2>1 DEF AllOut
  <2>3. call[t] # "idle"
    BY <1>1, <2>1 DEF Ready, IdleUnsent, Records
  <2> QED
    BY <1>1, <1>2, <1>3, <1>5, <2>1, <2>2, <2>3, CloseAnnounces
<1> QED
  BY <1>4, <1>5

(* A span whose end finds its trace dropped is withheld. *)
LEMMA WithholdMaps ==
  ASSUME Ready, NEW s \in Spans, Withholds(s)
  PROVE  Promise!Withhold(s)
<1>1. /\ phase[s] = "open" /\ phase'[s] # "new" /\ \A q \in Spans : q # s => phase'[q] = phase[q]
      /\ UNCHANGED <<fate, call, wire, completions, asked, flagged>>
      /\ TraceOf[s] \in dropped /\ s \notin Withheld /\ Withheld' = Withheld \cup {s}
  BY DEF Withholds, EndSpan, gateVars, dropVars, Ready, Typed
<1>2. fate[s] = "none" /\ TraceOf[s] \in asked
  BY <1>1, SpanTyped DEF Ready, Handed, IdleUnsent, Typed
<1>3. s \in AllBegun \ Settled /\ AllBegun' = AllBegun /\ Settled' = Settled \cup {s}
  BY <1>1, <1>2 DEF AllBegun, Settled
<1>4. ToldTraces' = ToldTraces
  BY <1>1 DEF ToldTraces
<1> QED
  BY <1>1, <1>2, <1>3, <1>4 DEF Promise!Withhold, AllBegun, Settled, ToldTraces

LEMMA DropMaps ==
  ASSUME Ready, NEW t \in Traces, Drop(t), Withheld' = Withheld
  PROVE  Promise!Drop(t)
<1>1. /\ UNCHANGED <<fate, phase, wire, completions, flagged>>
      /\ asked' = asked \cup {t}
      /\ \E s \in Spans : TraceOf[s] = t /\ phase[s] # "new"
  BY DEF Drop, gateVars
<1>2. AllBegun \cap Promise!SpansOf(t) # {}
  BY <1>1, PromiseSpansOf DEF AllBegun, SpansOf
<1>3. UNCHANGED <<AllBegun, Settled, ToldTraces>>
  BY <1>1 DEF AllBegun, Settled, ToldTraces
<1> QED
  BY <1>1, <1>2, <1>3 DEF Promise!Drop, AllBegun, Settled, ToldTraces

(* What a root looks up after its own span announces nothing. *)
LEMMA LookMaps ==
  ASSUME Ready, NEW s \in Spans, Looks(s), Withheld' = Withheld
  PROVE  UNCHANGED promiseVars
<1>1. /\ UNCHANGED <<gateVars, vars, wire, completions, asked>>
      /\ phase[s] \in Busy /\ \E p \in Busy : phase' = [phase EXCEPT ![s] = p]
  BY LookForms DEF Ready
<1>2. AllBegun' = AllBegun
  BY <1>1 DEF AllBegun, Ready, Typed, Busy
<1>3. Settled' = Settled
  BY <1>1 DEF Settled, gateVars
<1>4. ToldTraces' = ToldTraces
  <2>1. CASE EndSpan(s) \/ DeleteTraceState(s)
    <3>1. flagged' = flagged
      BY <2>1 DEF EndSpan, DeleteTraceState, dropVars
    <3> QED
      BY <1>1, <3>1 DEF ToldTraces
  <2>2. CASE BuildCompletion(s)
    <3>1. s \in Roots /\ phase[s] = "sending" /\ flagged' = flagged \cup (dropped \cap {TraceOf[s]})
      BY <2>2 DEF BuildCompletion, Handled
    <3>2. call[TraceOf[s]] = "idle"
      BY <3>1, SpanTyped, PipelineAssumption DEF Ready, RootLast, Over
    <3>3. completions[TraceOf[s]] = <<>>
      BY <3>2, NothingYet, SpanTyped
    <3> QED
      BY <1>1, <3>1, <3>3 DEF ToldTraces
  <2> QED
    BY <2>1, <2>2 DEF Looks
<1> QED
  BY <1>1, <1>2, <1>3, <1>4 DEF promiseVars

(* A call that hands a record over announces nothing either. *)
LEMMA QuietMaps ==
  ASSUME Ready, Quiet, AllBegun' = AllBegun, UNCHANGED dropVars, Withheld' = Withheld
  PROVE  UNCHANGED promiseVars
BY DEF Quiet, promiseVars, Settled, ToldTraces, dropVars

LEMMA StepMaps ==
  ASSUME Nested, Ready, AllOut, IdleUnsent', Handed', AllOut', [PipelineNext]_pipelineVars
  PROVE  Promise!Next \/ UNCHANGED promiseVars
<1>1. CASE \E s \in Spans : Withholds(s)
  BY <1>1, WithholdMaps DEF Promise!Next
<1>2. SUFFICES ASSUME Withheld' = Withheld PROVE Promise!Next \/ UNCHANGED promiseVars
  BY <1>1, WithheldStep DEF Ready
<1>3. ASSUME NEW s \in Spans, Begin(s) PROVE Promise!Next
  BY <1>2, <1>3, BeginMaps DEF Promise!Next
<1>4. ASSUME NEW s \in Spans, SendPayload(s) PROVE UNCHANGED promiseVars
  <2>1. Quiet /\ UNCHANGED dropVars
    BY <1>4, SpanTyped, HandOverForms DEF SendPayload, Ready, Typed
  <2>2. AllBegun' = AllBegun
    BY <1>4 DEF SendPayload, AllBegun, Ready, Typed
  <2> QED
    BY <1>2, <2>1, <2>2, QuietMaps
<1>5. ASSUME NEW s \in Spans, SendTraceCompletion(s) PROVE UNCHANGED promiseVars
  <2>1. Quiet
    BY <1>5, SpanTyped, HandOverForms DEF SendTraceCompletion, Ready, Typed, Records
  <2>2. AllBegun' = AllBegun /\ UNCHANGED dropVars
    BY <1>5 DEF SendTraceCompletion, AllBegun
  <2> QED
    BY <1>2, <2>1, <2>2, QuietMaps
<1>6. ASSUME NEW s \in Spans, Looks(s) PROVE UNCHANGED promiseVars
  BY <1>2, <1>6, LookMaps
<1>7. ASSUME NEW s \in Spans, Finish(s) PROVE Promise!Next \/ UNCHANGED promiseVars
  BY <1>2, <1>7, FinishMaps DEF Promise!Next
<1>8. ASSUME NEW t \in Traces, Drop(t) PROVE Promise!Next
  BY <1>2, <1>8, DropMaps DEF Promise!Next
<1>9. CASE GateStep
  <2>1. /\ phase' = phase /\ UNCHANGED dropVars
        /\ \A d \in Records : call'[d] = "idle" <=> call[d] = "idle"
    BY <1>9, GateStepForms DEF Ready, Typed
  <2>2. Quiet => UNCHANGED promiseVars
    BY <1>2, <2>1, QuietMaps DEF AllBegun
  <2>3. ASSUME NEW s \in Spans, Discarded(s) \/ Uploaded(s) PROVE Promise!Next
    BY <1>2, <2>1, <2>3, SpanOutMaps DEF Promise!Next
  <2>4. ASSUME NEW t \in Traces, Completed(t)
        PROVE  Promise!Next \/ UNCHANGED promiseVars
    <3>1. call'[t] # "idle"
      BY <2>4 DEF Completed, OneOut, IdleUnsent, Records
    <3>2. call[t] # "idle"
      BY <2>1, <3>1 DEF Records
    <3> QED
      BY <1>2, <2>1, <2>4, <3>2, CompletedMaps DEF Promise!Next
  <2> QED
    BY <1>9, <2>2, <2>3, <2>4, GateStepForms DEF Ready, Typed
<1>10. CASE UNCHANGED pipelineVars
  BY <1>2, <1>10 DEF pipelineVars, gateVars, dropVars, promiseVars, AllBegun, Settled, ToldTraces
<1> QED
  BY <1>3, <1>4, <1>5, <1>6, <1>7, <1>8, <1>9, <1>10 DEF PipelineNext, Ending, Looks

LEMMA InitReady == PipelineInit => Handed /\ RootLast /\ ToldOf /\ Counted
<1> SUFFICES ASSUME PipelineInit PROVE Handed /\ RootLast /\ ToldOf /\ Counted
  OBVIOUS
<1>1. /\ \A s \in Spans : phase[s] = "new"
      /\ \A r \in Records : call[r] = "idle" /\ fate[r] = "none"
      /\ \A t \in Traces : spanIDs[t] = {}
      /\ wire = {}
  BY RecordNames DEF PipelineInit, Init, Gate!Init
<1>2. (\A t : Begun(t) = {}) /\ Withheld = {}
  BY <1>1 DEF Begun, SpansOf, Withheld
<1>3. Handed /\ RootLast
  BY <1>1, SpanTyped, PipelineAssumption DEF Handed, RootLast, Records, Busy, Over
<1>4. Counted
  BY <1>1, <1>2, SpanTyped DEF Counted, Records
<1> QED
  BY <1>2, <1>3, <1>4 DEF ToldOf

(* Where the host nests its spans and the queue of the gate never          *)
(* overflows, the server is promised the truth: every trace is announced   *)
(* at most once, after all its spans, with the number of those that were   *)
(* uploaded or withheld, and says dropped wherever one was withheld and    *)
(* only where the host called Drop; whatever the plan says, whenever it    *)
(* arrives, whoever drains the queue and whenever Drop is called.          *)
THEOREM PromiseKept ==
  ASSUME Nested
  PROVE  PipelineSpec /\ []NothingPushedOut => KeepsPromise
<1>1. PipelineSpec => [](Typed /\ ClosedLedger /\ PendingWaits /\ GateFacts /\ Awaited)
  BY PipelineFacts, AwaitedHolds, PTL
<1>2. Typed /\ GateFacts /\ Handed /\ [PipelineNext]_pipelineVars => Handed'
  BY StepHanded
<1>3. Typed /\ GateFacts /\ Handed /\ Handed' /\ RootLast /\ [PipelineNext]_pipelineVars
        => RootLast'
  BY StepRootLast
<1>4. Typed /\ GateFacts /\ Handed /\ RootLast /\ ToldOf /\ [PipelineNext]_pipelineVars
        => ToldOf'
  BY StepToldOf
<1>5. Typed /\ ClosedLedger /\ GateFacts /\ GateFacts' /\ IdleUnsent /\ IdleUnsent'
        /\ Handed /\ Handed' /\ Awaited /\ Counted /\ [PipelineNext]_pipelineVars => Counted'
  BY StepCounted
<1>6. PipelineSpec => []Ready
  BY <1>1, <1>2, <1>3, <1>4, <1>5, InitReady, IdleStays, PTL DEF PipelineSpec, Ready
<1>7. PipelineSpec /\ []NothingPushedOut => []AllOut
  BY <1>6, CompletionLast, PTL DEF Ready
<1>8. Ready => IdleUnsent /\ Handed
  BY DEF Ready
<1>9. Ready /\ AllOut /\ IdleUnsent' /\ Handed' /\ AllOut' /\ [PipelineNext]_pipelineVars
        => [Promise!Next]_promiseVars
  BY StepMaps
<1>10. PipelineInit => Promise!Init
  <2> SUFFICES ASSUME PipelineInit PROVE Promise!Init
    OBVIOUS
  <2>1. /\ \A s \in Spans : phase[s] = "new"
        /\ \A s \in Spans : fate[s] = "none"
        /\ wire = {} /\ completions = [t \in Traces |-> <<>>]
        /\ asked = {} /\ flagged = {}
    BY RecordNames, SpanTyped DEF PipelineInit, Gate!Init
  <2>2. Withheld = {}
    BY <2>1 DEF Withheld
  <2> QED
    BY <2>1, <2>2 DEF Promise!Init
<1>11. Promise!Spec <=> Promise!Init /\ [][Promise!Next]_promiseVars
  BY DEF Promise!Spec, Promise!vars, promiseVars, AllBegun, Settled, ToldTraces
<1> QED
  BY <1>6, <1>7, <1>8, <1>9, <1>10, <1>11, PTL DEF PipelineSpec, KeepsPromise
=============================================================================
