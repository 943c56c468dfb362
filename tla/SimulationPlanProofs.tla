------------------------- MODULE SimulationPlanProofs -------------------------
(***************************************************************************)
(* Proofs about SimulationPlan, for every set of spans and traces and      *)
(* every bound of the queue: no span uploads content that no plan has      *)
(* allowed; a closed client leaves nothing in the gate; no record is lost  *)
(* or duplicated; a completion follows its spans, and a flush misses       *)
(* nothing but what the full queue has pushed out.                         *)
(***************************************************************************)
EXTENDS SimulationPlan, SequenceTheorems, FiniteSetTheorems, TLAPS

(* A plan has been loaded, or none will be waited for any more. *)
Decided == loaded \/ NoPlanComes

Child(s) == s \in Spans \ (Roots \cup Unplanned \cup Ignored)

(* Why content is safe: whoever is about to submit a child's content does  *)
(* so after the plan is decided, and a decision is never taken back.       *)
Gated ==
  /\ drainer # None => Decided
  /\ \A s \in Spans : Child(s) /\ call[s] = "deliver" => Decided
  /\ skipped => stopped
  /\ loaded => Spans \ contentOff \subseteq allowed
  /\ ContentNeedsPlan

(* Why close leaves nothing: a batch belongs to the holder of drainMu, and *)
(* once the plan is stopped and flushed again nobody adds to the queue.    *)
Emptied ==
  /\ \A p \in Drainers : batch[p] # <<>> => drainer = p
  /\ drainer = "closer" <=> closer \in {"drain", "redrain"}
  /\ closer \in {"reflush", "redrain", "shut"} => stopped
  /\ closer \in {"redrain", "shut"} => held = <<>>
  /\ closer = "shut" => drainer = None

(* The records in a queue. *)
Elements(queue) == {queue[i] : i \in 1..Len(queue)}

Distinct(queue) ==
  \A i, j \in 1..Len(queue) : queue[i] = queue[j] => i = j

Stations == {"held", "reader", "closer", "evicted", "deliver", "left"}

At(station, r) ==
  CASE station = "held" -> r \in Elements(held)
    [] station \in Drainers -> r \in Elements(batch[station])
    [] station = "evicted" -> Overflowing(r)
    [] station = "deliver" -> call[r] = "deliver"
    [] station = "left" -> fate[r] # "none"

(* Why no record is lost or duplicated: one that was handed over is at one *)
(* station, in one position of it.                                         *)
Placed(r) ==
  IF call[r] = "idle"
  THEN evicted[r] = None /\ \A n \in Stations : ~At(n, r)
  ELSE \E m \in Stations : \A n \in Stations : At(n, r) <=> n = m

Conserved ==
  /\ Distinct(held)
  /\ \A p \in Drainers : Distinct(batch[p])
  /\ \A q1, q2, r \in Records : Carries(q1, r) /\ Carries(q2, r) => q1 = q2
  /\ \A r \in Records : Placed(r)

(* What is held once the plan is decided is the completions of the traces  *)
(* that are being drained.  There are at most as many as records were      *)
(* held, so that the queue does not overflow meanwhile.                    *)
Settled ==
  /\ Decided => Elements(held) \subseteq draining
  /\ drainer = None => draining = {}
  /\ \A p \in Drainers : \A s \in Elements(batch[p]) \cap Spans : TraceOf[s] \in draining
  /\ IsFiniteSet(draining) /\ Cardinality(draining) <= MaxHeld
  /\ reader = "exit" => Decided /\ drainer = None
  /\ closer \notin {"open", "flush"} => closing
  /\ closer \in {"stop", "reflush", "redrain", "shut"} => drainer = None
  /\ stopped => closer \in {"reflush", "redrain", "shut"}

Behind(queue, s, t) ==
  \A i \in 1..Len(queue) : queue[i] = s =>
    \E j \in 1..Len(queue) : i < j /\ queue[j] = t

(* Why a completion comes after its spans: it is queued behind them.       *)
Queued ==
  \A t \in Traces : \A s \in ahead[t] :
    /\ TraceOf[s] = t /\ call[s] = "done" /\ call[t] # "idle"
    /\ Behind(held, s, t)
    /\ \A p \in Drainers : t \in Elements(held) \/ Behind(batch[p], s, t)

Waiting == Elements(held) \cup (UNION {Elements(batch[p]) : p \in Drainers})

SpanPushedOut(t) == \E s \in Spans : TraceOf[s] = t /\ PushedOut(s)

(* Why a flush misses a completion only if a span of its trace was pushed  *)
(* out: what a waiting completion waits for is in the queue, or among the  *)
(* traces being drained, or was pushed out.                                *)
Caused == \A t \in Waiting \cap Traces : t \in draining \/ SpanHeld(t) \/ SpanPushedOut(t)

(* The records a flush answers for are those whose calls had returned. *)
Answered == flush # "idle" => \A r \in owed : call[r] = "done"

-----------------------------------------------------------------------------
LEMMA RecordsTyped ==
  /\ Spans \subseteq Records /\ Traces \subseteq Records
  /\ Roots \subseteq Spans /\ Kept \subseteq Spans
  /\ Unplanned \subseteq Spans /\ Ignored \subseteq Spans
  /\ TraceOf \in [Spans -> Traces] /\ Plans \subseteq SUBSET Spans
  /\ MaxHeld \in Nat /\ MaxHeld >= 1
  /\ None \notin Drainers
BY PlanAssumption DEF Records

(* What a record leaves as. *)
LEMMA FormTyped ==
  ASSUME NEW r \in Records
  PROVE  /\ Form(r) \in {"full", "stripped", "discarded"}
         /\ FormWithoutPlan(r) \in {"full", "stripped", "discarded"}
<1>1. r \in Spans \/ r \in Traces
  BY DEF Records
<1>2. Form(r) \in {"full", "stripped", "discarded"}
  <2>1. CASE r \in Traces \cup Unplanned \cup Ignored
    BY <2>1, PlanAssumption DEF Form
  <2>2. CASE r \in Spans \ (Unplanned \cup Ignored) /\ loaded
    BY <2>2, PlanAssumption DEF Form
  <2>3. CASE r \in Spans \ (Unplanned \cup Ignored) /\ ~loaded
    BY <2>3, PlanAssumption DEF Form, WithoutPlan
  <2> QED
    BY <1>1, <2>1, <2>2, <2>3
<1> QED
  BY <1>2 DEF FormWithoutPlan, WithoutPlan

(* A child that has to wait for the plan leaves with its content only if a *)
(* loaded plan leaves the content on.                                      *)
LEMMA FormOfChild ==
  ASSUME NEW s, Child(s)
  PROVE  /\ Form(s) = "full" /\ Decided => loaded /\ s \notin contentOff
         /\ FormWithoutPlan(s) # "full"
<1>1. s \in Spans \ (Unplanned \cup Ignored) /\ s \notin Traces /\ s \notin Roots
  BY PlanAssumption DEF Child
<1>2. WithoutPlan(s) = "stripped"
  BY <1>1 DEF WithoutPlan
<1>3. CASE loaded
  <2>1. Form(s) = IF s \notin contentOff THEN "full"
                  ELSE IF s \in Roots \cup Kept THEN "stripped" ELSE "discarded"
    BY <1>1, <1>3 DEF Form
  <2> QED
    BY <1>1, <1>2, <1>3, <2>1 DEF FormWithoutPlan
<1>4. CASE ~loaded
  <2>1. Form(s) = IF NoPlanComes THEN WithoutPlan(s) ELSE "full"
    BY <1>1, <1>4 DEF Form
  <2> QED
    BY <1>1, <1>2, <1>4, <2>1 DEF FormWithoutPlan, Decided
<1> QED
  BY <1>3, <1>4

-----------------------------------------------------------------------------
LEMMA RefreshedTyped ==
  ASSUME TypeOK
  PROVE  Refreshed \in {"off", "begin", "reading", "lock", "drain", "exit"}
BY DEF TypeOK, Refreshed

LEMMA HoldTyped ==
  ASSUME TypeOK, NEW r \in Records, Hold(r)
  PROVE  /\ held' \in Seq(Records) /\ Len(held') <= MaxHeld
         /\ call' \in [Records -> {"idle", "deliver", "evict", "done"}]
         /\ evicted' \in [Records -> Records \cup {None}]
         /\ reader' \in {"off", "begin", "reading", "lock", "drain", "exit"}
<1> DEFINE queue == Append(held, r)
<1>1. /\ queue \in Seq(Records) /\ queue # <<>>
      /\ Len(queue) = Len(held) + 1 /\ Len(held) \in Nat
  BY AppendProperties, LenProperties DEF TypeOK
<1>2. Tail(queue) \in Seq(Records) /\ Len(Tail(queue)) = Len(queue) - 1
  BY <1>1, HeadTailProperties
<1>3. Head(queue) \in Records
  BY <1>1, HeadTailProperties
<1>4. reader' \in {"off", "begin", "reading", "lock", "drain", "exit"}
  BY RefreshedTyped DEF Hold
<1>5. CASE Fits(queue)
  <2>1. held' = queue /\ call' = [call EXCEPT ![r] = "done"] /\ evicted' = evicted
    BY <1>5 DEF Hold
  <2> QED
    BY <1>1, <1>4, <1>5, <2>1 DEF TypeOK, Fits
<1>6. CASE ~Fits(queue)
  <2>1. /\ held' = Tail(queue) /\ call' = [call EXCEPT ![r] = "evict"]
        /\ evicted' = [evicted EXCEPT ![r] = Head(queue)]
    BY <1>6 DEF Hold
  <2>2. Len(held') <= MaxHeld
    BY <1>1, <1>2, <2>1 DEF TypeOK
  <2> QED
    BY <1>2, <1>3, <1>4, <2>1, <2>2 DEF TypeOK
<1> QED
  BY <1>5, <1>6

LEMMA PassTyped ==
  ASSUME TypeOK, NEW r \in Records, Pass(r)
  PROVE  /\ held' \in Seq(Records) /\ Len(held') <= MaxHeld
         /\ call' \in [Records -> {"idle", "deliver", "evict", "done"}]
         /\ evicted' \in [Records -> Records \cup {None}]
         /\ reader' \in {"off", "begin", "reading", "lock", "drain", "exit"}
BY RefreshedTyped DEF TypeOK, Pass

LEMMA TakeTyped ==
  ASSUME TypeOK, NEW p \in Drainers, TakeHeld(p)
  PROVE  /\ held' \in Seq(Records) /\ Len(held') <= MaxHeld
         /\ batch' \in [Drainers -> Seq(Records)]
         /\ draining' \in SUBSET Traces
         /\ drainer' \in Drainers \cup {None}
<1>1. held' = <<>> /\ batch' = [batch EXCEPT ![p] = held]
  BY DEF TakeHeld, ClearHeld
<1>2. draining' \in SUBSET Traces /\ drainer' \in Drainers \cup {None}
  BY PlanAssumption DEF TakeHeld, TypeOK
<1> QED
  BY <1>1, <1>2, RecordsTyped DEF TypeOK

-----------------------------------------------------------------------------
LEMMA InitTyped == Init => TypeOK
<1> SUFFICES ASSUME Init PROVE TypeOK
  OBVIOUS
<1>1. <<>> \in Seq(Records) /\ Len(<<>>) <= MaxHeld
  BY RecordsTyped, EmptySeq
<1> QED
  BY <1>1 DEF Init, TypeOK, Drainers

LEMMA StepTyped == TypeOK /\ [Next]_vars => TypeOK'
<1> SUFFICES ASSUME TypeOK, [Next]_vars PROVE TypeOK'
  OBVIOUS
<1> USE DEF planVars, queueVars, readerVars, callVars, flushVars
<1>1. ASSUME NEW s \in Spans, SendSpan(s) PROVE TypeOK'
  <2>1. s \in Records
    BY RecordsTyped
  <2>2. /\ held' \in Seq(Records) /\ Len(held') <= MaxHeld
        /\ call' \in [Records -> {"idle", "deliver", "evict", "done"}]
        /\ evicted' \in [Records -> Records \cup {None}]
        /\ reader' \in {"off", "begin", "reading", "lock", "drain", "exit"}
    BY <1>1, <2>1, HoldTyped, PassTyped DEF SendSpan
  <2> QED
    BY <1>1, <2>2 DEF SendSpan, TypeOK
<1>2. ASSUME NEW t \in Traces, SendTrace(t) PROVE TypeOK'
  <2>1. t \in Records
    BY RecordsTyped
  <2>2. /\ held' \in Seq(Records) /\ Len(held') <= MaxHeld
        /\ call' \in [Records -> {"idle", "deliver", "evict", "done"}]
        /\ evicted' \in [Records -> Records \cup {None}]
        /\ reader' \in {"off", "begin", "reading", "lock", "drain", "exit"}
    BY <1>2, <2>1, HoldTyped, PassTyped DEF SendTrace
  <2>3. ahead' \in [Traces -> SUBSET Spans]
    BY <1>2 DEF SendTrace, TypeOK
  <2> QED
    BY <1>2, <2>2, <2>3 DEF SendTrace, TypeOK
<1>3. ASSUME NEW r \in Records, Deliver(r) PROVE TypeOK'
  BY <1>3, FormTyped DEF Deliver, TypeOK
<1>4. ASSUME NEW r \in Records, Evict(r) PROVE TypeOK'
  <2>1. fate' \in [Records -> {"none", "full", "stripped", "discarded"}]
    <3>1. CASE evicted[r] \in Records
      BY <1>4, <3>1, FormTyped DEF Evict, TypeOK
    <3>2. CASE evicted[r] \notin Records
      BY <1>4, <3>2 DEF Evict, TypeOK
    <3> QED
      BY <3>1, <3>2
  <2> QED
    BY <1>4, <2>1 DEF Evict, TypeOK
<1>5. ASSUME NEW p \in Drainers, DrainOne(p) PROVE TypeOK'
  <2>1. batch[p] \in Seq(Records) /\ batch[p] # <<>>
    BY <1>5 DEF DrainOne, TypeOK
  <2>2. Head(batch[p]) \in Records /\ Tail(batch[p]) \in Seq(Records)
    BY <2>1, HeadTailProperties
  <2>3. fate' \in [Records -> {"none", "full", "stripped", "discarded"}]
    BY <1>5, <2>2, FormTyped DEF DrainOne, TypeOK
  <2> QED
    BY <1>5, <2>2, <2>3 DEF DrainOne, TypeOK
<1>6. ASSUME NEW p \in Drainers, DrainMore(p) PROVE TypeOK'
  <2>1. CASE HeldMeanwhile
    <3>1. /\ held' = <<>> /\ batch' = [batch EXCEPT ![p] = held]
          /\ UNCHANGED <<draining, drainer, reader, closer>>
      BY <1>6, <2>1 DEF DrainMore, ClearHeld
    <3> QED
      BY <1>6, <3>1, RecordsTyped DEF DrainMore, TypeOK
  <2>2. CASE ~HeldMeanwhile
    <3>1. /\ draining' = {} /\ drainer' = None /\ UNCHANGED <<held, batch>>
          /\ reader' = IF p = "reader" THEN "exit" ELSE reader
          /\ closer' = CASE p = "closer" /\ closer = "drain" -> "stop"
                         [] p = "closer" /\ closer = "redrain" -> "shut"
                         [] OTHER -> closer
      BY <1>6, <2>2 DEF DrainMore, UnlockDrainMu
    <3>2. closer' \in {"open", "flush", "drain", "stop", "reflush", "redrain", "shut"}
      BY <3>1 DEF TypeOK
    <3> QED
      BY <1>6, <3>1, <3>2 DEF DrainMore, TypeOK
  <2> QED
    BY <2>1, <2>2
<1>7. CASE Refresh
  BY <1>7, RefreshedTyped DEF Refresh, TypeOK
<1>8. CASE Tick
  BY <1>8 DEF Tick, TypeOK
<1>10. CASE ReaderBegin
  BY <1>10 DEF ReaderBegin, TypeOK
<1>11. CASE ReaderRead
  BY <1>11 DEF ReaderRead, TypeOK
<1>12. CASE ReaderLock
  <2>1. "reader" \in Drainers /\ TakeHeld("reader")
    BY <1>12 DEF ReaderLock, Drainers
  <2>2. /\ loaded' \in BOOLEAN /\ unavailable' \in BOOLEAN
        /\ contentOff' \in SUBSET Spans /\ allowed' \in SUBSET Spans
    <3>1. CASE outcome = {}
      BY <1>12, <3>1 DEF ReaderLock, TypeOK
    <3>2. CASE outcome # {}
      <4>1. PICK plan \in outcome :
              /\ loaded' = TRUE /\ contentOff' = plan /\ unavailable' = FALSE
              /\ allowed' = allowed \cup (Spans \ plan)
        BY <1>12, <3>2 DEF ReaderLock
      <4> QED
        BY <4>1, RecordsTyped DEF TypeOK
    <3> QED
      BY <3>1, <3>2
  <2>3. reader' \in {"exit", "drain"} /\ skipped' = FALSE /\ outcome' = {} /\ due' = FALSE
    BY <1>12 DEF ReaderLock
  <2> QED
    BY <1>12, <2>1, <2>2, <2>3, TakeTyped DEF ReaderLock, TypeOK
<1>13. CASE ReaderExit
  BY <1>13 DEF ReaderExit, TypeOK
<1>14. CASE CloseBegin
  BY <1>14, RefreshedTyped DEF CloseBegin, TypeOK
<1>15. CASE FlushHeld
  <2>1. "closer" \in Drainers /\ TakeHeld("closer")
    BY <1>15 DEF FlushHeld, Drainers
  <2> QED
    BY <1>15, <2>1, TakeTyped DEF FlushHeld, TypeOK
<1>16. CASE Stop
  BY <1>16 DEF Stop, TypeOK
<1>17. CASE FlushBegin
  BY <1>17, RefreshedTyped DEF FlushBegin, TypeOK
<1>18. CASE FlushAnswer
  BY <1>18 DEF FlushAnswer, TypeOK
<1>19. CASE UNCHANGED vars
  BY <1>19 DEF vars, TypeOK
<1> QED
  BY <1>1, <1>2, <1>3, <1>4, <1>5, <1>6, <1>7, <1>8, <1>10, <1>11, <1>12,
     <1>13, <1>14, <1>15, <1>16, <1>17, <1>18, <1>19
     DEF Next, Reader, Closer, Drain

(* Every variable keeps its type and the queue its bound, whatever the     *)
(* goroutines do and whatever the server answers.                          *)
THEOREM TypeCorrect == Spec => []TypeOK
<1> QED
  BY InitTyped, StepTyped, PTL DEF Spec

-----------------------------------------------------------------------------
(* A step that leaves the plan, drainMu, the calls and the fates alone. *)
LEMMA QuietGated ==
  ASSUME Gated,
         UNCHANGED <<loaded, contentOff, unavailable, closing, stopped, skipped,
                     drainer, call, fate, allowed>>
  PROVE  Gated'
BY DEF Gated, Decided, NoPlanComes, ContentNeedsPlan

(* A step in which one record r leaves the gate in a given form. *)
LEMMA LeaveGated ==
  ASSUME TypeOK, Gated, NEW r \in Records, NEW form,
         fate' = [fate EXCEPT ![r] = form],
         Child(r) /\ form = "full" => loaded /\ r \notin contentOff,
         UNCHANGED <<loaded, contentOff, unavailable, closing, stopped, skipped,
                     drainer, allowed>>,
         \A s \in Spans : call'[s] = "deliver" => call[s] = "deliver"
  PROVE  Gated'
<1>1. ContentNeedsPlan'
  <2> SUFFICES ASSUME NEW s \in Spans \ (Roots \cup Unplanned \cup Ignored), fate'[s] = "full"
               PROVE  s \in allowed
    BY DEF ContentNeedsPlan
  <2>1. CASE s = r
    <3>1. fate'[r] = form
      BY DEF TypeOK
    <3>2. loaded /\ s \notin contentOff
      BY <2>1, <3>1 DEF Child
    <3> QED
      BY <3>2 DEF Gated
  <2>2. CASE s # r
    BY <2>2, RecordsTyped DEF TypeOK, Gated, ContentNeedsPlan
  <2> QED
    BY <2>1, <2>2
<1>2. Decided' <=> Decided
  BY DEF Decided, NoPlanComes
<1> QED
  BY <1>1, <1>2 DEF Gated

LEMMA StepGated == TypeOK /\ Gated /\ [Next]_vars => Gated'
<1> SUFFICES ASSUME TypeOK, Gated, [Next]_vars PROVE Gated'
  OBVIOUS
<1> USE DEF planVars, queueVars, readerVars, callVars, flushVars
<1>1. ASSUME NEW s \in Spans, SendSpan(s) PROVE Gated'
  <2>1. \A q \in Spans : Child(q) /\ call'[q] = "deliver" => Decided
    <3>1. CASE HoldsSpan(s)
      <4>1. \A q \in Spans : call'[q] = "deliver" => call[q] = "deliver"
        BY <1>1, <3>1, RecordsTyped DEF SendSpan, Hold, TypeOK
      <4> QED
        BY <4>1 DEF Gated
    <3>2. CASE ~HoldsSpan(s)
      <4>1. call' = [call EXCEPT ![s] = "deliver"]
        BY <1>1, <3>2 DEF SendSpan, Pass
      <4>2. Child(s) => Decided
        BY <3>2 DEF HoldsSpan, Child, Decided, NoPlanComes
      <4> QED
        BY <4>1, <4>2, RecordsTyped DEF Gated, TypeOK
    <3> QED
      BY <3>1, <3>2
  <2>2. (Decided' <=> Decided) /\ (ContentNeedsPlan' <=> ContentNeedsPlan)
    BY <1>1 DEF SendSpan, Decided, NoPlanComes, ContentNeedsPlan
  <2> QED
    BY <1>1, <2>1, <2>2 DEF SendSpan, Gated
<1>2. ASSUME NEW t \in Traces, SendTrace(t) PROVE Gated'
  <2>1. \A q \in Spans : call'[q] = call[q]
    BY <1>2, PlanAssumption, RecordsTyped DEF SendTrace, Hold, Pass, TypeOK
  <2>2. (Decided' <=> Decided) /\ (ContentNeedsPlan' <=> ContentNeedsPlan)
    BY <1>2 DEF SendTrace, Decided, NoPlanComes, ContentNeedsPlan
  <2> QED
    BY <1>2, <2>1, <2>2 DEF SendTrace, Gated
<1>3. ASSUME NEW r \in Records, Deliver(r) PROVE Gated'
  <2>1. \A s \in Spans : call'[s] = "deliver" => call[s] = "deliver"
    BY <1>3, RecordsTyped DEF Deliver, TypeOK
  <2>2. Child(r) => r \in Spans /\ Decided
    BY <1>3 DEF Deliver, Gated, Child
  <2> QED
    BY <1>3, <2>1, <2>2, LeaveGated, FormOfChild DEF Deliver
<1>4. ASSUME NEW r \in Records, Evict(r) PROVE Gated'
  <2>1. \A s \in Spans : call'[s] = "deliver" => call[s] = "deliver"
    BY <1>4, RecordsTyped DEF Evict, TypeOK
  <2>2. CASE evicted[r] \in Records
    BY <1>4, <2>1, <2>2, LeaveGated, FormOfChild DEF Evict
  <2>3. CASE evicted[r] \notin Records
    <3>1. fate' = fate
      BY <1>4, <2>3 DEF Evict, TypeOK
    <3> QED
      BY <1>4, <2>1, <3>1 DEF Evict, Gated, Decided, NoPlanComes, ContentNeedsPlan
  <2> QED
    BY <2>2, <2>3
<1>5. ASSUME NEW p \in Drainers, DrainOne(p) PROVE Gated'
  <2>1. Head(batch[p]) \in Records
    <3>1. batch[p] \in Seq(Records) /\ batch[p] # <<>>
      BY <1>5 DEF DrainOne, TypeOK
    <3> QED
      BY <3>1, HeadTailProperties
  <2>2. Decided
    BY <1>5, RecordsTyped DEF DrainOne, Gated
  <2> QED
    BY <1>5, <2>1, <2>2, LeaveGated, FormOfChild DEF DrainOne
<1>6. ASSUME NEW p \in Drainers, DrainMore(p) PROVE Gated'
  <2>1. drainer' \in {drainer, None}
    BY <1>6 DEF DrainMore, UnlockDrainMu
  <2>2. (Decided' <=> Decided) /\ (ContentNeedsPlan' <=> ContentNeedsPlan)
    BY <1>6 DEF DrainMore, Decided, NoPlanComes, ContentNeedsPlan
  <2> QED
    BY <1>6, <2>1, <2>2 DEF DrainMore, Gated
<1>7. CASE Refresh
  BY <1>7, QuietGated DEF Refresh
<1>8. CASE Tick
  BY <1>8, QuietGated DEF Tick
<1>10. CASE ReaderBegin
  BY <1>10 DEF ReaderBegin, Gated, Decided, NoPlanComes, ContentNeedsPlan
<1>11. CASE ReaderRead
  BY <1>11, QuietGated DEF ReaderRead
<1>12. CASE ReaderLock
  <2>1. Decided' /\ allowed \subseteq allowed' /\ (loaded' => Spans \ contentOff' \subseteq allowed')
    <3>1. CASE outcome = {}
      <4>1. /\ unavailable' = (unavailable \/ (~skipped /\ ~loaded))
            /\ UNCHANGED <<loaded, contentOff, allowed, stopped>>
        BY <1>12, <3>1 DEF ReaderLock
      <4> QED
        BY <4>1 DEF Gated, Decided, NoPlanComes
    <3>2. CASE outcome # {}
      <4>1. PICK plan \in outcome :
              /\ loaded' = TRUE /\ contentOff' = plan
              /\ allowed' = allowed \cup (Spans \ plan)
        BY <1>12, <3>2 DEF ReaderLock
      <4> QED
        BY <4>1 DEF Decided
    <3> QED
      BY <3>1, <3>2
  <2>2. skipped' = FALSE /\ UNCHANGED <<call, fate>>
    BY <1>12 DEF ReaderLock
  <2> QED
    BY <2>1, <2>2 DEF Gated, ContentNeedsPlan
<1>13. CASE ReaderExit
  BY <1>13, QuietGated DEF ReaderExit
<1>14. CASE CloseBegin
  BY <1>14, QuietGated DEF CloseBegin
<1>15. CASE FlushHeld
  BY <1>15 DEF FlushHeld, Gated, Decided, NoPlanComes, ContentNeedsPlan
<1>16. CASE Stop
  BY <1>16 DEF Stop, Gated, Decided, NoPlanComes, ContentNeedsPlan
<1>17. CASE FlushBegin
  BY <1>17, QuietGated DEF FlushBegin
<1>18. CASE FlushAnswer
  BY <1>18, QuietGated DEF FlushAnswer
<1>19. CASE UNCHANGED vars
  BY <1>19, QuietGated DEF vars
<1> QED
  BY <1>1, <1>2, <1>3, <1>4, <1>5, <1>6, <1>7, <1>8, <1>10, <1>11, <1>12,
     <1>13, <1>14, <1>15, <1>16, <1>17, <1>18, <1>19
     DEF Next, Reader, Closer, Drain

(* No child span that is subject to the plan uploads its content before a  *)
(* plan that leaves it on has been loaded, on any path out of the gate.    *)
THEOREM ContentWaitsForPlan == Spec => []ContentNeedsPlan
<1>1. Init => Gated
  BY RecordsTyped, PlanAssumption DEF Init, Gated, ContentNeedsPlan
<1>2. Gated => ContentNeedsPlan
  BY DEF Gated
<1> QED
  BY <1>1, <1>2, StepGated, TypeCorrect, PTL DEF Spec

-----------------------------------------------------------------------------
(* A step that leaves the queue, the batches, drainMu and close alone. *)
LEMMA QuietEmptied ==
  ASSUME Emptied, UNCHANGED <<held, batch, drainer, closer, stopped>>
  PROVE  Emptied'
BY DEF Emptied

LEMMA StepEmptied == TypeOK /\ Emptied /\ [Next]_vars => Emptied'
<1> SUFFICES ASSUME TypeOK, Emptied, [Next]_vars PROVE Emptied'
  OBVIOUS
<1> USE DEF planVars, queueVars, readerVars, callVars, flushVars
<1>1. ASSUME NEW s \in Spans, SendSpan(s) PROVE Emptied'
  <2>1. stopped => held' = held
    BY <1>1 DEF SendSpan, HoldsSpan, Pass
  <2> QED
    BY <1>1, <2>1 DEF SendSpan, Emptied
<1>2. ASSUME NEW t \in Traces, SendTrace(t) PROVE Emptied'
  <2>1. stopped => held' = held
    BY <1>2 DEF SendTrace, HoldsTrace, Pass
  <2> QED
    BY <1>2, <2>1 DEF SendTrace, Emptied
<1>3. ASSUME NEW r \in Records, Deliver(r) PROVE Emptied'
  BY <1>3, QuietEmptied DEF Deliver
<1>4. ASSUME NEW r \in Records, Evict(r) PROVE Emptied'
  BY <1>4, QuietEmptied DEF Evict
<1>5. ASSUME NEW p \in Drainers, DrainOne(p) PROVE Emptied'
  BY <1>5 DEF DrainOne, Emptied, TypeOK
<1>6. ASSUME NEW p \in Drainers, DrainMore(p) PROVE Emptied'
  <2>1. CASE HeldMeanwhile
    <3>1. /\ drainer = p /\ held' = <<>> /\ batch' = [batch EXCEPT ![p] = held]
          /\ UNCHANGED <<drainer, closer, stopped>>
      BY <1>6, <2>1 DEF DrainMore, ClearHeld
    <3> QED
      BY <3>1 DEF Emptied, TypeOK
  <2>2. CASE ~HeldMeanwhile
    <3>1. /\ drainer = p /\ batch[p] = <<>> /\ held = <<>> /\ drainer' = None
          /\ UNCHANGED <<held, batch, stopped>>
          /\ closer' = CASE p = "closer" /\ closer = "drain" -> "stop"
                         [] p = "closer" /\ closer = "redrain" -> "shut"
                         [] OTHER -> closer
      BY <1>6, <2>2 DEF DrainMore, UnlockDrainMu, HeldMeanwhile
    <3>2. \A q \in Drainers : batch'[q] = <<>>
      BY <3>1 DEF Emptied
    <3>3. None # "closer" /\ None # "reader"
      BY RecordsTyped DEF Drainers
    <3>4. CASE p = "closer"
      BY <3>1, <3>2, <3>3, <3>4 DEF Emptied
    <3>5. CASE p # "closer"
      <4>1. closer' = closer
        BY <3>1, <3>5
      <4> QED
        BY <3>1, <3>2, <3>3, <3>5, <4>1 DEF Emptied
    <3> QED
      BY <3>4, <3>5
  <2> QED
    BY <2>1, <2>2
<1>7. CASE Refresh
  BY <1>7, QuietEmptied DEF Refresh
<1>8. CASE Tick
  BY <1>8, QuietEmptied DEF Tick
<1>9. CASE ReaderBegin \/ ReaderRead \/ ReaderExit
  BY <1>9, QuietEmptied DEF ReaderBegin, ReaderRead, ReaderExit
<1>10. CASE ReaderLock
  <2>1. /\ drainer = None /\ held' = <<>> /\ batch' = [batch EXCEPT !["reader"] = held]
        /\ IF held = <<>> THEN drainer' = drainer ELSE drainer' = "reader"
        /\ UNCHANGED <<closer, stopped>>
    BY <1>10 DEF ReaderLock, TakeHeld, ClearHeld
  <2>2. "reader" \in Drainers /\ "closer" \in Drainers /\ None \notin Drainers
    BY RecordsTyped DEF Drainers
  <2> QED
    BY <2>1, <2>2 DEF Emptied, TypeOK
<1>11. CASE CloseBegin
  BY <1>11 DEF CloseBegin, Emptied
<1>12. CASE FlushHeld
  <2>1. /\ drainer = None /\ held' = <<>> /\ batch' = [batch EXCEPT !["closer"] = held]
        /\ IF held = <<>> THEN drainer' = drainer ELSE drainer' = "closer"
        /\ closer \in {"flush", "reflush"} /\ stopped' = stopped
        /\ closer' = IF held = <<>> THEN IF closer = "flush" THEN "stop" ELSE "shut"
                     ELSE IF closer = "flush" THEN "drain" ELSE "redrain"
    BY <1>12 DEF FlushHeld, TakeHeld, ClearHeld
  <2>2. "reader" \in Drainers /\ "closer" \in Drainers /\ None \notin Drainers
    BY RecordsTyped DEF Drainers
  <2> QED
    BY <2>1, <2>2 DEF Emptied, TypeOK
<1>13. CASE Stop
  BY <1>13 DEF Stop, Emptied
<1>14. CASE FlushBegin \/ FlushAnswer
  BY <1>14, QuietEmptied DEF FlushBegin, FlushAnswer
<1>15. CASE UNCHANGED vars
  BY <1>15, QuietEmptied DEF vars
<1> QED
  BY <1>1, <1>2, <1>3, <1>4, <1>5, <1>6, <1>7, <1>8, <1>9, <1>10, <1>11, <1>12,
     <1>13, <1>14, <1>15 DEF Next, Reader, Closer, Drain

(* Once close has flushed the stopped gate, the queue and both batches are *)
(* empty, whatever was sent while it closed.                               *)
THEOREM NothingLeftAfterClose == Spec => []NothingHeldAfterClose
<1>1. Init => Emptied
  BY RecordsTyped DEF Init, Emptied, Drainers
<1>2. Emptied => NothingHeldAfterClose
  BY RecordsTyped DEF Emptied, NothingHeldAfterClose
<1> QED
  BY <1>1, <1>2, StepEmptied, TypeCorrect, PTL DEF Spec

-----------------------------------------------------------------------------
(* What a queue holds when a record joins it or its first one leaves. *)
LEMMA ElementsOfEmpty == Elements(<<>>) = {} /\ Distinct(<<>>)
BY DEF Elements, Distinct

LEMMA ElementsTyped ==
  ASSUME NEW S, NEW queue \in Seq(S)
  PROVE  /\ Elements(queue) \subseteq S
         /\ Elements(queue) = {} <=> queue = <<>>
<1>1. Len(queue) \in Nat /\ \A i \in 1..Len(queue) : queue[i] \in S
  BY LenProperties
<1>2. Elements(queue) \subseteq S
  BY <1>1 DEF Elements
<1>3. CASE queue = <<>>
  BY <1>2, <1>3, ElementsOfEmpty
<1>4. CASE queue # <<>>
  <2>1. 1 \in 1..Len(queue)
    BY <1>1, <1>4, EmptySeq
  <2>2. queue[1] \in Elements(queue)
    BY <2>1 DEF Elements
  <2> QED
    BY <1>2, <1>4, <2>2
<1> QED
  BY <1>3, <1>4

LEMMA ElementsOfAppend ==
  ASSUME NEW S, NEW queue \in Seq(S), NEW r \in S
  PROVE  /\ Elements(Append(queue, r)) = Elements(queue) \cup {r}
         /\ Distinct(queue) /\ r \notin Elements(queue) => Distinct(Append(queue, r))
<1> DEFINE longer == Append(queue, r)
<1>1. /\ Len(queue) \in Nat /\ Len(longer) = Len(queue) + 1
      /\ longer[Len(queue) + 1] = r
      /\ \A i \in 1..Len(queue) : longer[i] = queue[i]
  BY AppendProperties, LenProperties
<1>2. 1..Len(longer) = (1..Len(queue)) \cup {Len(queue) + 1}
  BY <1>1
<1> HIDE DEF longer
<1>3. Elements(longer) = Elements(queue) \cup {r}
  BY <1>1, <1>2 DEF Elements
<1>4. Distinct(queue) /\ r \notin Elements(queue) => Distinct(longer)
  BY <1>1, <1>2 DEF Elements, Distinct
<1> QED
  BY <1>3, <1>4 DEF longer

LEMMA ElementsOfTail ==
  ASSUME NEW S, NEW queue \in Seq(S), queue # <<>>, Distinct(queue)
  PROVE  /\ Head(queue) \in Elements(queue)
         /\ Elements(Tail(queue)) = Elements(queue) \ {Head(queue)}
         /\ Distinct(Tail(queue))
<1>1. /\ Len(queue) \in Nat /\ Len(queue) >= 1 /\ Head(queue) = queue[1]
      /\ Len(Tail(queue)) = Len(queue) - 1
      /\ \A i \in 1..(Len(queue) - 1) : Tail(queue)[i] = queue[i + 1]
  BY HeadTailProperties, LenProperties, EmptySeq
<1>2. Head(queue) \in Elements(queue)
  BY <1>1 DEF Elements
<1>3. Distinct(Tail(queue))
  BY <1>1 DEF Distinct
<1>4. Elements(Tail(queue)) \subseteq Elements(queue) \ {Head(queue)}
  BY <1>1 DEF Elements, Distinct
<1>5. ASSUME NEW r \in Elements(queue) \ {Head(queue)} PROVE r \in Elements(Tail(queue))
  <2>1. PICK i \in 1..Len(queue) : r = queue[i]
    BY DEF Elements
  <2>2. i - 1 \in 1..(Len(queue) - 1) /\ (i - 1) + 1 = i
    BY <1>1, <1>5, <2>1
  <2>3. Tail(queue)[i - 1] = r
    BY <1>1, <2>1, <2>2
  <2> QED
    BY <1>1, <2>2, <2>3 DEF Elements
<1> QED
  BY <1>2, <1>3, <1>4, <1>5

LEMMA ElementsCounted ==
  ASSUME NEW S, NEW queue \in Seq(S)
  PROVE  /\ IsFiniteSet(Elements(queue)) /\ Cardinality(Elements(queue)) <= Len(queue)
         /\ Distinct(queue) => Cardinality(Elements(queue)) = Len(queue)
<1>1. Len(queue) \in Nat /\ DOMAIN queue = 1..Len(queue)
  BY LenProperties
<1>2. IsFiniteSet(1..Len(queue)) /\ Cardinality(1..Len(queue)) = Len(queue)
  BY <1>1, FS_Interval
<1> DEFINE at == [i \in 1..Len(queue) |-> queue[i]]
<1>3. at \in Surjection(1..Len(queue), Elements(queue))
  BY DEF Surjection, Elements
<1>4. /\ IsFiniteSet(Elements(queue)) /\ Cardinality(Elements(queue)) <= Len(queue)
  BY <1>2, <1>3, FS_Surjection
<1>5. Distinct(queue) => at \in Injection(1..Len(queue), Elements(queue))
  BY <1>3 DEF Injection, IsInjective, Surjection, Distinct, Elements
<1>6. Distinct(queue) => Cardinality(1..Len(queue)) <= Cardinality(Elements(queue))
  BY <1>4, <1>5, FS_Injection
<1>7. Cardinality(Elements(queue)) \in Nat
  BY <1>4, FS_CardinalityType
<1> QED
  BY <1>1, <1>2, <1>4, <1>6, <1>7

-----------------------------------------------------------------------------
(* Where a record is, before and after a step. *)
LEMMA AtStation ==
  \A r : /\ At("held", r) <=> r \in Elements(held)
         /\ \A p \in Drainers : At(p, r) <=> r \in Elements(batch[p])
         /\ At("evicted", r) <=> Overflowing(r)
         /\ At("deliver", r) <=> call[r] = "deliver"
         /\ At("left", r) <=> fate[r] # "none"
BY DEF At, Drainers

LEMMA AtStationNext ==
  \A r : /\ At("held", r)' <=> r \in Elements(held')
         /\ \A p \in Drainers : At(p, r)' <=> r \in Elements(batch'[p])
         /\ At("evicted", r)' <=> Overflowing(r)'
         /\ At("deliver", r)' <=> call'[r] = "deliver"
         /\ At("left", r)' <=> fate'[r] # "none"
BY DEF At, Drainers

LEMMA StationsNamed ==
  /\ Stations = {"held", "evicted", "deliver", "left"} \cup Drainers
  /\ "reader" \in Drainers /\ "closer" \in Drainers
BY DEF Stations, Drainers

LEMMA Sole ==
  ASSUME NEW r \in Records, Placed(r), NEW m \in Stations, At(m, r)
  PROVE  call[r] # "idle" /\ \A n \in Stations : At(n, r) <=> n = m
BY DEF Placed

(* A record that a step does not touch keeps its place, *)
LEMMA Stays ==
  ASSUME NEW r \in Records, Placed(r),
         call'[r] = "idle" <=> call[r] = "idle", call[r] = "idle" => evicted'[r] = evicted[r],
         r \in Elements(held') <=> r \in Elements(held),
         \A p \in Drainers : r \in Elements(batch'[p]) <=> r \in Elements(batch[p]),
         Overflowing(r)' <=> Overflowing(r),
         call'[r] = "deliver" <=> call[r] = "deliver",
         fate'[r] # "none" <=> fate[r] # "none"
  PROVE  Placed(r)'
<1>1. \A n \in Stations : At(n, r)' <=> At(n, r)
  BY AtStation, AtStationNext, StationsNamed
<1> QED
  BY <1>1 DEF Placed

(* and one that it moves is at its new place alone. *)
LEMMA Arrives ==
  ASSUME NEW r \in Records, NEW m \in Stations, call'[r] # "idle",
         r \in Elements(held') <=> m = "held",
         \A p \in Drainers : r \in Elements(batch'[p]) <=> m = p,
         Overflowing(r)' <=> m = "evicted",
         call'[r] = "deliver" <=> m = "deliver",
         fate'[r] # "none" <=> m = "left"
  PROVE  Placed(r)'
<1>1. \A n \in Stations : At(n, r)' <=> n = m
  BY AtStationNext, StationsNamed
<1> QED
  BY <1>1 DEF Placed

(* What follows for a record from the one place it is at. *)
LEMMA Apart ==
  ASSUME NEW r \in Records, Placed(r)
  PROVE  /\ call[r] = "idle" =>
              /\ r \notin Elements(held) /\ \A p \in Drainers : r \notin Elements(batch[p])
              /\ ~Overflowing(r) /\ fate[r] = "none" /\ evicted[r] = None
         /\ r \in Elements(held) =>
              /\ \A p \in Drainers : r \notin Elements(batch[p])
              /\ ~Overflowing(r) /\ fate[r] = "none"
              /\ call[r] # "deliver" /\ call[r] # "idle"
         /\ \A p \in Drainers : r \in Elements(batch[p]) =>
              /\ r \notin Elements(held)
              /\ \A q \in Drainers : r \in Elements(batch[q]) => q = p
              /\ ~Overflowing(r) /\ fate[r] = "none"
              /\ call[r] # "deliver" /\ call[r] # "idle"
         /\ Overflowing(r) =>
              /\ r \notin Elements(held) /\ \A p \in Drainers : r \notin Elements(batch[p])
              /\ fate[r] = "none" /\ call[r] # "deliver" /\ call[r] # "idle"
         /\ call[r] = "deliver" =>
              /\ r \notin Elements(held) /\ \A p \in Drainers : r \notin Elements(batch[p])
              /\ ~Overflowing(r) /\ fate[r] = "none"
         /\ call[r] # "idle" =>
              \/ r \in Elements(held) \/ \E p \in Drainers : r \in Elements(batch[p])
              \/ Overflowing(r) \/ call[r] = "deliver" \/ fate[r] # "none"
<1>1. "held" \notin Drainers /\ "evicted" \notin Drainers /\ "deliver" \notin Drainers
      /\ "left" \notin Drainers
  BY DEF Drainers
<1>2. CASE call[r] = "idle"
  <2>1. evicted[r] = None /\ \A n \in Stations : ~At(n, r)
    BY <1>2 DEF Placed
  <2> QED
    BY <1>2, <2>1, AtStation, StationsNamed
<1>3. CASE call[r] # "idle"
  <2>1. PICK m \in Stations : \A n \in Stations : At(n, r) <=> n = m
    BY <1>3 DEF Placed
  <2>2. /\ r \in Elements(held) <=> m = "held"
        /\ \A p \in Drainers : r \in Elements(batch[p]) <=> m = p
        /\ Overflowing(r) <=> m = "evicted"
        /\ call[r] = "deliver" <=> m = "deliver"
        /\ fate[r] # "none" <=> m = "left"
    BY <2>1, AtStation, StationsNamed
  <2> QED
    BY <1>1, <1>3, <2>2, StationsNamed
<1> QED
  BY <1>2, <1>3

-----------------------------------------------------------------------------
LEMMA QuietConserved ==
  ASSUME Conserved, UNCHANGED <<held, batch, call, evicted, fate>>
  PROVE  Conserved'
<1>1. ASSUME NEW r \in Records PROVE Placed(r)'
  <2>1. Placed(r) /\ (Overflowing(r)' <=> Overflowing(r))
    BY DEF Conserved, Overflowing, Carries
  <2> QED
    BY <2>1, Stays
<1> QED
  BY <1>1 DEF Conserved, Carries

(* The queue moves to an empty batch, by takeHeld or by drain. *)
LEMMA MoveConserved ==
  ASSUME TypeOK, Conserved, NEW p \in Drainers, batch[p] = <<>>,
         held' = <<>>, batch' = [batch EXCEPT ![p] = held],
         UNCHANGED <<call, evicted, fate>>
  PROVE  Conserved'
<1>1. batch'[p] = held /\ \A q \in Drainers : q # p => batch'[q] = batch[q]
  BY DEF TypeOK
<1>2. Elements(held') = {} /\ Distinct(held') /\ Elements(batch[p]) = {}
  BY ElementsOfEmpty
<1>3. \A q \in Drainers : Distinct(batch'[q])
  BY <1>1 DEF Conserved
<1>4. ASSUME NEW r \in Records PROVE Placed(r)'
  <2>1. Placed(r) /\ (Overflowing(r)' <=> Overflowing(r))
    BY DEF Conserved, Overflowing, Carries
  <2>2. CASE r \in Elements(held)
    <3>1. /\ \A q \in Drainers : r \notin Elements(batch[q])
          /\ ~Overflowing(r) /\ fate[r] = "none"
          /\ call[r] # "deliver" /\ call[r] # "idle"
      BY <2>1, <2>2, Apart
    <3>2. p \in Stations /\ p \notin {"held", "evicted", "deliver", "left"}
      BY DEF Stations, Drainers
    <3>3. \A q \in Drainers : r \in Elements(batch'[q]) <=> p = q
      BY <1>1, <2>2, <3>1
    <3> QED
      BY <1>2, <2>1, <3>1, <3>2, <3>3, Arrives
  <2>3. CASE r \notin Elements(held)
    <3>1. \A q \in Drainers : r \in Elements(batch'[q]) <=> r \in Elements(batch[q])
      BY <1>1, <1>2, <2>3
    <3> QED
      BY <1>2, <2>1, <2>3, <3>1, Stays
  <2> QED
    BY <2>2, <2>3
<1> QED
  BY <1>2, <1>3, <1>4 DEF Conserved, Carries

LEMMA TakeConserved ==
  ASSUME TypeOK, Emptied, Conserved, NEW p \in Drainers, TakeHeld(p),
         UNCHANGED <<call, evicted, fate>>
  PROVE  Conserved'
<1>1. batch[p] = <<>>
  BY RecordsTyped DEF TakeHeld, Emptied
<1> QED
  BY <1>1, MoveConserved DEF TakeHeld, ClearHeld

(* hold, and what its goroutine then carries. *)
LEMMA HoldConserved ==
  ASSUME TypeOK, Conserved, NEW r \in Records, call[r] = "idle", Hold(r),
         UNCHANGED <<batch, fate>>
  PROVE  Conserved'
<1> DEFINE queue == Append(held, r)
<1>1. /\ r \notin Elements(held) /\ \A p \in Drainers : r \notin Elements(batch[p])
      /\ ~Overflowing(r) /\ fate[r] = "none" /\ evicted[r] = None
  BY Apart DEF Conserved
<1>2. held \in Seq(Records) /\ Len(held) \in Nat
  BY LenProperties DEF TypeOK
<1>3. /\ queue \in Seq(Records) /\ queue # <<>> /\ Len(queue) = Len(held) + 1
      /\ Elements(queue) = Elements(held) \cup {r} /\ Distinct(queue)
  BY <1>1, <1>2, AppendProperties, ElementsOfAppend DEF Conserved
<1>4. "held" \in Stations /\ "evicted" \in Stations /\ "held" \notin Drainers /\ "evicted" \notin Drainers
  BY DEF Stations, Drainers
<1>5. \A d \in Records : Placed(d)
  BY DEF Conserved
<1>6. CASE Fits(queue)
  <2>1. held' = queue /\ call' = [call EXCEPT ![r] = "done"] /\ evicted' = evicted
    BY <1>6 DEF Hold
  <2> HIDE DEF queue
  <2>2. \A q \in Records : \A d : Carries(q, d)' <=> Carries(q, d)
    BY <2>1 DEF Carries, TypeOK
  <2>3. \A d : Overflowing(d)' <=> Overflowing(d)
    BY <2>2 DEF Overflowing
  <2>4. call'[r] = "done" /\ \A d \in Records : d # r => call'[d] = call[d]
    BY <2>1 DEF TypeOK
  <2>5. ASSUME NEW d \in Records PROVE Placed(d)'
    <3>1. CASE d = r
      BY <1>1, <1>3, <1>4, <2>1, <2>3, <2>4, <3>1, Arrives
    <3>2. CASE d # r
      BY <1>3, <1>5, <2>1, <2>3, <2>4, <3>2, Stays
    <3> QED
      BY <3>1, <3>2
  <2> QED
    BY <1>3, <2>1, <2>2, <2>5 DEF Conserved
<1>7. CASE ~Fits(queue)
  <2>1. /\ held' = Tail(queue) /\ call' = [call EXCEPT ![r] = "evict"]
        /\ evicted' = [evicted EXCEPT ![r] = Head(queue)]
    BY <1>7 DEF Hold
  <2>2. held # <<>> /\ Head(queue) = Head(held)
    <3>1. Len(held) # 0
      BY <1>2, <1>3, <1>7, RecordsTyped DEF Fits
    <3>2. held # <<>>
      BY <3>1
    <3> QED
      BY <1>2, <1>3, <3>1, <3>2, AppendProperties, HeadTailProperties
  <2> DEFINE h == Head(queue)
  <2> HIDE DEF queue
  <2>3. h \in Elements(held) /\ h \in Records /\ h # r
    BY <1>1, <1>2, <2>2, ElementsOfTail, ElementsTyped DEF Conserved
  <2>4. Elements(held') = (Elements(held) \cup {r}) \ {h} /\ Distinct(held')
    BY <1>3, <2>1, ElementsOfTail
  <2>5. /\ \A p \in Drainers : h \notin Elements(batch[p])
        /\ ~Overflowing(h) /\ fate[h] = "none" /\ call[h] # "deliver" /\ call[h] # "idle"
    BY <1>5, <2>3, Apart
  <2>6. /\ call'[r] = "evict" /\ evicted'[r] = h
        /\ \A d \in Records : d # r => call'[d] = call[d] /\ evicted'[d] = evicted[d]
    BY <2>1 DEF TypeOK
  <2> HIDE DEF h
  <2>7. \A q \in Records : \A d : Carries(q, d)' <=> Carries(q, d) \/ (q = r /\ d = h)
    BY <2>6 DEF Carries
  <2>8. \A d : Overflowing(d)' <=> Overflowing(d) \/ d = h
    BY <2>7 DEF Overflowing
  <2>9. ASSUME NEW d \in Records PROVE Placed(d)'
    <3>1. CASE d = r
      BY <1>1, <1>4, <2>3, <2>4, <2>6, <2>8, <3>1, Arrives
    <3>2. CASE d = h
      BY <1>4, <2>3, <2>4, <2>5, <2>6, <2>8, <3>2, Arrives
    <3>3. CASE d # r /\ d # h
      BY <1>5, <2>4, <2>6, <2>8, <3>3, Stays
    <3> QED
      BY <3>1, <3>2, <3>3
  <2>10. \A q1, q2, d \in Records : Carries(q1, d)' /\ Carries(q2, d)' => q1 = q2
    <3>1. \A q \in Records : ~Carries(q, h)
      BY <2>5 DEF Overflowing
    <3> QED
      BY <2>7, <3>1 DEF Conserved
  <2> QED
    BY <2>4, <2>9, <2>10 DEF Conserved
<1> QED
  BY <1>6, <1>7

LEMMA PassConserved ==
  ASSUME TypeOK, Conserved, NEW r \in Records, call[r] = "idle", Pass(r),
         UNCHANGED <<batch, fate>>
  PROVE  Conserved'
<1>1. /\ r \notin Elements(held) /\ \A p \in Drainers : r \notin Elements(batch[p])
      /\ ~Overflowing(r) /\ fate[r] = "none"
  BY Apart DEF Conserved
<1>2. held' = held /\ evicted' = evicted /\ call' = [call EXCEPT ![r] = "deliver"]
  BY DEF Pass
<1>3. call'[r] = "deliver" /\ \A d \in Records : d # r => call'[d] = call[d]
  BY <1>2 DEF TypeOK
<1>4. \A q \in Records : \A d : Carries(q, d)' <=> Carries(q, d)
  BY <1>2, <1>3 DEF Carries
<1>5. \A d : Overflowing(d)' <=> Overflowing(d)
  BY <1>4 DEF Overflowing
<1>6. "deliver" \in Stations /\ "deliver" \notin Drainers
  BY DEF Stations, Drainers
<1>7. ASSUME NEW d \in Records PROVE Placed(d)'
  <2>1. CASE d = r
    BY <1>1, <1>2, <1>3, <1>5, <1>6, <2>1, Arrives
  <2>2. CASE d # r
    BY <1>2, <1>3, <1>5, <2>2, Stays DEF Conserved
  <2> QED
    BY <2>1, <2>2
<1> QED
  BY <1>2, <1>4, <1>7 DEF Conserved

(* One record leaves the gate: from its own call, from the call that       *)
(* pushed it out, or from a batch.                                         *)
LEMMA DeliverConserved ==
  ASSUME TypeOK, Conserved, NEW r \in Records, Deliver(r)
  PROVE  Conserved'
<1>1. /\ r \notin Elements(held) /\ \A p \in Drainers : r \notin Elements(batch[p])
      /\ ~Overflowing(r)
  BY Apart DEF Conserved, Deliver
<1>2. /\ held' = held /\ batch' = batch /\ evicted' = evicted
      /\ call[r] = "deliver" /\ call' = [call EXCEPT ![r] = "done"]
      /\ fate' = [fate EXCEPT ![r] = Form(r)]
  BY DEF Deliver, queueVars
<1>3. /\ call'[r] = "done" /\ fate'[r] # "none"
      /\ \A d \in Records : d # r => call'[d] = call[d] /\ fate'[d] = fate[d]
  BY <1>2, FormTyped DEF TypeOK
<1>4. \A q \in Records : \A d : Carries(q, d)' <=> Carries(q, d)
  BY <1>2, <1>3 DEF Carries
<1>5. \A d : Overflowing(d)' <=> Overflowing(d)
  BY <1>4 DEF Overflowing
<1>6. "left" \in Stations /\ "left" \notin Drainers
  BY DEF Stations, Drainers
<1>7. ASSUME NEW d \in Records PROVE Placed(d)'
  <2>1. CASE d = r
    BY <1>1, <1>2, <1>3, <1>5, <1>6, <2>1, Arrives
  <2>2. CASE d # r
    BY <1>2, <1>3, <1>5, <2>2, Stays DEF Conserved
  <2> QED
    BY <2>1, <2>2
<1> QED
  BY <1>2, <1>4, <1>7 DEF Conserved

LEMMA EvictConserved ==
  ASSUME TypeOK, Conserved, NEW r \in Records, Evict(r)
  PROVE  Conserved'
<1>0. PICK h : h = evicted[r]
  OBVIOUS
<1>1. /\ held' = held /\ batch' = batch /\ evicted' = evicted
      /\ call[r] = "evict" /\ call' = [call EXCEPT ![r] = "done"]
      /\ fate' = [fate EXCEPT ![h] = FormWithoutPlan(h)]
  BY <1>0 DEF Evict, queueVars
<1>2. call'[r] = "done" /\ \A d \in Records : d # r => call'[d] = call[d]
  BY <1>1 DEF TypeOK
<1>3. Carries(r, h)
  BY <1>0, <1>1 DEF Carries
<1>4. \A q \in Records : \A d : Carries(q, d)' <=> Carries(q, d) /\ q # r
  BY <1>1, <1>2 DEF Carries
<1>5. \A d : d # h => (Overflowing(d)' <=> Overflowing(d))
  <2>1. \A d : Carries(r, d) => d = h
    BY <1>0 DEF Carries
  <2> QED
    BY <1>4, <2>1 DEF Overflowing
<1>6. "left" \in Stations /\ "left" \notin Drainers
  BY DEF Stations, Drainers
<1>7. CASE h \in Records
  <2>1. ~Overflowing(h)'
    BY <1>3, <1>4, <1>7 DEF Overflowing, Conserved
  <2>2. /\ h \notin Elements(held) /\ \A p \in Drainers : h \notin Elements(batch[p])
        /\ call[h] # "deliver" /\ call[h] # "idle"
    <3>1. Overflowing(h) /\ Placed(h)
      BY <1>3, <1>7 DEF Overflowing, Conserved
    <3> QED
      BY <1>7, <3>1, Apart
  <2>3. fate'[h] # "none" /\ \A d \in Records : d # h => fate'[d] = fate[d]
    BY <1>1, <1>7, FormTyped DEF TypeOK
  <2>4. ASSUME NEW d \in Records PROVE Placed(d)'
    <3>1. CASE d = h
      <4>1. call'[d] # "deliver" /\ call'[d] # "idle"
        BY <1>2, <2>2, <3>1
      <4> QED
        BY <1>1, <1>6, <2>1, <2>2, <2>3, <3>1, <4>1, Arrives
    <3>2. CASE d # h
      <4>1. /\ call'[d] = "deliver" <=> call[d] = "deliver"
            /\ call'[d] = "idle" <=> call[d] = "idle"
        BY <1>1, <1>2
      <4> QED
        BY <1>1, <1>5, <2>3, <3>2, <4>1, Stays DEF Conserved
    <3> QED
      BY <3>1, <3>2
  <2> QED
    BY <1>1, <1>4, <2>4 DEF Conserved
<1>8. CASE h \notin Records
  <2>1. fate' = fate
    BY <1>1, <1>8 DEF TypeOK
  <2>2. ASSUME NEW d \in Records PROVE Placed(d)'
    <3>1. /\ call'[d] = "deliver" <=> call[d] = "deliver"
          /\ call'[d] = "idle" <=> call[d] = "idle"
      BY <1>1, <1>2
    <3>2. Overflowing(d)' <=> Overflowing(d)
      BY <1>5, <1>8
    <3> QED
      BY <1>1, <2>1, <3>1, <3>2, Stays DEF Conserved
  <2> QED
    BY <1>1, <1>4, <2>2 DEF Conserved
<1> QED
  BY <1>7, <1>8

LEMMA DrainConserved ==
  ASSUME TypeOK, Conserved, NEW p \in Drainers, DrainOne(p)
  PROVE  Conserved'
<1> DEFINE h == Head(batch[p])
<1>1. /\ batch[p] # <<>> /\ held' = held /\ call' = call /\ evicted' = evicted
      /\ fate' = [fate EXCEPT ![h] = Form(h)]
      /\ batch' = [batch EXCEPT ![p] = Tail(batch[p])]
  BY DEF DrainOne, callVars
<1>2. batch[p] \in Seq(Records) /\ Distinct(batch[p])
  BY DEF TypeOK, Conserved
<1>3. /\ h \in Elements(batch[p]) /\ h \in Records
      /\ Elements(Tail(batch[p])) = Elements(batch[p]) \ {h} /\ Distinct(Tail(batch[p]))
  BY <1>1, <1>2, ElementsOfTail, ElementsTyped
<1>4. batch'[p] = Tail(batch[p]) /\ \A q \in Drainers : q # p => batch'[q] = batch[q]
  BY <1>1 DEF TypeOK
<1> HIDE DEF h
<1>5. fate'[h] # "none" /\ \A d \in Records : d # h => fate'[d] = fate[d]
  BY <1>1, <1>3, FormTyped DEF TypeOK
<1>6. /\ h \notin Elements(held) /\ ~Overflowing(h) /\ call[h] # "deliver" /\ call[h] # "idle"
      /\ \A q \in Drainers : h \in Elements(batch[q]) => q = p
  BY <1>3, Apart DEF Conserved
<1>7. \A d : Overflowing(d)' <=> Overflowing(d)
  BY <1>1 DEF Overflowing, Carries
<1>8. ASSUME NEW d \in Records PROVE Placed(d)'
  <2>1. CASE d = h
    <3>1. "left" \in Stations /\ "left" \notin Drainers
      BY DEF Stations, Drainers
    <3>2. \A q \in Drainers : h \notin Elements(batch'[q])
      BY <1>3, <1>4, <1>6
    <3> QED
      BY <1>1, <1>3, <1>5, <1>6, <1>7, <2>1, <3>1, <3>2, Arrives
  <2>2. CASE d # h
    <3>1. \A q \in Drainers : d \in Elements(batch'[q]) <=> d \in Elements(batch[q])
      BY <1>3, <1>4, <2>2
    <3> QED
      BY <1>1, <1>5, <1>7, <2>2, <3>1, Stays DEF Conserved
  <2> QED
    BY <2>1, <2>2
<1>9. \A q \in Drainers : Distinct(batch'[q])
  BY <1>3, <1>4 DEF Conserved
<1> QED
  BY <1>1, <1>8, <1>9 DEF Conserved, Carries

LEMMA StepConserved == TypeOK /\ Emptied /\ Conserved /\ [Next]_vars => Conserved'
<1> SUFFICES ASSUME TypeOK, Emptied, Conserved, [Next]_vars PROVE Conserved'
  OBVIOUS
<1> USE DEF planVars, queueVars, readerVars, callVars, flushVars
<1>1. ASSUME NEW s \in Spans, SendSpan(s) PROVE Conserved'
  BY <1>1, RecordsTyped, HoldConserved, PassConserved DEF SendSpan
<1>2. ASSUME NEW t \in Traces, SendTrace(t) PROVE Conserved'
  BY <1>2, RecordsTyped, HoldConserved, PassConserved DEF SendTrace
<1>3. ASSUME NEW r \in Records, Deliver(r) PROVE Conserved'
  BY <1>3, DeliverConserved
<1>4. ASSUME NEW r \in Records, Evict(r) PROVE Conserved'
  BY <1>4, EvictConserved
<1>5. ASSUME NEW p \in Drainers, DrainOne(p) PROVE Conserved'
  BY <1>5, DrainConserved
<1>6. ASSUME NEW p \in Drainers, DrainMore(p) PROVE Conserved'
  <2>1. batch[p] = <<>> /\ UNCHANGED <<call, evicted, fate>>
    BY <1>6 DEF DrainMore
  <2>2. CASE HeldMeanwhile
    BY <1>6, <2>1, <2>2, MoveConserved DEF DrainMore, ClearHeld
  <2>3. CASE ~HeldMeanwhile
    BY <1>6, <2>1, <2>3, QuietConserved DEF DrainMore
  <2> QED
    BY <2>2, <2>3
<1>7. CASE Refresh \/ Tick \/ CloseBegin \/ Stop \/ FlushBegin \/ FlushAnswer
  BY <1>7, QuietConserved DEF Refresh, Tick, CloseBegin, Stop, FlushBegin, FlushAnswer
<1>8. CASE ReaderBegin \/ ReaderRead \/ ReaderExit
  BY <1>8, QuietConserved DEF ReaderBegin, ReaderRead, ReaderExit
<1>9. CASE ReaderLock
  <2>1. TakeHeld("reader") /\ UNCHANGED <<call, evicted, fate>>
    BY <1>9 DEF ReaderLock
  <2> QED
    BY <2>1, StationsNamed, TakeConserved
<1>10. CASE FlushHeld
  <2>1. TakeHeld("closer") /\ UNCHANGED <<call, evicted, fate>>
    BY <1>10 DEF FlushHeld
  <2> QED
    BY <2>1, StationsNamed, TakeConserved
<1>11. CASE UNCHANGED vars
  BY <1>11, QuietConserved DEF vars
<1> QED
  BY <1>1, <1>2, <1>3, <1>4, <1>5, <1>6, <1>7, <1>8, <1>9, <1>10, <1>11
     DEF Next, Reader, Closer, Drain

LEMMA InitConserved == Init => Conserved
<1> SUFFICES ASSUME Init PROVE Conserved
  OBVIOUS
<1>1. /\ held = <<>> /\ \A p \in Drainers : batch[p] = <<>>
      /\ \A r \in Records : call[r] = "idle" /\ evicted[r] = None /\ fate[r] = "none"
  BY DEF Init
<1>2. \A q \in Records : \A d : ~Carries(q, d)
  BY <1>1 DEF Carries
<1>3. \A r \in Records : Placed(r)
  <2>1. \A d : ~Overflowing(d)
    BY <1>2 DEF Overflowing
  <2> QED
    BY <1>1, <2>1, ElementsOfEmpty, AtStation, StationsNamed DEF Placed
<1> QED
  BY <1>1, <1>2, <1>3, ElementsOfEmpty DEF Conserved

(* One station and one position of it make one place. *)
LEMMA OnePlace == Conserved => RecordsConserved
<1> SUFFICES ASSUME Conserved, NEW r \in Records
             PROVE  Cardinality(Places(r)) = IF call[r] = "idle" THEN 0 ELSE 1
  BY DEF RecordsConserved
<1> DEFINE In(name, queue) == {<<name, i>> : i \in {j \in 1..Len(queue) : queue[j] = r}}
           Carried == {<<"evicted", q>> : q \in {p \in Records : Carries(p, r)}}
           Delivering == {<<"deliver", q>> : q \in {p \in {r} : call[r] = "deliver"}}
           Left == {<<"left", q>> : q \in {p \in {r} : fate[r] # "none"}}
           Taken == UNION {In(p, batch[p]) : p \in Drainers}
<1>1. Places(r) = In("held", held) \cup Taken \cup Carried \cup Delivering \cup Left
  BY DEF Places
<1>2. \A name, queue : /\ r \notin Elements(queue) => In(name, queue) = {}
                       /\ Distinct(queue) /\ r \in Elements(queue) => \E x : In(name, queue) = {x}
  <2> TAKE name, queue
  <2>1. r \notin Elements(queue) => In(name, queue) = {}
    BY DEF Elements
  <2>2. ASSUME Distinct(queue), r \in Elements(queue) PROVE \E x : In(name, queue) = {x}
    <3>1. PICK i \in 1..Len(queue) : queue[i] = r
      BY <2>2 DEF Elements
    <3>2. \A j \in 1..Len(queue) : queue[j] = r <=> j = i
      BY <2>2, <3>1 DEF Distinct
    <3>3. {j \in 1..Len(queue) : queue[j] = r} = {i}
      BY <3>2
    <3>4. In(name, queue) = {<<name, i>>}
      BY <3>3
    <3> QED
      BY <3>4
  <2> QED
    BY <2>1, <2>2
<1>3. /\ ~Overflowing(r) => Carried = {}
      /\ Overflowing(r) => \E x : Carried = {x}
  <2>1. ~Overflowing(r) => Carried = {}
    BY DEF Overflowing
  <2>2. ASSUME Overflowing(r) PROVE \E x : Carried = {x}
    <3>1. PICK q \in Records : Carries(q, r)
      BY <2>2 DEF Overflowing
    <3>2. {p \in Records : Carries(p, r)} = {q}
      BY <3>1 DEF Conserved
    <3>3. Carried = {<<"evicted", q>>}
      BY <3>2
    <3> QED
      BY <3>3
  <2> QED
    BY <2>1, <2>2
<1>4. /\ Delivering = IF call[r] = "deliver" THEN {<<"deliver", r>>} ELSE {}
      /\ Left = IF fate[r] # "none" THEN {<<"left", r>>} ELSE {}
  OBVIOUS
<1>5. Taken = In("reader", batch["reader"]) \cup In("closer", batch["closer"])
  BY DEF Drainers
<1>6. Distinct(held) /\ Distinct(batch["reader"]) /\ Distinct(batch["closer"]) /\ Placed(r)
  BY StationsNamed DEF Conserved
<1> HIDE DEF In, Taken, Carried, Delivering, Left
<1>7. CASE call[r] = "idle"
  <2>1. /\ r \notin Elements(held) /\ r \notin Elements(batch["reader"])
        /\ r \notin Elements(batch["closer"]) /\ ~Overflowing(r) /\ fate[r] = "none"
    BY <1>6, <1>7, Apart, StationsNamed
  <2>2. Places(r) = {}
    BY <1>1, <1>2, <1>3, <1>4, <1>5, <1>7, <2>1
  <2> QED
    BY <1>7, <2>2, FS_EmptySet
<1>8. CASE call[r] # "idle"
  <2>1. PICK m \in Stations : \A n \in Stations : At(n, r) <=> n = m
    BY <1>6, <1>8 DEF Placed
  <2>2. /\ r \in Elements(held) <=> m = "held"
        /\ r \in Elements(batch["reader"]) <=> m = "reader"
        /\ r \in Elements(batch["closer"]) <=> m = "closer"
        /\ Overflowing(r) <=> m = "evicted"
        /\ call[r] = "deliver" <=> m = "deliver"
        /\ fate[r] # "none" <=> m = "left"
    BY <2>1, AtStation, StationsNamed
  <2>3. IF m = "held" THEN \E x : In("held", held) = {x} ELSE In("held", held) = {}
    BY <1>2, <1>6, <2>2
  <2>4. IF m = "reader" THEN \E x : In("reader", batch["reader"]) = {x}
        ELSE In("reader", batch["reader"]) = {}
    BY <1>2, <1>6, <2>2
  <2>5. IF m = "closer" THEN \E x : In("closer", batch["closer"]) = {x}
        ELSE In("closer", batch["closer"]) = {}
    BY <1>2, <1>6, <2>2
  <2>6. IF m = "evicted" THEN \E x : Carried = {x} ELSE Carried = {}
    BY <1>3, <2>2
  <2>7. /\ Delivering = IF m = "deliver" THEN {<<"deliver", r>>} ELSE {}
        /\ Left = IF m = "left" THEN {<<"left", r>>} ELSE {}
    BY <1>4, <2>2
  <2>8. m \in {"held", "reader", "closer", "evicted", "deliver", "left"}
    BY DEF Stations
  <2>9. \E x : Places(r) = {x}
    <3> DEFINE A == In("held", held)
               B == In("reader", batch["reader"]) \cup In("closer", batch["closer"])
               C == Delivering \cup Left
    <3>1. Places(r) = A \cup B \cup Carried \cup C
      BY <1>1, <1>5
    <3>2. IF m \in {"reader", "closer"} THEN \E x : B = {x} ELSE B = {}
      BY <2>4, <2>5, <2>8
    <3>3. IF m \in {"deliver", "left"} THEN \E x : C = {x} ELSE C = {}
      BY <2>7, <2>8
    <3>4. IF m = "held" THEN \E x : A = {x} ELSE A = {}
      BY <2>3
    <3> HIDE DEF A, B, C
    <3> QED
      BY <2>6, <2>8, <3>1, <3>2, <3>3, <3>4
  <2> QED
    BY <1>8, <2>9, FS_Singleton
<1> QED
  BY <1>7, <1>8

(* From the call that hands it over on, a record is in exactly one place:  *)
(* the queue, one of the batches, the goroutine that pushed it out, its    *)
(* own goroutine, or out of the gate.  None is lost or submitted twice.    *)
THEOREM NoRecordLost == Spec => []RecordsConserved
<1>1. Init => Emptied
  BY RecordsTyped DEF Init, Emptied, Drainers
<1> QED
  BY <1>1, InitConserved, StepEmptied, StepConserved, OnePlace, TypeCorrect, PTL DEF Spec

-----------------------------------------------------------------------------
(* What hold does to the queue. *)
LEMMA HoldQueue ==
  ASSUME TypeOK, Conserved, NEW r \in Records, call[r] = "idle", Hold(r)
  PROVE  /\ held' \in Seq(Records) /\ Len(held') \in Nat /\ Len(held') > 0
         /\ held'[Len(held')] = r
         /\ \/ /\ held' = Append(held, r) /\ Elements(held') = Elements(held) \cup {r}
               /\ evicted' = evicted
            \/ /\ held' = Tail(Append(held, r)) /\ Len(held) >= MaxHeld
               /\ Head(held) \in Elements(held)
               /\ Elements(held') = (Elements(held) \cup {r}) \ {Head(held)}
               /\ evicted' = [evicted EXCEPT ![r] = Head(held)]
         /\ call' \in {[call EXCEPT ![r] = "done"], [call EXCEPT ![r] = "evict"]}
<1> DEFINE queue == Append(held, r)
<1>1. r \notin Elements(held) /\ Distinct(held)
  BY Apart DEF Conserved
<1>2. held \in Seq(Records) /\ Len(held) \in Nat
  BY LenProperties DEF TypeOK
<1>3. /\ queue \in Seq(Records) /\ queue # <<>> /\ Len(queue) = Len(held) + 1
      /\ queue[Len(held) + 1] = r
      /\ Elements(queue) = Elements(held) \cup {r} /\ Distinct(queue)
  BY <1>1, <1>2, AppendProperties, ElementsOfAppend
<1>4. CASE Fits(queue)
  <2>1. held' = queue /\ evicted' = evicted /\ call' = [call EXCEPT ![r] = "done"]
    BY <1>4 DEF Hold
  <2> HIDE DEF queue
  <2>2. Len(held') \in Nat /\ Len(held') > 0 /\ held'[Len(held')] = r
    BY <1>2, <1>3, <2>1
  <2> QED
    BY <1>3, <2>1, <2>2 DEF queue
<1>5. CASE ~Fits(queue)
  <2>1. /\ held' = Tail(queue) /\ call' = [call EXCEPT ![r] = "evict"]
        /\ evicted' = [evicted EXCEPT ![r] = Head(queue)]
    BY <1>5 DEF Hold
  <2>2. Len(held) >= MaxHeld /\ Len(held) # 0
    BY <1>2, <1>3, <1>5, RecordsTyped DEF Fits
  <2>3. held # <<>>
    BY <2>2
  <2>4. Head(queue) = Head(held)
    BY <1>2, <1>3, <2>2, <2>3, AppendProperties, HeadTailProperties
  <2>5. Head(held) \in Elements(held)
    BY <1>1, <1>2, <2>3, ElementsOfTail
  <2> HIDE DEF queue
  <2>6. Elements(held') = (Elements(held) \cup {r}) \ {Head(held)}
    BY <1>3, <2>1, <2>4, ElementsOfTail
  <2>7. /\ held' \in Seq(Records) /\ Len(held') = Len(held)
        /\ \A i \in 1..Len(held) : held'[i] = queue[i + 1]
    BY <1>2, <1>3, <2>1, HeadTailProperties
  <2>8. Len(held') \in Nat /\ Len(held') > 0 /\ held'[Len(held')] = r
    BY <1>2, <1>3, <2>2, <2>7
  <2> QED
    BY <2>1, <2>2, <2>4, <2>5, <2>6, <2>7, <2>8 DEF queue
<1> QED
  BY <1>4, <1>5

LEMMA HeldSpans ==
  \A t : SpanHeld(t) <=> \E s \in Elements(held) \cap Spans : TraceOf[s] = t
BY DEF SpanHeld, Elements

LEMMA ReadDecides ==
  ASSUME TypeOK, Gated, ReaderLock
  PROVE  Decided'
<1>1. CASE outcome = {}
  <2>1. /\ unavailable' = (unavailable \/ (~skipped /\ ~loaded))
        /\ UNCHANGED <<loaded, contentOff, allowed, stopped>>
    BY <1>1 DEF ReaderLock, planVars
  <2> QED
    BY <2>1 DEF Gated, Decided, NoPlanComes
<1>2. CASE outcome # {}
  <2>1. PICK plan \in outcome : loaded' = TRUE
    BY <1>2 DEF ReaderLock
  <2> QED
    BY <2>1 DEF Decided
<1> QED
  BY <1>1, <1>2

(* The traces whose spans are in a batch are no more than its records. *)
LEMMA TracesCounted ==
  ASSUME NEW queue \in Seq(Records)
  PROVE  LET D == {TraceOf[s] : s \in Elements(queue) \cap Spans}
         IN IsFiniteSet(D) /\ Cardinality(D) <= Len(queue)
<1> DEFINE S == Elements(queue) \cap Spans
           D == {TraceOf[s] : s \in S}
           trace == [s \in S |-> TraceOf[s]]
<1>1. IsFiniteSet(Elements(queue)) /\ Cardinality(Elements(queue)) <= Len(queue)
  BY ElementsCounted
<1>2. IsFiniteSet(S) /\ Cardinality(S) <= Cardinality(Elements(queue))
  BY <1>1, FS_Subset
<1>3. trace \in Surjection(S, D)
  BY DEF Surjection
<1>4. IsFiniteSet(D) /\ Cardinality(D) <= Cardinality(S)
  BY <1>2, <1>3, FS_Surjection
<1>5. /\ Cardinality(D) \in Nat /\ Cardinality(S) \in Nat
      /\ Cardinality(Elements(queue)) \in Nat /\ Len(queue) \in Nat
  BY <1>1, <1>2, <1>4, FS_CardinalityType, LenProperties
<1> HIDE DEF S, D
<1>6. IsFiniteSet(D) /\ Cardinality(D) <= Len(queue)
  BY <1>1, <1>2, <1>4, <1>5
<1> QED
  BY <1>6 DEF D, S

(* The queue has room for the completion of a trace that is being drained. *)
LEMMA RoomWhileDraining ==
  ASSUME TypeOK, Conserved, Settled, Decided, NEW t \in draining, t \notin Elements(held)
  PROVE  Len(held) < MaxHeld
<1>1. held \in Seq(Records) /\ Len(held) \in Nat /\ Distinct(held)
  BY LenProperties DEF TypeOK, Conserved
<1>2. IsFiniteSet(Elements(held)) /\ Cardinality(Elements(held)) = Len(held)
  BY <1>1, ElementsCounted
<1>3. IsFiniteSet(draining) /\ Cardinality(draining) <= MaxHeld /\ Elements(held) \subseteq draining
  BY DEF Settled
<1>4. Cardinality(Elements(held) \cup {t}) = Len(held) + 1
  BY <1>2, FS_AddElement
<1>5. Elements(held) \cup {t} \subseteq draining
  BY <1>3
<1>6. Cardinality(Elements(held) \cup {t}) <= Cardinality(draining)
  BY <1>3, <1>5, FS_Subset
<1>7. Cardinality(draining) \in Nat
  BY <1>3, FS_CardinalityType
<1> QED
  BY <1>1, <1>3, <1>4, <1>6, <1>7, RecordsTyped

(* Between two drains there is nothing to submit. *)
LEMMA EmptyBetweenDrains ==
  ASSUME Emptied, drainer = None
  PROVE  \A p \in Drainers : batch[p] = <<>>
BY RecordsTyped DEF Emptied

LEMMA HeldOnlyUndecided ==
  ASSUME TypeOK, Settled, Decided, drainer = None
  PROVE  held = <<>>
<1>1. Elements(held) = {} /\ held \in Seq(Records)
  BY DEF Settled, TypeOK
<1> QED
  BY <1>1, ElementsTyped

LEMMA TakeSettled ==
  ASSUME TypeOK, Emptied, Settled, NEW p \in Drainers, TakeHeld(p)
  PROVE  /\ Elements(held') = {}
         /\ drainer' = None => draining' = {}
         /\ Decided => held = <<>>
         /\ held = <<>> => drainer' = None
         /\ \A q \in Drainers : \A s \in Elements(batch'[q]) \cap Spans : TraceOf[s] \in draining'
         /\ IsFiniteSet(draining') /\ Cardinality(draining') <= MaxHeld
<1>1. /\ drainer = None /\ held' = <<>> /\ batch' = [batch EXCEPT ![p] = held]
      /\ held = <<>> => draining' = draining /\ drainer' = drainer
      /\ held # <<>> => drainer' = p /\ draining' = {TraceOf[s] : s \in Elements(held) \cap Spans}
  BY DEF TakeHeld, ClearHeld, Elements
<1>2. \A q \in Drainers : batch[q] = <<>>
  BY <1>1, EmptyBetweenDrains
<1>3. batch'[p] = held /\ \A q \in Drainers : q # p => Elements(batch'[q]) = {}
  BY <1>1, <1>2, ElementsOfEmpty DEF TypeOK
<1>4. Elements(held') = {} /\ (Decided => held = <<>>)
  BY <1>1, ElementsOfEmpty, HeldOnlyUndecided
<1>5. held \in Seq(Records) /\ Len(held) \in Nat /\ Len(held) <= MaxHeld
  BY LenProperties DEF TypeOK
<1>6. CASE held = <<>>
  <2>1. draining' = {} /\ drainer' = None
    BY <1>1, <1>6 DEF Settled
  <2>2. Elements(held) = {}
    BY <1>6, ElementsOfEmpty
  <2>3. IsFiniteSet(draining') /\ Cardinality(draining') <= MaxHeld
    BY <2>1, FS_EmptySet, RecordsTyped
  <2> QED
    BY <1>3, <1>4, <2>1, <2>2, <2>3
<1>7. CASE held # <<>>
  <2>1. drainer' # None
    BY <1>1, <1>7, RecordsTyped
  <2>2. draining' = {TraceOf[s] : s \in Elements(held) \cap Spans}
    BY <1>1, <1>7
  <2>3. \A q \in Drainers : \A s \in Elements(batch'[q]) \cap Spans : TraceOf[s] \in draining'
    BY <1>3, <2>2
  <2>4. IsFiniteSet(draining') /\ Cardinality(draining') <= Len(held)
    BY <1>5, <2>2, TracesCounted
  <2>5. Cardinality(draining') <= MaxHeld
    BY <1>5, <2>4, RecordsTyped, FS_CardinalityType
  <2> QED
    BY <1>4, <1>7, <2>1, <2>3, <2>4, <2>5
<1> QED
  BY <1>6, <1>7

(* A step that leaves the queue, the drains, the plan and close alone. *)
LEMMA QuietSettled ==
  ASSUME Settled, UNCHANGED <<loaded, unavailable, closing, stopped, held, draining,
                              drainer, batch, closer>>,
         reader' = "exit" => reader = "exit"
  PROVE  Settled'
BY DEF Settled, Decided, NoPlanComes

LEMMA StepSettled ==
  TypeOK /\ Gated /\ Emptied /\ Conserved /\ Settled /\ [Next]_vars => Settled'
<1> SUFFICES ASSUME TypeOK, Gated, Emptied, Conserved, Settled, [Next]_vars PROVE Settled'
  OBVIOUS
<1> USE DEF planVars, queueVars, readerVars, callVars, flushVars
<1>0. reader' = Refreshed => (reader' = "exit" => reader = "exit")
  BY DEF Refreshed
<1>1. ASSUME NEW s \in Spans, SendSpan(s) PROVE Settled'
  <2>1. Decided => held' = held
    BY <1>1 DEF SendSpan, HoldsSpan, Pass, Decided, NoPlanComes
  <2>2. reader' = Refreshed
    BY <1>1 DEF SendSpan, Hold, Pass
  <2> QED
    BY <1>0, <1>1, <2>1, <2>2 DEF SendSpan, Settled, Decided, NoPlanComes
<1>2. ASSUME NEW t \in Traces, SendTrace(t) PROVE Settled'
  <2>1. Decided => Elements(held') \subseteq draining
    <3> SUFFICES ASSUME Decided PROVE Elements(held') \subseteq draining
      OBVIOUS
    <3>1. Elements(held) \subseteq draining
      BY DEF Settled
    <3>2. CASE HoldsTrace(t)
      <4>1. ~SpanHeld(t)
        BY <3>1, HeldSpans, PlanAssumption DEF TypeOK
      <4>2. t \in draining
        BY <3>2, <4>1 DEF HoldsTrace
      <4>3. t \in Records /\ call[t] = "idle" /\ Hold(t)
        BY <1>2, <3>2, RecordsTyped DEF SendTrace
      <4>4. Elements(held') \subseteq Elements(held) \cup {t}
        BY <4>3, HoldQueue
      <4> QED
        BY <3>1, <4>2, <4>4
    <3>3. CASE ~HoldsTrace(t)
      BY <1>2, <3>1, <3>3 DEF SendTrace, Pass
    <3> QED
      BY <3>2, <3>3
  <2>2. reader' = Refreshed
    BY <1>2 DEF SendTrace, Hold, Pass
  <2> QED
    BY <1>0, <1>2, <2>1, <2>2 DEF SendTrace, Settled, Decided, NoPlanComes
<1>3. ASSUME NEW r \in Records, Deliver(r) \/ Evict(r) PROVE Settled'
  BY <1>3, QuietSettled DEF Deliver, Evict
<1>4. ASSUME NEW p \in Drainers, DrainOne(p) PROVE Settled'
  <2>1. /\ batch[p] # <<>> /\ batch[p] \in Seq(Records) /\ Distinct(batch[p])
        /\ batch' = [batch EXCEPT ![p] = Tail(batch[p])]
    BY <1>4 DEF DrainOne, TypeOK, Conserved
  <2>2. Elements(Tail(batch[p])) \subseteq Elements(batch[p])
    BY <2>1, ElementsOfTail
  <2>3. \A q \in Drainers : Elements(batch'[q]) \subseteq Elements(batch[q])
    BY <2>1, <2>2 DEF TypeOK
  <2>4. UNCHANGED <<loaded, unavailable, closing, stopped, held, draining, drainer, closer, reader>>
    BY <1>4 DEF DrainOne
  <2> QED
    BY <2>3, <2>4 DEF Settled, Decided, NoPlanComes
<1>5. ASSUME NEW p \in Drainers, DrainMore(p) PROVE Settled'
  <2>1. /\ drainer = p /\ batch[p] = <<>> /\ Decided
        /\ \A q \in Drainers : batch[q] = <<>>
    BY <1>5, RecordsTyped DEF DrainMore, Gated, Emptied
  <2>2. Decided' /\ UNCHANGED <<loaded, unavailable, closing, stopped>>
    BY <1>5, <2>1 DEF DrainMore, Decided, NoPlanComes
  <2>3. CASE HeldMeanwhile
    <3>1. /\ held' = <<>> /\ batch' = [batch EXCEPT ![p] = held]
          /\ UNCHANGED <<draining, drainer, reader, closer>>
      BY <1>5, <2>3 DEF DrainMore, ClearHeld
    <3>2. Elements(held') = {} /\ Elements(held) \subseteq draining
      BY <2>1, <3>1, ElementsOfEmpty DEF Settled
    <3>3. \A q \in Drainers : Elements(batch'[q]) \cap Spans = {}
      <4>1. Elements(held) \cap Spans = {}
        BY <3>2, PlanAssumption DEF TypeOK
      <4>2. \A q \in Drainers : q # p => Elements(batch'[q]) = {}
        BY <2>1, <3>1, ElementsOfEmpty DEF TypeOK
      <4> QED
        BY <3>1, <4>1, <4>2 DEF TypeOK
    <3> QED
      BY <2>2, <3>1, <3>2, <3>3 DEF Settled
  <2>4. CASE ~HeldMeanwhile
    <3>1. /\ held = <<>> /\ draining' = {} /\ drainer' = None
          /\ UNCHANGED <<held, batch>>
          /\ reader' = IF p = "reader" THEN "exit" ELSE reader
          /\ closer' = CASE p = "closer" /\ closer = "drain" -> "stop"
                         [] p = "closer" /\ closer = "redrain" -> "shut"
                         [] OTHER -> closer
      BY <1>5, <2>4 DEF DrainMore, UnlockDrainMu, HeldMeanwhile
    <3>2. Elements(held') = {} /\ \A q \in Drainers : Elements(batch'[q]) = {}
      BY <2>1, <3>1, ElementsOfEmpty
    <3>3. IsFiniteSet(draining') /\ Cardinality(draining') <= MaxHeld
      BY <3>1, FS_EmptySet, RecordsTyped
    <3>4. /\ closer' \notin {"open", "flush"} => closing
          /\ stopped => closer' \in {"reflush", "redrain", "shut"}
      BY <3>1 DEF Settled
    <3> QED
      BY <2>2, <3>1, <3>2, <3>3, <3>4 DEF Settled
  <2> QED
    BY <2>3, <2>4
<1>6. CASE Refresh
  BY <1>0, <1>6, QuietSettled DEF Refresh
<1>7. CASE Tick \/ FlushAnswer
  BY <1>7, QuietSettled DEF Tick, FlushAnswer
<1>8. CASE FlushBegin
  BY <1>0, <1>8, QuietSettled DEF FlushBegin
<1>9. CASE ReaderBegin \/ ReaderRead
  <2>1. reader' # "exit"
    BY <1>9 DEF ReaderBegin, ReaderRead
  <2> QED
    BY <1>9, <2>1, QuietSettled DEF ReaderBegin, ReaderRead
<1>10. CASE ReaderLock
  <2>1. /\ TakeHeld("reader") /\ "reader" \in Drainers
        /\ UNCHANGED <<closing, stopped, closer>>
        /\ reader' = IF held = <<>> THEN "exit" ELSE "drain"
    BY <1>10, StationsNamed DEF ReaderLock
  <2>2. Decided'
    BY <1>10, ReadDecides
  <2>3. closer \in {"stop", "reflush", "redrain", "shut"} => Decided
    BY DEF Settled, Decided, NoPlanComes
  <2> QED
    BY <2>1, <2>2, <2>3, TakeSettled DEF Settled
<1>11. CASE ReaderExit
  <2>1. drainer = None /\ draining = {} /\ draining' = {} /\ reader' = "off"
    BY <1>11 DEF ReaderExit, Settled
  <2> QED
    BY <1>11, <2>1, QuietSettled DEF ReaderExit
<1>12. CASE CloseBegin
  <2>1. /\ closer = "open" /\ closer' = "flush" /\ reader' = Refreshed
        /\ UNCHANGED <<loaded, unavailable, closing, stopped, held, draining, drainer, batch>>
    BY <1>12 DEF CloseBegin
  <2> QED
    BY <1>0, <2>1 DEF Settled, Decided, NoPlanComes
<1>13. CASE FlushHeld
  <2>1. /\ TakeHeld("closer") /\ "closer" \in Drainers
        /\ closing' = TRUE /\ UNCHANGED <<loaded, unavailable, stopped, reader>>
        /\ closer \in {"flush", "reflush"}
        /\ closer' = IF held = <<>> THEN IF closer = "flush" THEN "stop" ELSE "shut"
                     ELSE IF closer = "flush" THEN "drain" ELSE "redrain"
    BY <1>13, StationsNamed DEF FlushHeld
  <2>2. Decided'
    BY <2>1 DEF Decided, NoPlanComes
  <2>3. closer = "reflush" => held = <<>>
    BY <2>1, TakeSettled DEF Settled, Decided, NoPlanComes
  <2>4. reader = "exit" => held = <<>>
    BY <2>1, TakeSettled DEF Settled
  <2> QED
    BY <2>1, <2>2, <2>3, <2>4, TakeSettled DEF Settled
<1>14. CASE Stop
  <2>1. /\ closer = "stop" /\ closer' = "reflush" /\ stopped' = TRUE
        /\ UNCHANGED <<loaded, unavailable, closing, held, draining, drainer, batch, reader>>
    BY <1>14 DEF Stop
  <2>2. Decided
    BY <2>1 DEF Settled, Decided, NoPlanComes
  <2> QED
    BY <2>1, <2>2 DEF Settled, Decided, NoPlanComes
<1>15. CASE UNCHANGED vars
  BY <1>15, QuietSettled DEF vars
<1> QED
  BY <1>1, <1>2, <1>3, <1>4, <1>5, <1>6, <1>7, <1>8, <1>9, <1>10, <1>11,
     <1>12, <1>13, <1>14, <1>15 DEF Next, Reader, Closer, Drain

LEMMA InitSettled == Init => Settled
<1> SUFFICES ASSUME Init PROVE Settled
  OBVIOUS
<1>1. /\ held = <<>> /\ draining = {} /\ drainer = None /\ reader = "off" /\ closer = "open"
      /\ stopped = FALSE /\ \A p \in Drainers : batch[p] = <<>>
  BY DEF Init
<1>2. Elements(held) = {} /\ \A p \in Drainers : Elements(batch[p]) = {}
  BY <1>1, ElementsOfEmpty
<1> QED
  BY <1>1, <1>2, FS_EmptySet, RecordsTyped DEF Settled

-----------------------------------------------------------------------------
LEMMA BehindNothing ==
  ASSUME NEW queue, NEW s, NEW t, s \notin Elements(queue)
  PROVE  Behind(queue, s, t)
BY DEF Behind, Elements

LEMMA BehindInQueue ==
  ASSUME NEW queue, NEW s, NEW t, Behind(queue, s, t), s \in Elements(queue)
  PROVE  t \in Elements(queue)
BY DEF Behind, Elements

LEMMA BehindLast ==
  ASSUME NEW S, NEW queue \in Seq(S), NEW s, NEW t, s # t,
         Len(queue) > 0, queue[Len(queue)] = t
  PROVE  Behind(queue, s, t)
<1>1. Len(queue) \in Nat
  BY LenProperties
<1> QED
  BY <1>1 DEF Behind

LEMMA BehindAppend ==
  ASSUME NEW S, NEW queue \in Seq(S), NEW r \in S, NEW s, NEW t, s # r, Behind(queue, s, t)
  PROVE  Behind(Append(queue, r), s, t)
<1> DEFINE longer == Append(queue, r)
<1>1. /\ Len(queue) \in Nat /\ Len(longer) = Len(queue) + 1
      /\ longer[Len(queue) + 1] = r
      /\ \A i \in 1..Len(queue) : longer[i] = queue[i]
  BY AppendProperties, LenProperties
<1> HIDE DEF longer
<1>2. Behind(longer, s, t)
  BY <1>1 DEF Behind
<1> QED
  BY <1>2 DEF longer

LEMMA BehindTail ==
  ASSUME NEW S, NEW queue \in Seq(S), queue # <<>>, NEW s, NEW t, Behind(queue, s, t)
  PROVE  Behind(Tail(queue), s, t)
<1> DEFINE shorter == Tail(queue)
<1>1. /\ Len(queue) \in Nat /\ Len(queue) >= 1 /\ Len(shorter) = Len(queue) - 1
      /\ \A i \in 1..(Len(queue) - 1) : shorter[i] = queue[i + 1]
  BY HeadTailProperties, LenProperties, EmptySeq
<1> HIDE DEF shorter
<1>2. ASSUME NEW i \in 1..Len(shorter), shorter[i] = s
      PROVE  \E j \in 1..Len(shorter) : i < j /\ shorter[j] = t
  <2>1. i + 1 \in 1..Len(queue) /\ queue[i + 1] = s
    BY <1>1, <1>2
  <2>2. PICK j \in 1..Len(queue) : i + 1 < j /\ queue[j] = t
    BY <2>1 DEF Behind
  <2>3. j - 1 \in 1..Len(shorter) /\ i < j - 1 /\ shorter[j - 1] = t
    BY <1>1, <1>2, <2>2
  <2> QED
    BY <2>3
<1> QED
  BY <1>2 DEF Behind, shorter

(* hold keeps the records that are not its own in order. *)
LEMMA HoldKeepsOrder ==
  ASSUME TypeOK, Conserved, NEW r \in Records, call[r] = "idle", Hold(r),
         NEW s, NEW t, s # r, Behind(held, s, t)
  PROVE  Behind(held', s, t)
<1>1. held \in Seq(Records) /\ Behind(Append(held, r), s, t)
  BY BehindAppend DEF TypeOK
<1>2. Append(held, r) \in Seq(Records) /\ Append(held, r) # <<>>
  BY <1>1, AppendProperties
<1>3. held' = Append(held, r) \/ held' = Tail(Append(held, r))
  BY HoldQueue
<1> QED
  BY <1>1, <1>2, <1>3, BehindTail

(* While a batch is not empty its plan is decided. *)
LEMMA BatchDecided ==
  ASSUME Gated, Emptied, NEW p \in Drainers, batch[p] # <<>>
  PROVE  Decided /\ drainer = p
BY RecordsTyped DEF Gated, Emptied

LEMMA QuietQueued ==
  ASSUME Queued, UNCHANGED <<held, batch, ahead>>,
         \A r \in Records : /\ call[r] = "done" => call'[r] = "done"
                            /\ call[r] # "idle" => call'[r] # "idle",
         TypeOK
  PROVE  Queued'
<1> SUFFICES ASSUME NEW t \in Traces, NEW s \in ahead[t]
             PROVE  /\ TraceOf[s] = t /\ call'[s] = "done" /\ call'[t] # "idle"
                    /\ Behind(held, s, t)
                    /\ \A p \in Drainers : t \in Elements(held) \/ Behind(batch[p], s, t)
  BY DEF Queued
<1>1. s \in Records /\ t \in Records
  BY RecordsTyped DEF TypeOK
<1> QED
  BY <1>1 DEF Queued

LEMMA MoveQueued ==
  ASSUME TypeOK, Queued, NEW p \in Drainers, \A q \in Drainers : batch[q] = <<>>,
         held' = <<>>, batch' = [batch EXCEPT ![p] = held], UNCHANGED <<call, ahead>>
  PROVE  Queued'
<1>1. batch'[p] = held /\ \A q \in Drainers : q # p => Elements(batch'[q]) = {}
  BY ElementsOfEmpty DEF TypeOK
<1>2. Elements(held') = {}
  BY ElementsOfEmpty
<1>3. \A s, t : Behind(held', s, t) /\ \A q \in Drainers : q # p => Behind(batch'[q], s, t)
  BY <1>1, <1>2, BehindNothing
<1> QED
  BY <1>1, <1>3 DEF Queued

LEMMA SpanHoldQueued ==
  ASSUME TypeOK, Gated, Emptied, Conserved, Queued, NEW s \in Spans, ~Decided, call[s] = "idle",
         Hold(s), UNCHANGED <<batch, ahead>>
  PROVE  Queued'
<1>1. s \in Records
  BY RecordsTyped
<1>2. \A q \in Drainers : batch[q] = <<>>
  BY BatchDecided
<1>3. \A r \in Records : r # s => call'[r] = call[r]
  BY <1>1, HoldQueue DEF TypeOK
<1> SUFFICES ASSUME NEW t \in Traces, NEW d \in ahead[t]
             PROVE  /\ TraceOf[d] = t /\ call'[d] = "done" /\ call'[t] # "idle"
                    /\ Behind(held', d, t)
                    /\ \A p \in Drainers : t \in Elements(held') \/ Behind(batch[p], d, t)
  BY DEF Queued
<1>4. d \in Records /\ t \in Records /\ d # s /\ t # s
  BY RecordsTyped, PlanAssumption DEF TypeOK, Queued
<1>5. TraceOf[d] = t /\ call'[d] = "done" /\ call'[t] # "idle" /\ Behind(held, d, t)
  BY <1>3, <1>4 DEF Queued
<1>6. Behind(held', d, t)
  BY <1>1, <1>4, <1>5, HoldKeepsOrder
<1>7. \A p \in Drainers : Behind(batch[p], d, t)
  BY <1>2, ElementsOfEmpty, BehindNothing
<1> QED
  BY <1>5, <1>6, <1>7

LEMMA TraceSentQueued ==
  ASSUME TypeOK, Gated, Emptied, Conserved, Settled, Queued, NEW t \in Traces, SendTrace(t)
  PROVE  Queued'
<1>1. /\ t \in Records /\ call[t] = "idle" /\ batch' = batch
      /\ ahead' = [ahead EXCEPT ![t] = {s \in Spans : TraceOf[s] = t /\ call[s] = "done"}]
  BY RecordsTyped DEF SendTrace
<1>2. \A u \in Traces : \A s \in ahead'[u] :
        \/ u = t /\ s \in Spans /\ TraceOf[s] = t /\ call[s] = "done"
        \/ u # t /\ s \in ahead[u]
  BY <1>1 DEF TypeOK
<1>3. \A u \in Traces : \A s \in ahead'[u] :
        s \in Spans /\ s # t /\ s \in Records /\ call[s] = "done" /\ TraceOf[s] = u
  BY <1>2, RecordsTyped, PlanAssumption DEF TypeOK, Queued
<1>4. call'[t] # "idle" /\ \A r \in Records : r # t => call'[r] = call[r]
  BY <1>1, HoldQueue DEF SendTrace, Pass, TypeOK
<1>5. \A u \in Traces : \A s \in ahead'[u] : call'[s] = "done" /\ call'[u] # "idle"
  <2> SUFFICES ASSUME NEW u \in Traces, NEW s \in ahead'[u]
               PROVE  call'[s] = "done" /\ call'[u] # "idle"
    OBVIOUS
  <2>1. call'[s] = "done"
    BY <1>3, <1>4
  <2>2. u # t => call'[u] # "idle"
    BY <1>2, <1>4, RecordsTyped DEF Queued
  <2> QED
    BY <1>4, <2>1, <2>2
<1>6. CASE HoldsTrace(t)
  <2>1. Hold(t)
    BY <1>1, <1>6 DEF SendTrace
  <2>2. /\ held' \in Seq(Records) /\ Len(held') > 0 /\ held'[Len(held')] = t
        /\ t \in Elements(held')
    <3>1. /\ held' \in Seq(Records) /\ Len(held') > 0 /\ held'[Len(held')] = t
          /\ Len(held') \in Nat
      BY <1>1, <2>1, HoldQueue
    <3> QED
      BY <3>1 DEF Elements
  <2>3. ASSUME NEW p \in Drainers, batch[p] # <<>>
        PROVE  Elements(held) \subseteq Elements(held')
    <3>1. Decided
      BY <2>3, BatchDecided
    <3>2. ~SpanHeld(t)
      BY <3>1, HeldSpans, PlanAssumption DEF Settled, TypeOK
    <3>3. t \in draining /\ t \notin Elements(held)
      BY <1>1, <1>6, <3>2, Apart DEF HoldsTrace, Conserved
    <3>4. Len(held) < MaxHeld /\ Len(held) \in Nat
      BY <3>1, <3>3, RoomWhileDraining, LenProperties DEF TypeOK
    <3>5. ~(Len(held) >= MaxHeld)
      BY <3>4, RecordsTyped
    <3> QED
      BY <1>1, <2>1, <3>5, HoldQueue
  <2> SUFFICES ASSUME NEW u \in Traces, NEW s \in ahead'[u]
               PROVE  /\ Behind(held', s, u)
                      /\ \A p \in Drainers : u \in Elements(held') \/ Behind(batch[p], s, u)
    BY <1>1, <1>3, <1>5 DEF Queued
  <2>4. CASE u = t
    BY <1>3, <2>2, <2>4, BehindLast
  <2>5. CASE u # t
    <3>1. /\ Behind(held, s, u)
          /\ \A p \in Drainers : u \in Elements(held) \/ Behind(batch[p], s, u)
      BY <1>2, <2>5 DEF Queued
    <3>2. Behind(held', s, u)
      BY <1>1, <1>3, <2>1, <3>1, HoldKeepsOrder
    <3>3. \A p \in Drainers : batch[p] = <<>> => Behind(batch[p], s, u)
      BY ElementsOfEmpty, BehindNothing
    <3> QED
      BY <2>3, <3>1, <3>2, <3>3
  <2> QED
    BY <2>4, <2>5
<1>7. CASE ~HoldsTrace(t)
  <2>1. held' = held
    BY <1>1, <1>7 DEF SendTrace, Pass
  <2>2. ASSUME NEW s \in Spans, TraceOf[s] = t
        PROVE  s \notin Elements(held) /\ \A p \in Drainers : s \notin Elements(batch[p])
    <3>1. CASE stopped
      <4>1. Decided /\ drainer = None
        BY <3>1 DEF Decided, NoPlanComes, Settled
      <4>2. held = <<>> /\ \A p \in Drainers : batch[p] = <<>>
        BY <4>1, HeldOnlyUndecided, EmptyBetweenDrains
      <4> QED
        BY <4>2, ElementsOfEmpty
    <3>2. CASE ~stopped
      <4>1. t \notin draining /\ ~SpanHeld(t)
        BY <1>7, <3>2 DEF HoldsTrace
      <4> QED
        BY <2>2, <4>1, HeldSpans DEF Settled
    <3> QED
      BY <3>1, <3>2
  <2> SUFFICES ASSUME NEW u \in Traces, NEW s \in ahead'[u]
               PROVE  /\ Behind(held, s, u)
                      /\ \A p \in Drainers : u \in Elements(held) \/ Behind(batch[p], s, u)
    BY <1>1, <1>3, <1>5, <2>1 DEF Queued
  <2>3. CASE u = t
    BY <1>3, <2>2, <2>3, BehindNothing
  <2>4. CASE u # t
    BY <1>2, <2>4 DEF Queued
  <2> QED
    BY <2>3, <2>4
<1> QED
  BY <1>6, <1>7

LEMMA StepQueued ==
  TypeOK /\ Gated /\ Emptied /\ Conserved /\ Settled /\ Queued /\ [Next]_vars => Queued'
<1> SUFFICES ASSUME TypeOK, Gated, Emptied, Conserved, Settled, Queued, [Next]_vars PROVE Queued'
  OBVIOUS
<1> USE DEF planVars, queueVars, readerVars, callVars, flushVars
<1>1. ASSUME NEW s \in Spans, SendSpan(s) PROVE Queued'
  <2>1. CASE HoldsSpan(s)
    <3>1. ~Decided
      BY <2>1 DEF HoldsSpan, Decided, NoPlanComes
    <3> QED
      BY <1>1, <2>1, <3>1, SpanHoldQueued DEF SendSpan
  <2>2. CASE ~HoldsSpan(s)
    <3>1. call' = [call EXCEPT ![s] = "deliver"] /\ held' = held
      BY <1>1, <2>2 DEF SendSpan, Pass
    <3>2. \A r \in Records : /\ call[r] = "done" => call'[r] = "done"
                             /\ call[r] # "idle" => call'[r] # "idle"
      BY <1>1, <3>1 DEF SendSpan, TypeOK
    <3> QED
      BY <1>1, <3>1, <3>2, QuietQueued DEF SendSpan
  <2> QED
    BY <2>1, <2>2
<1>2. ASSUME NEW t \in Traces, SendTrace(t) PROVE Queued'
  BY <1>2, TraceSentQueued
<1>3. ASSUME NEW r \in Records, Deliver(r) \/ Evict(r) PROVE Queued'
  <2>1. \A d \in Records : /\ call[d] = "done" => call'[d] = "done"
                           /\ call[d] # "idle" => call'[d] # "idle"
    BY <1>3 DEF Deliver, Evict, TypeOK
  <2> QED
    BY <1>3, <2>1, QuietQueued DEF Deliver, Evict
<1>4. ASSUME NEW p \in Drainers, DrainOne(p) PROVE Queued'
  <2>1. /\ batch[p] # <<>> /\ batch[p] \in Seq(Records)
        /\ batch' = [batch EXCEPT ![p] = Tail(batch[p])]
        /\ UNCHANGED <<held, call, ahead>>
    BY <1>4 DEF DrainOne, TypeOK
  <2>2. \A s, t : Behind(batch[p], s, t) => Behind(Tail(batch[p]), s, t)
    BY <2>1, BehindTail
  <2>3. \A q \in Drainers : \A s, t : Behind(batch[q], s, t) => Behind(batch'[q], s, t)
    BY <2>1, <2>2 DEF TypeOK
  <2> QED
    BY <2>1, <2>3 DEF Queued
<1>5. ASSUME NEW p \in Drainers, DrainMore(p) PROVE Queued'
  <2>1. /\ \A q \in Drainers : batch[q] = <<>>
        /\ UNCHANGED <<call, ahead>>
    BY <1>5 DEF DrainMore, Emptied
  <2>2. CASE HeldMeanwhile
    BY <1>5, <2>1, <2>2, MoveQueued DEF DrainMore, ClearHeld
  <2>3. CASE ~HeldMeanwhile
    BY <1>5, <2>1, <2>3, QuietQueued DEF DrainMore
  <2> QED
    BY <2>2, <2>3
<1>6. CASE Refresh \/ Tick \/ CloseBegin \/ Stop \/ FlushBegin \/ FlushAnswer
  BY <1>6, QuietQueued DEF Refresh, Tick, CloseBegin, Stop, FlushBegin, FlushAnswer
<1>7. CASE ReaderBegin \/ ReaderRead \/ ReaderExit
  BY <1>7, QuietQueued DEF ReaderBegin, ReaderRead, ReaderExit
<1>8. ASSUME NEW p \in Drainers, TakeHeld(p), UNCHANGED <<call, ahead>> PROVE Queued'
  <2>1. \A q \in Drainers : batch[q] = <<>>
    BY <1>8, EmptyBetweenDrains DEF TakeHeld
  <2> QED
    BY <1>8, <2>1, MoveQueued DEF TakeHeld, ClearHeld
<1>9. CASE ReaderLock \/ FlushHeld
  <2>1. (TakeHeld("reader") \/ TakeHeld("closer")) /\ UNCHANGED <<call, ahead>>
    BY <1>9 DEF ReaderLock, FlushHeld
  <2> QED
    BY <1>8, <2>1, StationsNamed
<1>10. CASE UNCHANGED vars
  BY <1>10, QuietQueued DEF vars
<1> QED
  BY <1>1, <1>2, <1>3, <1>4, <1>5, <1>6, <1>7, <1>9, <1>10
     DEF Next, Reader, Closer, Drain

LEMMA InOrder == TypeOK /\ Conserved /\ Queued => CompletionFollowsSpans
<1> SUFFICES ASSUME TypeOK, Conserved, Queued, NEW t \in Traces, fate[t] # "none",
                    NEW s \in ahead[t]
             PROVE  fate[s] # "none" \/ Overflowing(s)
  BY DEF CompletionFollowsSpans
<1>1. s \in Records /\ t \in Records /\ Placed(s) /\ Placed(t)
  BY RecordsTyped DEF TypeOK, Conserved
<1>2. t \notin Elements(held) /\ \A p \in Drainers : t \notin Elements(batch[p])
  BY <1>1, Apart
<1>3. s \notin Elements(held) /\ \A p \in Drainers : s \notin Elements(batch[p])
  BY <1>2, BehindInQueue DEF Queued
<1>4. call[s] = "done"
  BY DEF Queued
<1> QED
  BY <1>1, <1>3, <1>4, Apart

LEMMA InitQueued == Init => Queued
BY DEF Init, Queued

LEMMA GateHolds ==
  Spec => [](TypeOK /\ Gated /\ Emptied /\ Conserved /\ Settled)
<1>1. Init => Gated /\ Emptied
  BY RecordsTyped, PlanAssumption DEF Init, Gated, ContentNeedsPlan, Emptied, Drainers
<1> QED
  BY <1>1, InitConserved, InitSettled, StepGated, StepEmptied, StepConserved, StepSettled,
     TypeCorrect, PTL DEF Spec

(* A trace's completion is submitted after every span of it that was       *)
(* handed over before, whoever drains the queue and whether the plan is    *)
(* read, fails or is given up, but for spans pushed out of a full queue.   *)
THEOREM CompletionInOrder == Spec => []CompletionFollowsSpans
<1> QED
  BY InitQueued, StepQueued, InOrder, GateHolds, PTL DEF Spec

-----------------------------------------------------------------------------
(* What a step does not take back: a record that left has left, one on its *)
(* way leaves, one that was pushed out stays so, a call stays done.        *)
LEMMA Onward ==
  ASSUME TypeOK, Conserved, [Next]_vars, NEW r \in Records
  PROVE  /\ fate[r] # "none" => fate'[r] # "none"
         /\ Overflowing(r) => Overflowing(r)' \/ fate'[r] # "none"
         /\ PushedOut(r) => PushedOut(r)'
         /\ call[r] = "done" => call'[r] = "done"
<1> USE DEF planVars, queueVars, readerVars, callVars, flushVars
<1>1. ASSUME UNCHANGED <<fate, call, evicted>>
      PROVE  /\ fate[r] # "none" => fate'[r] # "none"
             /\ Overflowing(r) => Overflowing(r)' \/ fate'[r] # "none"
             /\ PushedOut(r) => PushedOut(r)'
             /\ call[r] = "done" => call'[r] = "done"
  BY <1>1 DEF Overflowing, Carries, PushedOut
<1>2. ASSUME NEW d \in Records, call[d] = "idle", fate' = fate,
             \A q \in Records : q # d => call'[q] = call[q] /\ evicted'[q] = evicted[q]
      PROVE  /\ fate[r] # "none" => fate'[r] # "none"
             /\ Overflowing(r) => Overflowing(r)' \/ fate'[r] # "none"
             /\ PushedOut(r) => PushedOut(r)'
             /\ call[r] = "done" => call'[r] = "done"
  <2>1. evicted[d] = None /\ None # r
    BY <1>2, Apart, PlanAssumption DEF Conserved
  <2> QED
    BY <1>2, <2>1 DEF Overflowing, Carries, PushedOut
<1>3. ASSUME NEW d \in Records, call[d] = "idle", Hold(d) \/ Pass(d), fate' = fate
      PROVE  /\ fate[r] # "none" => fate'[r] # "none"
             /\ Overflowing(r) => Overflowing(r)' \/ fate'[r] # "none"
             /\ PushedOut(r) => PushedOut(r)'
             /\ call[r] = "done" => call'[r] = "done"
  <2>1. \A q \in Records : q # d => call'[q] = call[q] /\ evicted'[q] = evicted[q]
    BY <1>3, HoldQueue DEF Pass, TypeOK
  <2> QED
    BY <1>2, <1>3, <2>1
<1>4. ASSUME NEW s \in Spans, SendSpan(s)
      PROVE  s \in Records /\ call[s] = "idle" /\ (Hold(s) \/ Pass(s)) /\ fate' = fate
  BY <1>4, RecordsTyped DEF SendSpan
<1>5. ASSUME NEW t \in Traces, SendTrace(t)
      PROVE  t \in Records /\ call[t] = "idle" /\ (Hold(t) \/ Pass(t)) /\ fate' = fate
  BY <1>5, RecordsTyped DEF SendTrace
<1>6. ASSUME NEW d \in Records, Deliver(d)
      PROVE  /\ fate[r] # "none" => fate'[r] # "none"
             /\ Overflowing(r) => Overflowing(r)' \/ fate'[r] # "none"
             /\ PushedOut(r) => PushedOut(r)'
             /\ call[r] = "done" => call'[r] = "done"
  <2>1. /\ evicted' = evicted /\ call[d] = "deliver"
        /\ call' = [call EXCEPT ![d] = "done"] /\ fate' = [fate EXCEPT ![d] = Form(d)]
        /\ Form(d) # "none"
    BY <1>6, FormTyped DEF Deliver
  <2>2. \A q \in Records : Carries(q, r) => Carries(q, r)'
    BY <2>1 DEF Carries, TypeOK
  <2> QED
    BY <2>1, <2>2 DEF Overflowing, PushedOut, TypeOK
<1>7. ASSUME NEW d \in Records, Evict(d)
      PROVE  /\ fate[r] # "none" => fate'[r] # "none"
             /\ Overflowing(r) => Overflowing(r)' \/ fate'[r] # "none"
             /\ PushedOut(r) => PushedOut(r)'
             /\ call[r] = "done" => call'[r] = "done"
  <2>1. PICK h : h = evicted[d]
    OBVIOUS
  <2>2. /\ evicted' = evicted /\ call[d] = "evict"
        /\ call' = [call EXCEPT ![d] = "done"]
        /\ fate' = [fate EXCEPT ![h] = FormWithoutPlan(h)]
    BY <1>7, <2>1 DEF Evict
  <2>3. /\ fate[r] # "none" => fate'[r] # "none"
        /\ h = r => fate'[r] # "none"
    BY <2>2, FormTyped DEF TypeOK
  <2>4. h # r => \A q \in Records : Carries(q, r) => Carries(q, r)'
    BY <2>1, <2>2 DEF Carries, TypeOK
  <2>5. PushedOut(r) => PushedOut(r)'
    BY <2>2 DEF PushedOut
  <2>6. call[r] = "done" => call'[r] = "done"
    BY <2>2 DEF TypeOK
  <2> QED
    BY <2>3, <2>4, <2>5, <2>6 DEF Overflowing
<1>8. ASSUME NEW p \in Drainers, DrainOne(p)
      PROVE  /\ fate[r] # "none" => fate'[r] # "none"
             /\ Overflowing(r) => Overflowing(r)' \/ fate'[r] # "none"
             /\ PushedOut(r) => PushedOut(r)'
             /\ call[r] = "done" => call'[r] = "done"
  <2>1. Head(batch[p]) \in Records
    BY <1>8, HeadTailProperties DEF DrainOne, TypeOK
  <2>2. UNCHANGED <<call, evicted>> /\ (fate[r] # "none" => fate'[r] # "none")
    BY <1>8, <2>1, FormTyped DEF DrainOne, TypeOK
  <2> QED
    BY <2>2 DEF Overflowing, Carries, PushedOut
<1>9. CASE \/ \E p \in Drainers : DrainMore(p)
           \/ Refresh \/ Tick \/ Reader \/ CloseBegin \/ Closer \/ FlushBegin \/ FlushAnswer
           \/ UNCHANGED vars
  <2>1. UNCHANGED <<fate, call, evicted>>
    BY <1>9 DEF DrainMore, Refresh, Tick, Reader, ReaderBegin, ReaderRead, ReaderLock, ReaderExit,
                CloseBegin, Closer, FlushHeld, Stop, FlushBegin, FlushAnswer, vars
  <2> QED
    BY <1>1, <2>1
<1> QED
  BY <1>3, <1>4, <1>5, <1>6, <1>7, <1>8, <1>9 DEF Next, Drain

LEMMA PushedOutForGood ==
  ASSUME TypeOK, Conserved, [Next]_vars
  PROVE  \A t \in Traces : SpanPushedOut(t) => SpanPushedOut(t)'
<1>1. \A s \in Spans : PushedOut(s) => PushedOut(s)'
  BY Onward, RecordsTyped
<1> QED
  BY <1>1 DEF SpanPushedOut

LEMMA HoldCaused ==
  ASSUME TypeOK, Conserved, Caused, [Next]_vars, NEW r \in Records, call[r] = "idle", Hold(r),
         UNCHANGED <<batch, draining>>,
         r \in Traces => r \in draining \/ SpanHeld(r)
  PROVE  Caused'
<1> SUFFICES ASSUME NEW t \in Traces, t \in Waiting'
             PROVE  t \in draining \/ SpanHeld(t)' \/ SpanPushedOut(t)'
  BY DEF Caused
<1>1. t \in Waiting \cup {r}
  BY HoldQueue DEF Waiting
<1>2. t \in draining \/ SpanHeld(t) \/ SpanPushedOut(t)
  BY <1>1 DEF Caused
<1>3. ASSUME SpanHeld(t) PROVE SpanHeld(t)' \/ SpanPushedOut(t)'
  <2>1. PICK s \in Elements(held) \cap Spans : TraceOf[s] = t
    BY <1>3, HeldSpans
  <2>2. CASE s \in Elements(held')
    <3>1. \E i \in 1..Len(held') : held'[i] = s
      BY <2>2 DEF Elements
    <3> QED
      BY <2>1, <3>1 DEF SpanHeld
  <2>3. CASE s \notin Elements(held')
    <3>1. evicted' = [evicted EXCEPT ![r] = Head(held)] /\ s = Head(held)
      BY <2>1, <2>3, HoldQueue
    <3>2. evicted'[r] = s
      BY <3>1 DEF TypeOK
    <3> QED
      BY <2>1, <3>2 DEF SpanPushedOut, PushedOut
  <2> QED
    BY <2>2, <2>3
<1> QED
  BY <1>2, <1>3, PushedOutForGood

LEMMA StepCaused ==
  TypeOK /\ Gated /\ Emptied /\ Conserved /\ Settled /\ Caused /\ [Next]_vars => Caused'
<1> SUFFICES ASSUME TypeOK, Gated, Emptied, Conserved, Settled, Caused, [Next]_vars PROVE Caused'
  OBVIOUS
<1> USE DEF planVars, queueVars, readerVars, callVars, flushVars
<1>0. ASSUME UNCHANGED <<held, draining>>,
             \A p \in Drainers : Elements(batch'[p]) \subseteq Elements(batch[p])
      PROVE  Caused'
  <2>1. Waiting' \subseteq Waiting /\ \A t : SpanHeld(t)' <=> SpanHeld(t)
    BY <1>0 DEF Waiting, SpanHeld
  <2> QED
    BY <1>0, <2>1, PushedOutForGood DEF Caused
<1>1. ASSUME NEW s \in Spans, SendSpan(s) PROVE Caused'
  <2>1. s \in Records /\ s \notin Traces /\ call[s] = "idle" /\ UNCHANGED <<batch, draining>>
    BY <1>1, RecordsTyped, PlanAssumption DEF SendSpan
  <2>2. CASE HoldsSpan(s)
    BY <1>1, <2>1, <2>2, HoldCaused DEF SendSpan
  <2>3. CASE ~HoldsSpan(s)
    BY <1>0, <1>1, <2>1, <2>3 DEF SendSpan, Pass
  <2> QED
    BY <2>2, <2>3
<1>2. ASSUME NEW t \in Traces, SendTrace(t) PROVE Caused'
  <2>1. t \in Records /\ call[t] = "idle" /\ UNCHANGED <<batch, draining>>
    BY <1>2, RecordsTyped DEF SendTrace
  <2>2. CASE HoldsTrace(t)
    <3>1. t \in draining \/ SpanHeld(t)
      BY <2>2 DEF HoldsTrace
    <3> QED
      BY <1>2, <2>1, <2>2, <3>1, HoldCaused DEF SendTrace
  <2>3. CASE ~HoldsTrace(t)
    BY <1>0, <1>2, <2>1, <2>3 DEF SendTrace, Pass
  <2> QED
    BY <2>2, <2>3
<1>3. ASSUME NEW r \in Records, Deliver(r) \/ Evict(r) PROVE Caused'
  BY <1>0, <1>3 DEF Deliver, Evict
<1>4. ASSUME NEW p \in Drainers, DrainOne(p) PROVE Caused'
  <2>1. /\ batch[p] # <<>> /\ batch[p] \in Seq(Records) /\ Distinct(batch[p])
        /\ batch' = [batch EXCEPT ![p] = Tail(batch[p])]
    BY <1>4 DEF DrainOne, TypeOK, Conserved
  <2>2. Elements(Tail(batch[p])) \subseteq Elements(batch[p])
    BY <2>1, ElementsOfTail
  <2>3. \A q \in Drainers : Elements(batch'[q]) \subseteq Elements(batch[q])
    BY <2>1, <2>2 DEF TypeOK
  <2> QED
    BY <1>0, <1>4, <2>3 DEF DrainOne
<1>5. ASSUME NEW p \in Drainers, DrainMore(p) PROVE Caused'
  <2>1. /\ Decided /\ \A q \in Drainers : batch[q] = <<>>
    BY <1>5, RecordsTyped DEF DrainMore, Gated, Emptied
  <2>2. CASE HeldMeanwhile
    <3>1. /\ held' = <<>> /\ batch' = [batch EXCEPT ![p] = held] /\ draining' = draining
      BY <1>5, <2>2 DEF DrainMore, ClearHeld
    <3>2. Elements(held') = {} /\ \A q \in Drainers : Elements(batch'[q]) \subseteq Elements(held)
      BY <2>1, <3>1, ElementsOfEmpty DEF TypeOK
    <3>3. Waiting' \subseteq draining
      BY <2>1, <3>2 DEF Waiting, Settled
    <3> QED
      BY <3>1, <3>3 DEF Caused
  <2>3. CASE ~HeldMeanwhile
    <3>1. held' = <<>> /\ \A q \in Drainers : batch'[q] = <<>>
      BY <1>5, <2>1, <2>3 DEF DrainMore, HeldMeanwhile
    <3>2. Waiting' = {}
      BY <3>1, ElementsOfEmpty DEF Waiting
    <3> QED
      BY <3>2 DEF Caused
  <2> QED
    BY <2>2, <2>3
<1>6. CASE Refresh \/ Tick \/ CloseBegin \/ Stop \/ FlushBegin \/ FlushAnswer \/ ReaderBegin \/ ReaderRead
  BY <1>0, <1>6 DEF Refresh, Tick, CloseBegin, Stop, FlushBegin, FlushAnswer, ReaderBegin, ReaderRead
<1>7. CASE ReaderExit
  <2>1. held = <<>> /\ held' = held /\ batch' = batch /\ \A p \in Drainers : batch[p] = <<>>
    BY <1>7, HeldOnlyUndecided, EmptyBetweenDrains DEF ReaderExit, Settled
  <2>2. Waiting' = {}
    BY <2>1, ElementsOfEmpty DEF Waiting
  <2> QED
    BY <2>2 DEF Caused
<1>8. ASSUME NEW p \in Drainers, TakeHeld(p) PROVE Caused'
  <2>1. \A q \in Drainers : batch[q] = <<>>
    BY <1>8, EmptyBetweenDrains DEF TakeHeld
  <2>2. /\ held' = <<>> /\ batch' = [batch EXCEPT ![p] = held] /\ draining = {}
        /\ held # <<>> => draining' = {TraceOf[s] : s \in Elements(held) \cap Spans}
    BY <1>8 DEF TakeHeld, ClearHeld, Elements, Settled
  <2>3. Elements(held') = {} /\ \A q \in Drainers : Elements(batch'[q]) \subseteq Elements(held)
    BY <2>1, <2>2, ElementsOfEmpty DEF TypeOK
  <2>4. Waiting' \subseteq Elements(held)
    BY <2>3 DEF Waiting
  <2>5. held # <<>> => \A t : SpanHeld(t) => t \in draining'
    BY <2>2, HeldSpans
  <2>6. Elements(held) # {} => held # <<>>
    BY ElementsOfEmpty
  <2>7. Elements(held) \subseteq Waiting
    BY DEF Waiting
  <2> QED
    BY <2>2, <2>4, <2>5, <2>6, <2>7, PushedOutForGood DEF Caused
<1>9. CASE ReaderLock \/ FlushHeld
  BY <1>8, <1>9, StationsNamed DEF ReaderLock, FlushHeld
<1>10. CASE UNCHANGED vars
  BY <1>0, <1>10 DEF vars
<1> QED
  BY <1>1, <1>2, <1>3, <1>4, <1>5, <1>6, <1>7, <1>9, <1>10
     DEF Next, Reader, Closer, Drain

LEMMA FlushSteps ==
  ASSUME [Next]_vars
  PROVE  \/ UNCHANGED <<flush, owed>>
         \/ FlushBegin \/ FlushAnswer
BY DEF Next, SendSpan, SendTrace, Deliver, Evict, Drain, DrainOne, DrainMore, Refresh, Tick,
       Reader, ReaderBegin, ReaderRead, ReaderLock, ReaderExit, CloseBegin, Closer, FlushHeld,
       Stop, vars, flushVars

LEMMA StepAnswered ==
  TypeOK /\ Gated /\ Emptied /\ Conserved /\ Settled /\ Caused /\ Answered
    /\ FlushMissesOnlyEvicted /\ [Next]_vars => Answered' /\ FlushMissesOnlyEvicted'
<1> SUFFICES ASSUME TypeOK, Gated, Emptied, Conserved, Settled, Caused, Answered,
                    FlushMissesOnlyEvicted, [Next]_vars
             PROVE  Answered' /\ FlushMissesOnlyEvicted'
  OBVIOUS
<1> USE DEF planVars, queueVars, readerVars, callVars, flushVars
<1>1. CASE UNCHANGED <<flush, owed>>
  <2>1. owed \subseteq Records
    BY DEF TypeOK
  <2>2. Answered'
    BY <1>1, <2>1, Onward DEF Answered
  <2>3. ASSUME flush = "true", NEW r \in owed
        PROVE  \/ fate'[r] # "none" \/ Overflowing(r)'
               \/ r \in Traces /\ \E s \in Spans : TraceOf[s] = r /\ PushedOut(s)'
    <3>1. CASE fate[r] # "none" \/ Overflowing(r)
      BY <2>1, <3>1, Onward
    <3>2. CASE r \in Traces /\ \E s \in Spans : TraceOf[s] = r /\ PushedOut(s)
      BY <3>2, PushedOutForGood DEF SpanPushedOut
    <3> QED
      BY <2>3, <3>1, <3>2 DEF FlushMissesOnlyEvicted
  <2> QED
    BY <1>1, <2>2, <2>3 DEF FlushMissesOnlyEvicted
<1>2. CASE FlushBegin
  BY <1>2 DEF FlushBegin, Answered, FlushMissesOnlyEvicted
<1>3. CASE FlushAnswer
  <2>1. /\ flush = "waiting" /\ UNCHANGED <<owed, call, fate, evicted>>
        /\ flush' = "true" => held = <<>> /\ draining = {}
    BY <1>3 DEF FlushAnswer, Released
  <2>2. Answered'
    BY <2>1 DEF Answered
  <2>3. ASSUME held = <<>>, draining = {}, NEW r \in owed
        PROVE  \/ fate[r] # "none" \/ Overflowing(r)
               \/ r \in Traces /\ SpanPushedOut(r)
    <3>1. r \in Records /\ call[r] = "done" /\ r \notin Elements(held)
      BY <2>1, <2>3, ElementsOfEmpty DEF Answered, TypeOK
    <3>2. ASSUME NEW p \in Drainers, r \in Elements(batch[p])
          PROVE  r \in Traces /\ SpanPushedOut(r)
      <4>1. r \notin Spans
        BY <2>3, <3>2 DEF Settled
      <4>2. r \in Traces /\ r \in Waiting
        BY <3>1, <3>2, <4>1 DEF Records, Waiting
      <4>3. ~SpanHeld(r)
        BY <2>3, ElementsOfEmpty, HeldSpans
      <4> QED
        BY <2>3, <4>2, <4>3 DEF Caused
    <3> QED
      BY <3>1, <3>2, Apart DEF Conserved
  <2>4. /\ \A r : Overflowing(r)' <=> Overflowing(r)
        /\ \A r : PushedOut(r)' <=> PushedOut(r)
    BY <2>1 DEF Overflowing, Carries, PushedOut
  <2> QED
    BY <2>1, <2>2, <2>3, <2>4 DEF FlushMissesOnlyEvicted, SpanPushedOut
<1> QED
  BY <1>1, <1>2, <1>3, FlushSteps

LEMMA InitAnswered == Init => Caused /\ Answered /\ FlushMissesOnlyEvicted
<1> SUFFICES ASSUME Init PROVE Caused /\ Answered /\ FlushMissesOnlyEvicted
  OBVIOUS
<1>1. held = <<>> /\ (\A p \in Drainers : batch[p] = <<>>) /\ flush = "idle"
  BY DEF Init
<1>2. Waiting = {}
  BY <1>1, ElementsOfEmpty DEF Waiting
<1> QED
  BY <1>1, <1>2 DEF Caused, Answered, FlushMissesOnlyEvicted

(* A flush that answers true has missed no record whose call had returned  *)
(* when it began, but for one pushed out of the full queue, and completions*)
(* of traces that had a span pushed out.                                   *)
THEOREM FlushTruthful == Spec => []FlushMissesOnlyEvicted
<1> QED
  BY InitAnswered, StepCaused, StepAnswered, GateHolds, PTL DEF Spec
-----------------------------------------------------------------------------
(* What the callers of the gate count on: a record is not in it before it  *)
(* has been handed over, *)
LEMMA IdleOutside ==
  ASSUME Conserved, NEW r \in Records, call[r] = "idle"
  PROVE  fate[r] = "none"
BY Apart DEF Conserved

(* a call that hands one over takes none out, *)
LEMMA HandOver ==
  ASSUME TypeOK, NEW r \in Records, Hold(r) \/ Pass(r)
  PROVE  /\ call'[r] # "idle"
         /\ \A d \in Records : d # r => call'[d] = call[d]
BY DEF Hold, Pass, TypeOK

(* and every other step takes out one record at most, once for all, and    *)
(* leaves the calls that have returned and what was handed over alone.     *)
LEMMA OneLeaves ==
  ASSUME TypeOK, Conserved,
         \/ \E r \in Records : Deliver(r) \/ Evict(r)
         \/ \E p \in Drainers : Drain(p)
         \/ Refresh \/ Tick \/ Reader \/ CloseBegin \/ Closer
  PROVE  /\ \/ fate' = fate
            \/ \E r \in Records :
                 /\ fate[r] = "none" /\ fate'[r] # "none"
                 /\ \A d \in Records : d # r => fate'[d] = fate[d]
         /\ \A d \in Records :
              /\ call'[d] = "idle" <=> call[d] = "idle"
              /\ call[d] = "done" => call'[d] = "done"
         /\ ahead' = ahead
         /\ closer = "shut" => closer' = "shut"
<1> DEFINE OneOut == \E r \in Records :
                       /\ fate[r] = "none" /\ fate'[r] # "none"
                       /\ \A d \in Records : d # r => fate'[d] = fate[d]
           CallsGoOn == \A d \in Records :
                          /\ call'[d] = "idle" <=> call[d] = "idle"
                          /\ call[d] = "done" => call'[d] = "done"
           RestStays == ahead' = ahead /\ (closer = "shut" => closer' = "shut")
<1> USE DEF planVars, queueVars, readerVars, callVars, flushVars
<1>1. ASSUME NEW r \in Records, Deliver(r)
      PROVE  OneOut /\ CallsGoOn /\ RestStays
  <2>1. fate[r] = "none"
    BY <1>1, Apart DEF Conserved, Deliver
  <2>2. fate'[r] # "none" /\ \A d \in Records : d # r => fate'[d] = fate[d]
    BY <1>1, FormTyped DEF Deliver, TypeOK
  <2>3. CallsGoOn /\ RestStays
    BY <1>1 DEF Deliver, TypeOK
  <2> QED
    BY <2>1, <2>2, <2>3
<1>2. ASSUME NEW r \in Records, Evict(r)
      PROVE  (fate' = fate \/ OneOut) /\ CallsGoOn /\ RestStays
  <2>1. PICK h : h = evicted[r]
    OBVIOUS
  <2>2. fate' = [fate EXCEPT ![h] = FormWithoutPlan(h)]
    BY <1>2, <2>1 DEF Evict
  <2>3. ASSUME h \in Records PROVE OneOut
    <3>1. Overflowing(h)
      BY <1>2, <2>1 DEF Evict, Overflowing, Carries
    <3>2. fate[h] = "none"
      BY <2>3, <3>1, Apart DEF Conserved
    <3>3. fate'[h] # "none" /\ \A d \in Records : d # h => fate'[d] = fate[d]
      BY <2>2, <2>3, FormTyped DEF TypeOK
    <3> QED
      BY <2>3, <3>2, <3>3
  <2>4. h \notin Records => fate' = fate
    BY <2>2 DEF TypeOK
  <2>5. CallsGoOn /\ RestStays
    BY <1>2 DEF Evict, TypeOK
  <2> QED
    BY <2>3, <2>4, <2>5
<1>3. ASSUME NEW p \in Drainers, DrainOne(p)
      PROVE  OneOut /\ CallsGoOn /\ RestStays
  <2>1. PICK h : h = Head(batch[p])
    OBVIOUS
  <2>2. batch[p] \in Seq(Records) /\ batch[p] # <<>> /\ Distinct(batch[p])
    BY <1>3 DEF DrainOne, TypeOK, Conserved
  <2>3. h \in Elements(batch[p]) /\ h \in Records
    BY <2>1, <2>2, ElementsOfTail, ElementsTyped
  <2>4. fate[h] = "none"
    BY <2>3, Apart DEF Conserved
  <2>5. fate' = [fate EXCEPT ![h] = Form(h)]
    BY <1>3, <2>1 DEF DrainOne
  <2>6. fate'[h] # "none" /\ \A d \in Records : d # h => fate'[d] = fate[d]
    BY <2>3, <2>5, FormTyped DEF TypeOK
  <2>7. CallsGoOn /\ RestStays
    BY <1>3 DEF DrainOne
  <2> QED
    BY <2>3, <2>4, <2>6, <2>7
<1>4. CASE \/ \E p \in Drainers : DrainMore(p)
           \/ Refresh \/ Tick \/ Reader \/ CloseBegin \/ Closer
  <2>1. UNCHANGED <<fate, call, ahead>> /\ (closer = "shut" => closer' = "shut")
    BY <1>4 DEF DrainMore, Refresh, Tick, Reader, ReaderBegin, ReaderRead, ReaderLock, ReaderExit,
                CloseBegin, Closer, FlushHeld, Stop
  <2> QED
    BY <2>1
<1> QED
  BY <1>1, <1>2, <1>3, <1>4 DEF Drain
=============================================================================
