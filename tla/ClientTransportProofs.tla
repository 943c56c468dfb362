------------------------ MODULE ClientTransportProofs ------------------------
(***************************************************************************)
(* For any carriers, calls and sizes: the types and the bound of the       *)
(* queue, that a failed export is always told to a caller that does not    *)
(* report success, that a successful close leaves nothing behind, and that *)
(* a flush or close that has the transport to itself answers truthfully.   *)
(***************************************************************************)
EXTENDS ClientTransport, FiniteSetTheorems, TLAPS

(* What is told is told once, before the call answers, and the call that   *)
(* is told does not report success.                                        *)
Told ==
  /\ \A p \in Callers : pc[p] \notin {"stop", "drain", "done"} => told[p] = {}
  /\ \A p \in Callers : told[p] # {} => ~ok[p] /\ answer[p] # "true"
  /\ \A p \in Callers : pc[p] # "done" => answer[p] # "true"
  /\ \A c \in Carriers : fate[c] = "failed" =>
       failedExports > 0 \/ \E p \in Callers : c \in told[p]

(* A result exists only once the processor is stopped, and a stopped       *)
(* processor accepts nothing.                                              *)
Drained ==
  /\ \A p \in Callers : pc[p] = "drain" => stopped
  /\ closeResult # "none" => stopped
  /\ NothingLeftBehind

Bounded == Cardinality(Queued) <= MaxQueue

(* The first Close is the one that closes; a later one only waits. *)
OneCloses ==
  /\ first = None => \A q \in Closers : pc[q] = "idle"
  /\ first # None => pc[first] \notin {"idle", "second"}
  /\ \A q \in Closers : q # first => pc[q] \in {"idle", "second", "done"} /\ told[q] = {}
  /\ \A q \in Flushers : pc[q] \notin {"second", "stop", "drain"}
  /\ closed => first # None /\ pc[first] # "wait"
  /\ stopped => first # None /\ pc[first] \in {"drain", "done"}
  /\ gone => first # None /\ pc[first] = "done"

(* What a call without rivals knows of its carriers, from step to step. *)
Knows(p) ==
  /\ pc[p] = "force" => covered[p] \cap Pending \subseteq due[p]
  /\ pc[p] = "take" /\ ok[p] => covered[p] \cap Pending = {}
  /\ pc[p] \in {"stop", "drain"} /\ ok[p] => Delivered(p)
  /\ answer[p] = "true" => Delivered(p)

Faithful ==
  /\ OneCloses
  /\ \A p \in Callers : \A c \in covered[p] :
       fate[c] \in {"queued", "exporting", "exported", "failed"}
  /\ \A p \in Callers : Rivals(p) = {} => Knows(p)

-----------------------------------------------------------------------------
LEMMA QueuedFinite == ASSUME NEW S \in SUBSET Carriers PROVE IsFiniteSet(S)
  BY FS_Subset, TransportAssumption

(* Carriers that leave the queue leave it within its bound. *)
LEMMA LeaveQueue ==
  ASSUME Bounded, Queued' \subseteq Queued
  PROVE  Bounded'
<1>1. IsFiniteSet(Queued)
  BY QueuedFinite DEF Queued
<1>2. Cardinality(Queued') <= Cardinality(Queued)
  BY <1>1, FS_Subset
<1>3. Cardinality(Queued) \in Nat /\ Cardinality(Queued') \in Nat
  BY <1>1, FS_Subset, FS_CardinalityType
<1> QED
  BY <1>2, <1>3, TransportAssumption DEF Bounded

LEMMA JoinQueue ==
  ASSUME Typed, Bounded, NEW c \in Carriers, Enqueue(c)
  PROVE  Bounded'
<1>1. CASE stopped \/ Cardinality(Queued) >= MaxQueue
  <2>1. Queued' \subseteq Queued
    BY <1>1 DEF Typed, Enqueue, Put, Queued
  <2> QED
    BY <2>1, LeaveQueue
<1>2. CASE ~(stopped \/ Cardinality(Queued) >= MaxQueue)
  <2>1. Queued' = Queued \cup {c} /\ c \notin Queued
    BY <1>2 DEF Typed, Enqueue, Put, Queued
  <2>2. IsFiniteSet(Queued)
    BY QueuedFinite DEF Queued
  <2>3. Cardinality(Queued') = Cardinality(Queued) + 1 /\ Cardinality(Queued) \in Nat
    BY <2>1, <2>2, FS_AddElement, FS_CardinalityType
  <2> QED
    BY <1>2, <2>3, TransportAssumption DEF Bounded
<1> QED
  BY <1>1, <1>2

-----------------------------------------------------------------------------
IInv == Typed /\ Bounded /\ Told /\ Drained

LEMMA InitIInv == Init => IInv
<1> SUFFICES ASSUME Init PROVE IInv
  OBVIOUS
<1>1. Typed
  BY DEF Init, Typed, Outcome
<1>2. Bounded
  <2>1. Queued = {}
    BY DEF Init, Queued
  <2> QED
    BY <2>1, FS_EmptySet, TransportAssumption DEF Bounded
<1>3. Told
  BY DEF Init, Told
<1>4. Drained
  BY DEF Init, Drained, NothingLeftBehind
<1> QED
  BY <1>1, <1>2, <1>3, <1>4 DEF IInv

(* A carrier on its way to the processor. *)
LEMMA SubmitKeeps ==
  ASSUME IInv, NEW c \in Carriers, GetTransport(c) \/ GetTracer(c) \/ Enqueue(c)
  PROVE  IInv'
<1> USE DEF IInv
<1>1. /\ UNCHANGED <<transportVars, exportVars, closeVars, callVars, covered, told>>
      /\ fate[c] \in {"new", "accepted", "tracing"}
      /\ \E f \in {"dropped", "accepted", "tracing", "queued"} :
           /\ fate' = [fate EXCEPT ![c] = f]
           /\ stopped => f # "queued"
  BY DEF GetTransport, GetTracer, Enqueue, Put
<1>2. Typed'
  BY <1>1 DEF Typed, transportVars, exportVars, closeVars, callVars
<1>3. Bounded'
  <2>1. CASE Enqueue(c)
    BY <2>1, JoinQueue
  <2>2. CASE GetTransport(c) \/ GetTracer(c)
    <3>1. Queued' \subseteq Queued
      BY <2>2 DEF GetTransport, GetTracer, Put, Queued, Typed
    <3> QED
      BY <3>1, LeaveQueue
  <2> QED
    BY <2>1, <2>2
<1>4. Told'
  BY <1>1 DEF Told, Typed, exportVars, callVars
<1>5. Drained'
  <2>1. stopped => Pending' \subseteq Pending
    BY <1>1 DEF Pending, Queued, Exporting, Typed
  <2> QED
    BY <1>1, <2>1 DEF Drained, NothingLeftBehind, transportVars, closeVars, callVars
<1> QED
  BY <1>2, <1>3, <1>4, <1>5

LEMMA ExportBeginKeeps ==
  ASSUME IInv, NEW p \in Callers \cup {None}, ExportBegin(p)
  PROVE  IInv'
<1> USE DEF IInv
<1>1. /\ UNCHANGED <<transportVars, failedExports, closeVars, callVars, covered, told>>
      /\ exporter' = p
      /\ \E some \in SUBSET Queued :
           fate' = [c \in Carriers |-> IF c \in some THEN "exporting" ELSE fate[c]]
  BY DEF ExportBegin
<1>2. Typed'
  BY <1>1 DEF Typed, transportVars, closeVars, callVars
<1>3. Queued' \subseteq Queued /\ Pending' \subseteq Pending
  BY <1>1 DEF Queued, Pending, Exporting
<1>4. Bounded'
  BY <1>3, LeaveQueue
<1>5. Told'
  BY <1>1 DEF Told, callVars
<1>6. Drained'
  BY <1>1, <1>3 DEF Drained, NothingLeftBehind, transportVars, closeVars, callVars
<1> QED
  BY <1>2, <1>4, <1>5, <1>6

LEMMA ExportEndKeeps ==
  ASSUME IInv, NEW success \in BOOLEAN, ExportEnd(success)
  PROVE  IInv'
<1> USE DEF IInv
<1>1. /\ UNCHANGED <<transportVars, closeVars, pc, answer, due, covered, told>>
      /\ exporter' = None
      /\ fate' = [c \in Carriers |-> IF c \in Exporting
                     THEN IF success THEN "exported" ELSE "failed" ELSE fate[c]]
      /\ failedExports' = IF success THEN failedExports ELSE failedExports + 1
      /\ ok' = [p \in Callers |-> ok[p] /\ (p = exporter => success \/ pc[p] # "force")]
  BY DEF ExportEnd, Settle, Counted
<1>2. Typed'
  <2>1. ok' \in [Callers -> BOOLEAN]
    BY <1>1 DEF Typed
  <2> QED
    BY <1>1, <2>1 DEF Typed, transportVars, closeVars
<1>3. Queued' \subseteq Queued /\ Pending' \subseteq Pending
  BY <1>1 DEF Queued, Pending, Exporting
<1>4. Bounded'
  BY <1>3, LeaveQueue
<1>5. Told'
  <2>1. \A p \in Callers : told'[p] # {} => ~ok'[p] /\ answer'[p] # "true"
    BY <1>1 DEF Told
  <2>2. \A c \in Carriers : fate'[c] = "failed" =>
          failedExports' > 0 \/ \E p \in Callers : c \in told'[p]
    BY <1>1 DEF Told, Typed
  <2> QED
    BY <1>1, <2>1, <2>2 DEF Told
<1>6. Drained'
  BY <1>1, <1>3 DEF Drained, NothingLeftBehind, transportVars, closeVars
<1> QED
  BY <1>2, <1>4, <1>5, <1>6

-----------------------------------------------------------------------------
(* A step that moves no carrier keeps the bound of the queue. *)
LEMMA StillBounded == ASSUME Bounded, UNCHANGED fate PROVE Bounded'
<1>1. Queued' = Queued
  BY DEF Queued
<1> QED
  BY <1>1 DEF Bounded

(* A call begins, or is the second Close. *)
LEMMA BeginKeeps ==
  ASSUME IInv, NEW p \in Callers, FlushBegin(p) \/ CloseBegin(p) \/ CloseSecond(p)
  PROVE  IInv'
<1> USE DEF IInv
<1>1. UNCHANGED <<fate, transportVars, exportVars, closeResult, ok, due, told>>
  BY DEF FlushBegin, CloseBegin, CloseSecond, closeVars
<1>2. Typed'
  <2>1. covered' \in [Callers -> SUBSET Carriers]
    BY DEF FlushBegin, CloseBegin, CloseSecond, Typed, Pending, Queued, Exporting
  <2>2. first' \in Closers \cup {None} /\ pc' \in [Callers -> {"idle", "wait", "reach", "force",
          "take", "stop", "drain", "second", "done"}]
    BY DEF FlushBegin, CloseBegin, CloseSecond, Typed, Goto, Answer, closeVars
  <2>3. answer' \in [Callers -> Outcome]
    BY DEF FlushBegin, CloseBegin, CloseSecond, Typed, Answer, Outcome
  <2> QED
    BY <1>1, <2>1, <2>2, <2>3 DEF Typed, transportVars, exportVars
<1>3. Bounded'
  BY <1>1, StillBounded
<1>4. Told'
  <2>1. told[p] = {} /\ told' = told /\ ok' = ok /\ failedExports' = failedExports /\ fate' = fate
    BY <1>1 DEF FlushBegin, CloseBegin, CloseSecond, Told, exportVars
  <2>2. \A q \in Callers : q # p => pc'[q] = pc[q] /\ answer'[q] = answer[q]
    BY DEF FlushBegin, CloseBegin, CloseSecond, Goto, Answer, Typed
  <2>3. pc'[p] # "done" => answer'[p] = answer[p] /\ pc[p] # "done"
    BY DEF FlushBegin, CloseBegin, CloseSecond, Goto, Answer, Typed
  <2> QED
    BY <2>1, <2>2, <2>3 DEF Told
<1>5. Drained'
  <2>1. pc'[p] # "drain"
    BY DEF FlushBegin, CloseBegin, CloseSecond, Goto, Answer, Typed
  <2>2. \A q \in Callers : q # p => pc'[q] = pc[q]
    BY DEF FlushBegin, CloseBegin, CloseSecond, Goto, Answer, Typed
  <2> QED
    BY <1>1, <2>1, <2>2 DEF Drained, NothingLeftBehind, Pending, Queued, Exporting, transportVars
<1> QED
  BY <1>2, <1>3, <1>4, <1>5

(* A call releases the gate, reaches the transport or waits for it. *)
LEMMA WaitKeeps ==
  ASSUME IInv, NEW p \in Callers, Release(p) \/ Reach(p) \/ ForceFlush(p)
  PROVE  IInv'
<1> USE DEF IInv
<1>1. /\ UNCHANGED <<fate, stopped, gone, exportVars, closeVars, covered, told>>
      /\ pc[p] \in {"wait", "reach", "force"}
  BY DEF Release, Reach, ForceFlush, transportVars
<1>2. /\ pc' \in [Callers -> {"idle", "wait", "reach", "force", "take", "stop",
                              "drain", "second", "done"}]
      /\ pc'[p] # "drain"
      /\ \A q \in Callers : q # p => pc'[q] = pc[q]
  BY DEF Release, Reach, ForceFlush, Goto, Answer, Typed
<1>3. /\ answer' \in [Callers -> Outcome] /\ ok' \in [Callers -> BOOLEAN]
      /\ \A q \in Callers : q # p => answer'[q] = answer[q] /\ ok'[q] = ok[q]
      /\ pc'[p] # "done" => answer'[p] = answer[p]
  BY DEF Release, Reach, ForceFlush, Goto, Answer, Outcome, Typed
<1>4. Typed'
  <2>1. due' \in [Callers -> SUBSET Carriers]
    BY DEF Release, Reach, ForceFlush, Typed, Pending, Queued, Exporting
  <2>2. closed' \in BOOLEAN /\ shut' \in BOOLEAN
    BY DEF Release, Reach, ForceFlush, Typed, transportVars
  <2> QED
    BY <1>1, <1>2, <1>3, <2>1, <2>2 DEF Typed, exportVars, closeVars
<1>5. Bounded'
  BY <1>1, StillBounded
<1>6. Told'
  <2>1. told[p] = {}
    BY <1>1 DEF Told
  <2> QED
    BY <1>1, <1>2, <1>3, <2>1 DEF Told, exportVars
<1>7. Drained'
  BY <1>1, <1>2 DEF Drained, NothingLeftBehind, Pending, Queued, Exporting, closeVars
<1> QED
  BY <1>4, <1>5, <1>6, <1>7

(* A call takes the count of failed exports. *)
LEMMA TakeKeeps == ASSUME IInv, NEW p \in Callers, Take(p) PROVE IInv'
<1> USE DEF IInv
<1>1. /\ pc[p] = "take" /\ failedExports' = 0
      /\ UNCHANGED <<fate, transportVars, exporter, closeVars, due, covered>>
      /\ ok' = [ok EXCEPT ![p] = ok[p] /\ failedExports = 0]
      /\ told' = [told EXCEPT ![p] =
           {c \in Carriers : fate[c] = "failed"} \ UNION {told[q] : q \in Callers}]
  BY DEF Take, AllTaken, NoneFailed
<1>2. /\ pc' \in [Callers -> {"idle", "wait", "reach", "force", "take", "stop",
                              "drain", "second", "done"}]
      /\ pc'[p] \in {"stop", "done"}
      /\ \A q \in Callers : q # p => pc'[q] = pc[q]
  BY DEF Take, Goto, Answer, Typed
<1>3. /\ answer' \in [Callers -> Outcome]
      /\ \A q \in Callers : q # p => answer'[q] = answer[q]
      /\ answer'[p] = "true" => failedExports = 0 \/ answer[p] = "true"
      /\ pc'[p] # "done" => answer'[p] = answer[p]
  BY DEF Take, Goto, Answer, NoneFailed, Outcome, Typed
<1>4. Typed'
  <2>1. told' \in [Callers -> SUBSET Carriers] /\ ok' \in [Callers -> BOOLEAN]
    BY <1>1 DEF Typed
  <2> QED
    BY <1>1, <1>2, <1>3, <2>1 DEF Typed, transportVars, closeVars
<1>5. Bounded'
  BY <1>1, StillBounded
<1>6. Told'
  <2> DEFINE new == {c \in Carriers : fate[c] = "failed"} \ UNION {told[q] : q \in Callers}
  <2>1. told[p] = {} /\ told'[p] = new /\ \A q \in Callers : q # p => told'[q] = told[q]
    BY <1>1 DEF Told, Typed
  <2>2. new # {} => failedExports > 0
    BY DEF Told
  <2>3. \A q \in Callers : told'[q] # {} => ~ok'[q] /\ answer'[q] # "true"
    <3>1. ASSUME new # {} PROVE ~ok'[p] /\ answer'[p] # "true"
      <4>1. failedExports # 0
        BY <2>2, <3>1 DEF Typed
      <4>2. ~ok'[p]
        BY <1>1, <4>1 DEF Typed
      <4>3. answer'[p] # "true"
        BY <1>1, <1>3, <4>1 DEF Told
      <4> QED
        BY <4>2, <4>3
    <3>2. \A q \in Callers : q # p => ok'[q] = ok[q]
      BY <1>1 DEF Typed
    <3> QED
      BY <1>3, <2>1, <3>1, <3>2 DEF Told
  <2>4. \A c \in Carriers : fate'[c] = "failed" => \E q \in Callers : c \in told'[q]
    <3> SUFFICES ASSUME NEW c \in Carriers, fate[c] = "failed"
                 PROVE  \E q \in Callers : c \in told'[q]
      BY <1>1
    <3>1. c \in new \/ \E q \in Callers : c \in told[q]
      OBVIOUS
    <3> QED
      BY <2>1, <3>1
  <2>5. \A q \in Callers : pc'[q] \notin {"stop", "drain", "done"} => told'[q] = {}
    BY <1>2, <2>1 DEF Told
  <2>6. \A q \in Callers : pc'[q] # "done" => answer'[q] # "true"
    BY <1>1, <1>2, <1>3 DEF Told
  <2> QED
    BY <2>3, <2>4, <2>5, <2>6 DEF Told
<1>7. Drained'
  BY <1>1, <1>2 DEF Drained, NothingLeftBehind, Pending, Queued, Exporting, transportVars, closeVars
<1> QED
  BY <1>4, <1>5, <1>6, <1>7

(* A close stops the processor and has its result. *)
LEMMA StopKeeps == ASSUME IInv, NEW p \in Callers, Stop(p) \/ Finish(p) PROVE IInv'
<1> USE DEF IInv
<1>1. /\ UNCHANGED <<fate, closed, shut, exportVars, first, ok, due, covered, told>>
      /\ pc[p] \in {"stop", "drain"} /\ pc'[p] \in {"drain", "done"}
  BY DEF Stop, Finish, Goto, Answer, closeVars, Typed
<1>2. stopped' /\ gone' \in BOOLEAN
  BY DEF Stop, Finish, Drained, Typed
<1>3. /\ pc' \in [Callers -> {"idle", "wait", "reach", "force", "take", "stop",
                              "drain", "second", "done"}]
      /\ \A q \in Callers : q # p => pc'[q] = pc[q]
  BY DEF Stop, Finish, Goto, Answer, Typed
<1>4. /\ answer' \in [Callers -> Outcome] /\ closeResult' \in Outcome
      /\ \A q \in Callers : q # p => answer'[q] = answer[q]
      /\ answer'[p] = "true" => ok[p] \/ answer[p] = "true"
      /\ pc'[p] # "done" => answer'[p] = answer[p]
  BY DEF Stop, Finish, Goto, Answer, FlushedAndStopped, Outcome, Typed, closeVars
<1>5. Typed'
  BY <1>1, <1>2, <1>3, <1>4 DEF Typed, exportVars
<1>6. Bounded'
  BY <1>1, StillBounded
<1>7. Told'
  BY <1>1, <1>3, <1>4 DEF Told, exportVars
<1>8. Drained'
  <2>1. closeResult' = "true" => closeResult = "true" \/ Pending = {}
    BY DEF Stop, Finish, FlushedAndStopped, closeVars
  <2>2. Pending' = Pending
    BY <1>1 DEF Pending, Queued, Exporting
  <2> QED
    BY <1>2, <2>1, <2>2 DEF Drained, NothingLeftBehind
<1> QED
  BY <1>5, <1>6, <1>7, <1>8

-----------------------------------------------------------------------------
LEMMA NextIInv == IInv /\ [Next]_vars => IInv'
<1> SUFFICES ASSUME IInv, [Next]_vars PROVE IInv'
  OBVIOUS
<1>1. CASE \E c \in Carriers : GetTransport(c) \/ GetTracer(c) \/ Enqueue(c)
  BY <1>1, SubmitKeeps
<1>2. CASE \E p \in Callers \cup {None} : ExportBegin(p)
  BY <1>2, ExportBeginKeeps
<1>3. CASE \E success \in BOOLEAN : ExportEnd(success)
  BY <1>3, ExportEndKeeps
<1>4. ASSUME NEW p \in Callers, FlushBegin(p) \/ CloseBegin(p) \/ CloseSecond(p) PROVE IInv'
  BY <1>4, BeginKeeps
<1>5. ASSUME NEW p \in Callers, Release(p) \/ Reach(p) \/ ForceFlush(p) PROVE IInv'
  BY <1>5, WaitKeeps
<1>6. ASSUME NEW p \in Callers, Take(p) PROVE IInv'
  BY <1>6, TakeKeeps
<1>7. ASSUME NEW p \in Callers, Stop(p) \/ Finish(p) PROVE IInv'
  BY <1>7, StopKeeps
<1>8. CASE UNCHANGED vars
  <2>1. Bounded'
    BY <1>8, StillBounded DEF IInv, vars
  <2> QED
    BY <1>8, <2>1 DEF IInv, vars, transportVars, exportVars, closeVars, callVars, Typed, Told,
      Drained, NothingLeftBehind, Pending, Queued, Exporting
<1> QED
  BY <1>1, <1>2, <1>3, <1>4, <1>5, <1>6, <1>7, <1>8 DEF Next

LEMMA Invariance == Spec => []IInv
<1> QED
  BY InitIInv, NextIInv, PTL DEF Spec

(* The variables keep their types and the queue never exceeds its size,    *)
(* whatever is submitted while calls come and go (otel.go, the options of  *)
(* newOtelTransport's batch processor).                                    *)
THEOREM TypeCorrect == Spec => []TypeOK
<1>1. IInv => TypeOK
  BY DEF IInv, TypeOK, Bounded
<1> QED
  BY <1>1, Invariance, PTL

(* A failed export is still counted or was told to a call that does not    *)
(* report success, for any number of concurrent calls of FlushTraces and   *)
(* Close (otel.go takeFailedExports, flush, shutdown).                     *)
THEOREM FailuresAreTold == Spec => []FailureTold
<1>1. IInv => FailureTold
  BY DEF IInv, Told, FailureTold
<1> QED
  BY <1>1, Invariance, PTL

(* A Close that reports success leaves nothing in the queue or in flight,  *)
(* and nothing comes in later (otel.go shutdown).                          *)
THEOREM ClosedIsEmpty == Spec => []NothingLeftBehind
<1>1. IInv => NothingLeftBehind
  BY DEF IInv, Drained
<1> QED
  BY <1>1, Invariance, PTL
-----------------------------------------------------------------------------
(* What a call without rivals can count on.                                *)
LEMMA Alone ==
  ASSUME IInv, OneCloses, NEW p \in Callers, Rivals(p) = {}, pc[p] # "idle"
  PROVE  /\ \A q \in Callers : q # p => pc[q] \in {"idle", "second", "done"} /\ told[q] = {}
         /\ pc[p] # "second"
         /\ p \in Flushers => ~closed
         /\ pc[p] \notin {"drain", "done"} => ~stopped /\ ~gone
<1>1. first # None => first \in Callers /\ first \in Closers /\ pc[first] # "idle"
  BY DEF IInv, Typed, OneCloses, Callers
<1>2. first = p \/ first = None
  BY <1>1 DEF Rivals
<1>3. \A q \in Callers : q # p /\ q \in Flushers => pc[q] = "idle"
  BY TransportAssumption DEF Rivals
<1>4. \A q \in Callers : q # p => pc[q] \in {"idle", "second", "done"} /\ told[q] = {}
  <2>1. \A q \in Callers : pc[q] = "idle" => told[q] = {}
    BY DEF IInv, Told
  <2> QED
    BY <1>2, <1>3, <2>1 DEF OneCloses, Callers
<1>5. CASE first = p
  BY <1>1, <1>4, <1>5, TransportAssumption DEF OneCloses
<1>6. CASE first = None
  <2>1. p \in Flushers
    BY <1>6 DEF OneCloses, Callers
  <2> QED
    BY <1>4, <1>6, <2>1 DEF OneCloses
<1> QED
  BY <1>2, <1>5, <1>6

(* Steps of the queue and its exports leave the calls where they are. *)
LEMMA QueueOneCloses ==
  ASSUME OneCloses, UNCHANGED <<transportVars, first, pc, told>>
  PROVE  OneCloses'
  BY DEF OneCloses, transportVars

LEMMA BeginOneCloses ==
  ASSUME IInv, OneCloses, NEW p \in Callers, FlushBegin(p) \/ CloseBegin(p) \/ CloseSecond(p)
  PROVE  OneCloses'
<1>1. /\ UNCHANGED <<closed, stopped, gone, told>>
      /\ \A q \in Callers : q # p => pc'[q] = pc[q]
      /\ first \in Closers \cup {None} /\ None \notin Callers
      /\ first # None => first \in Callers
      /\ told[p] = {} \/ pc[p] \in {"second"}
  BY TransportAssumption
  DEF FlushBegin, CloseBegin, CloseSecond, Goto, Answer, IInv, Typed, Told, transportVars, Callers
<1>2. CASE FlushBegin(p)
  <2>1. p \in Flushers /\ pc[p] = "idle" /\ pc'[p] = "wait" /\ first' = first
    BY <1>2 DEF FlushBegin, Goto, IInv, Typed, closeVars
  <2>2. p \notin Closers
    BY <2>1, TransportAssumption
  <2> QED
    BY <1>1, <2>1, <2>2 DEF OneCloses, Callers
<1>3. CASE CloseBegin(p)
  <2>1. p \in Closers /\ pc[p] = "idle" /\ told[p] = {} /\ p \notin Flushers
    BY <1>1, <1>3, TransportAssumption DEF CloseBegin
  <2>2. CASE first = None
    <3>1. first' = p /\ pc'[p] = "wait"
      BY <1>3, <2>2 DEF CloseBegin, Goto, IInv, Typed
    <3>2. \A q \in Closers : q # p => pc'[q] = "idle" /\ told[q] = {}
      BY <1>1, <2>2 DEF OneCloses, Callers
    <3>3. ~closed /\ ~stopped /\ ~gone
      BY <2>2 DEF OneCloses
    <3> QED
      BY <1>1, <2>1, <3>1, <3>2, <3>3 DEF OneCloses, Callers
  <2>3. CASE first # None
    <3>1. first' = first /\ pc'[p] = "second" /\ p # first
      BY <1>3, <2>1, <2>3 DEF CloseBegin, Goto, IInv, Typed, OneCloses
    <3> QED
      BY <1>1, <2>1, <2>3, <3>1 DEF OneCloses, Callers
  <2> QED
    BY <2>2, <2>3
<1>4. CASE CloseSecond(p)
  <2>1. pc[p] = "second" /\ pc'[p] = "done" /\ first' = first
    BY <1>4 DEF CloseSecond, Answer, Goto, IInv, Typed, closeVars
  <2>2. p \in Closers /\ p # first /\ p \notin Flushers
    BY <2>1, TransportAssumption DEF OneCloses, Callers
  <2> QED
    BY <1>1, <2>1, <2>2 DEF OneCloses, Callers
<1> QED
  BY <1>2, <1>3, <1>4

LEMMA CallOneCloses ==
  ASSUME IInv, OneCloses, NEW p \in Callers,
         Release(p) \/ Reach(p) \/ ForceFlush(p) \/ Take(p) \/ Stop(p) \/ Finish(p)
  PROVE  OneCloses'
<1>1. /\ pc[p] \in {"wait", "reach", "force", "take", "stop", "drain"}
      /\ first' = first
      /\ \A q \in Callers : q # p => pc'[q] = pc[q] /\ told'[q] = told[q]
      /\ pc'[p] \in {"reach", "force", "take", "stop", "drain", "done"}
  BY DEF Release, Reach, ForceFlush, Take, Stop, Finish, Goto, Answer, IInv, Typed, closeVars
<1>2. p \in Closers => p = first
  BY <1>1 DEF OneCloses
<1>3. p \in Flushers => pc'[p] \notin {"stop", "drain"}
  <2>1. p \in Flushers => pc[p] \notin {"stop", "drain"} /\ p \notin Closers
    BY TransportAssumption DEF OneCloses
  <2> QED
    BY <2>1 DEF Release, Reach, ForceFlush, Take, Stop, Finish, Goto, Answer, IInv, Typed
<1>4. closed' => first # None /\ pc'[first] # "wait"
  <2>1. closed' => closed \/ (p \in Closers)
    BY DEF Release, Reach, ForceFlush, Take, Stop, Finish, transportVars
  <2> QED
    BY <1>1, <1>2, <2>1, TransportAssumption DEF OneCloses, IInv, Typed, Callers
<1>5. stopped' => first # None /\ pc'[first] \in {"drain", "done"}
  <2>1. CASE Stop(p)
    <3>1. p \in Closers /\ pc'[p] = "drain"
      BY <2>1 DEF Stop, Goto, IInv, Typed, OneCloses, Callers
    <3> QED
      BY <1>2, <3>1, TransportAssumption DEF Callers
  <2>2. CASE Finish(p)
    <3>1. p \in Closers /\ pc'[p] = "done"
      BY <2>2 DEF Finish, Answer, Goto, IInv, Typed, OneCloses, Callers
    <3> QED
      BY <1>2, <3>1, TransportAssumption DEF Callers
  <2>3. CASE Release(p) \/ Reach(p) \/ ForceFlush(p) \/ Take(p)
    <3>1. stopped' = stopped /\ pc[p] \notin {"drain", "done"}
      BY <2>3 DEF Release, Reach, ForceFlush, Take, transportVars
    <3> QED
      BY <1>1, <3>1 DEF OneCloses, IInv, Typed, Callers
  <2> QED
    BY <2>1, <2>2, <2>3
<1>6. gone' => first # None /\ pc'[first] = "done"
  <2>1. CASE Finish(p)
    <3>1. p \in Closers /\ pc'[p] = "done"
      BY <2>1 DEF Finish, Answer, Goto, IInv, Typed, OneCloses, Callers
    <3> QED
      BY <1>2, <3>1, TransportAssumption DEF Callers
  <2>2. CASE ~Finish(p)
    <3>1. gone' = gone
      BY <2>2 DEF Release, Reach, ForceFlush, Take, Stop, transportVars
    <3> QED
      BY <1>1, <3>1 DEF OneCloses, IInv, Typed, Callers
  <2> QED
    BY <2>1, <2>2
<1>7. first # None => pc'[first] \notin {"idle", "second"}
  BY <1>1 DEF OneCloses, IInv, Typed, Callers
<1>8. \A q \in Closers : q # first => pc'[q] \in {"idle", "second", "done"} /\ told'[q] = {}
  BY <1>1, <1>2 DEF OneCloses, Callers
<1>9. \A q \in Flushers : pc'[q] \notin {"second", "stop", "drain"}
  BY <1>1, <1>3 DEF OneCloses, Callers
<1>10. first = None => \A q \in Closers : pc'[q] = "idle"
  BY <1>1, <1>2, TransportAssumption DEF OneCloses, Callers
<1> QED
  BY <1>1, <1>4, <1>5, <1>6, <1>7, <1>8, <1>9, <1>10 DEF OneCloses

(* A rival remains one. *)
LEMMA RivalsGrow ==
  ASSUME IInv, OneCloses, NEW p \in Callers,
         first # None => first' = first,
         \A q \in Callers : pc[q] # "idle" => pc'[q] # "idle"
  PROVE  Rivals(p) \subseteq Rivals(p)'
<1> SUFFICES ASSUME NEW q \in Rivals(p) PROVE q \in Rivals(p)'
  OBVIOUS
<1>1. q \in Callers \ {p} /\ pc[q] # "idle" /\ (q \in Closers => q = first)
  BY DEF Rivals
<1>2. q \in Closers => q = first'
  BY <1>1 DEF OneCloses
<1> QED
  BY <1>1, <1>2 DEF Rivals

-----------------------------------------------------------------------------
Tracked == \A p \in Callers : \A c \in covered[p] :
             fate[c] \in {"queued", "exporting", "exported", "failed"}

(* A carrier moves that no call waits for, or one that is pending settles. *)
LEMMA CarrierKeepsKnowledge ==
  ASSUME Typed, Tracked, NEW p \in Callers, Knows(p),
         UNCHANGED <<pc, due, covered, answer>>,
         ok'[p] => ok[p],
         \A c \in covered[p] : fate'[c] \in {"queued", "exporting"} =>
           fate[c] \in {"queued", "exporting"},
         \A c \in Carriers : fate[c] = "exported" => fate'[c] = "exported"
  PROVE  Knows(p)'
<1>1. covered[p] \cap Pending' \subseteq covered[p] \cap Pending
  BY DEF Pending, Queued, Exporting
<1>2. Delivered(p) => Delivered(p)'
  BY DEF Delivered, Typed
<1> QED
  BY <1>1, <1>2 DEF Knows

LEMMA SubmitKnows ==
  ASSUME IInv, Faithful, NEW c \in Carriers, GetTransport(c) \/ GetTracer(c) \/ Enqueue(c)
  PROVE  Faithful'
<1>1. /\ UNCHANGED <<transportVars, closeVars, callVars, covered, told>>
      /\ fate[c] \in {"new", "accepted", "tracing"}
      /\ \A d \in Carriers : d # c => fate'[d] = fate[d]
  BY DEF GetTransport, GetTracer, Enqueue, Put, IInv, Typed
<1>2. \A p \in Callers : c \notin covered[p] /\ covered[p] \subseteq Carriers
  BY <1>1 DEF Faithful, IInv, Typed
<1>3. OneCloses'
  BY <1>1, QueueOneCloses DEF Faithful, closeVars, callVars
<1>4. Tracked'
  BY <1>1, <1>2 DEF Faithful, Tracked
<1>5. ASSUME NEW p \in Callers, Rivals(p)' = {} PROVE Knows(p)'
  <2>1. Rivals(p) = {}
    BY <1>1, <1>5 DEF Rivals, closeVars, callVars
  <2>2. /\ \A d \in covered[p] : fate'[d] = fate[d]
        /\ \A d \in Carriers : fate[d] = "exported" => fate'[d] = "exported"
    BY <1>1, <1>2
  <2> QED
    BY <1>1, <2>1, <2>2, CarrierKeepsKnowledge DEF Faithful, Tracked, IInv, callVars
<1> QED
  BY <1>3, <1>4, <1>5 DEF Faithful, Tracked

LEMMA ExportKnows ==
  ASSUME IInv, Faithful,
         \/ \E q \in Callers \cup {None} : ExportBegin(q)
         \/ \E success \in BOOLEAN : ExportEnd(success)
  PROVE  Faithful'
<1>1. /\ UNCHANGED <<transportVars, closeVars, pc, due, answer, covered, told>>
      /\ \A p \in Callers : ok'[p] => ok[p]
  BY DEF ExportBegin, ExportEnd, callVars
<1>2. /\ \A c \in Carriers : fate[c] \in {"queued", "exporting"} =>
           fate'[c] \in {"queued", "exporting", "exported", "failed"}
      /\ \A c \in Carriers : fate[c] \notin {"queued", "exporting"} => fate'[c] = fate[c]
  BY DEF ExportBegin, ExportEnd, Settle, Queued, Exporting
<1>3. OneCloses'
  BY <1>1, QueueOneCloses DEF Faithful, closeVars
<1>4. \A p \in Callers : covered[p] \subseteq Carriers
  BY DEF IInv, Typed
<1>5. Tracked'
  BY <1>1, <1>2, <1>4 DEF Faithful, Tracked
<1>6. ASSUME NEW p \in Callers, Rivals(p)' = {} PROVE Knows(p)'
  <2>1. Rivals(p) = {}
    BY <1>1, <1>6 DEF Rivals, closeVars
  <2>2. /\ \A c \in covered[p] : fate'[c] \in {"queued", "exporting"} =>
             fate[c] \in {"queued", "exporting"}
        /\ \A c \in Carriers : fate[c] = "exported" => fate'[c] = "exported"
    BY <1>2, <1>4
  <2> QED
    BY <1>1, <2>1, <2>2, CarrierKeepsKnowledge DEF Faithful, Tracked, IInv
<1> QED
  BY <1>3, <1>5, <1>6 DEF Faithful, Tracked

(* What another call does tells this one nothing. *)
LEMMA OthersKeepKnowledge ==
  ASSUME NEW p \in Callers, Knows(p), fate' = fate,
         pc'[p] = pc[p], ok'[p] = ok[p], answer'[p] = answer[p], due'[p] = due[p],
         covered'[p] = covered[p]
  PROVE  Knows(p)'
<1>1. Pending' = Pending
  BY DEF Pending, Queued, Exporting
<1>2. Delivered(p)' = Delivered(p)
  BY DEF Delivered
<1> QED
  BY <1>1, <1>2 DEF Knows

LEMMA BeginKnows ==
  ASSUME IInv, Faithful, NEW q \in Callers, FlushBegin(q) \/ CloseBegin(q) \/ CloseSecond(q)
  PROVE  Faithful'
<1>1. /\ UNCHANGED <<fate, ok, due>>
      /\ first # None => first' = first
      /\ \A p \in Callers : p # q => /\ pc'[p] = pc[p] /\ answer'[p] = answer[p]
                                     /\ covered'[p] = covered[p]
      /\ \A p \in Callers : pc[p] # "idle" => pc'[p] # "idle"
  BY DEF FlushBegin, CloseBegin, CloseSecond, Goto, Answer, IInv, Typed, closeVars
<1>2. OneCloses'
  BY BeginOneCloses DEF Faithful
<1>3. covered'[q] = Pending \/ covered'[q] = covered[q]
  BY DEF FlushBegin, CloseBegin, CloseSecond, IInv, Typed
<1>4. Tracked'
  <2>1. \A c \in Pending : fate[c] \in {"queued", "exporting"}
    BY DEF Pending, Queued, Exporting
  <2> QED
    BY <1>1, <1>3, <2>1 DEF Faithful, Tracked
<1>5. ASSUME NEW p \in Callers, Rivals(p)' = {} PROVE Knows(p)'
  <2>1. Rivals(p) = {} /\ Knows(p)
    BY <1>1, <1>5, RivalsGrow DEF Faithful
  <2>2. CASE p # q
    BY <1>1, <2>1, <2>2, OthersKeepKnowledge
  <2>3. CASE p = q
    <3>1. pc[p] # "second"
      BY <2>1, Alone DEF Faithful
    <3>2. ~CloseSecond(p)
      BY <3>1 DEF CloseSecond
    <3>3. pc[p] = "idle" /\ pc'[p] \in {"wait", "second"} /\ answer'[p] = answer[p]
      BY <2>3, <3>2 DEF FlushBegin, CloseBegin, Goto, IInv, Typed
    <3>4. answer[p] # "true"
      BY <3>3 DEF IInv, Told
    <3> QED
      BY <3>3, <3>4 DEF Knows
  <2> QED
    BY <2>2, <2>3
<1> QED
  BY <1>2, <1>4, <1>5 DEF Faithful, Tracked

(* The call itself: it comes to the provider, waits for it, *)
LEMMA WaitLearns ==
  ASSUME IInv, Faithful, NEW p \in Callers, Rivals(p) = {},
         Release(p) \/ Reach(p) \/ ForceFlush(p)
  PROVE  Knows(p)'
<1>1. pc[p] \in {"wait", "reach", "force"} /\ UNCHANGED <<fate, covered>> /\ answer[p] # "true"
  BY DEF Release, Reach, ForceFlush, IInv, Told
<1>2. (p \in Flushers => ~closed) /\ ~stopped /\ ~gone
  BY <1>1, Alone DEF Faithful
<1>3. Pending' = Pending
  BY <1>1 DEF Pending, Queued, Exporting
<1>4. CASE Release(p)
  <2>1. pc'[p] = "reach" /\ answer' = answer
    BY <1>2, <1>4 DEF Release, Goto, IInv, Typed
  <2> QED
    BY <1>1, <2>1 DEF Knows
<1>5. CASE Reach(p)
  <2>1. pc'[p] = "force" /\ answer' = answer /\ due'[p] = Pending
    BY <1>2, <1>5 DEF Reach, Goto, IInv, Typed
  <2> QED
    BY <1>1, <1>3, <2>1 DEF Knows
<1>6. CASE ForceFlush(p)
  <2>1. pc'[p] = "take" /\ answer' = answer /\ pc[p] = "force"
    BY <1>6 DEF ForceFlush, Goto, IInv, Typed
  <2>2. ok'[p] => Flushed(p)
    BY <1>2, <1>6 DEF ForceFlush, IInv, Typed
  <2>3. Flushed(p) => covered[p] \cap Pending = {}
    BY <2>1 DEF Faithful, Knows, Flushed
  <2> QED
    BY <1>1, <1>3, <2>1, <2>2, <2>3 DEF Knows
<1> QED
  BY <1>4, <1>5, <1>6

(* looks at the failures, *)
LEMMA TakeLearns ==
  ASSUME IInv, Faithful, NEW p \in Callers, Rivals(p) = {}, Take(p)
  PROVE  Knows(p)'
<1>1. /\ pc[p] = "take" /\ UNCHANGED <<fate, covered>> /\ answer[p] # "true"
      /\ ok'[p] = NoneFailed(p)
  BY DEF Take, IInv, Told, Typed
<1>2. \A q \in Callers : told[q] = {}
  <2>1. told[p] = {}
    BY <1>1 DEF IInv, Told
  <2> QED
    BY <1>1, <2>1, Alone DEF Faithful
<1>3. NoneFailed(p) => Delivered(p)
  <2> SUFFICES ASSUME NoneFailed(p), NEW c \in covered[p] PROVE fate[c] = "exported"
    BY DEF Delivered
  <2>1. c \in Carriers /\ fate[c] \in {"queued", "exporting", "exported", "failed"}
    BY DEF IInv, Typed, Faithful
  <2>2. covered[p] \cap Pending = {}
    BY <1>1 DEF NoneFailed, Faithful, Knows
  <2>3. fate[c] \notin {"queued", "exporting"}
    BY <2>1, <2>2 DEF Pending, Queued, Exporting
  <2>4. fate[c] # "failed"
    BY <1>2, <2>1 DEF NoneFailed, IInv, Told, Typed
  <2> QED
    BY <2>1, <2>3, <2>4
<1>4. pc'[p] \in {"stop", "done"} /\ (answer'[p] = "true" => NoneFailed(p))
  BY <1>1 DEF Take, Goto, Answer, IInv, Typed
<1>5. Delivered(p)' = Delivered(p)
  BY <1>1 DEF Delivered
<1> QED
  BY <1>1, <1>3, <1>4, <1>5 DEF Knows

(* and closes the transport. *)
LEMMA StopLearns ==
  ASSUME IInv, Faithful, NEW p \in Callers, Rivals(p) = {}, Stop(p) \/ Finish(p)
  PROVE  Knows(p)'
<1>1. /\ pc[p] \in {"stop", "drain"} /\ UNCHANGED <<fate, covered, ok>> /\ answer[p] # "true"
      /\ pc'[p] \in {"drain", "done"}
  BY DEF Stop, Finish, Goto, Answer, IInv, Told, Typed
<1>2. answer'[p] = "true" => ok[p]
  BY <1>1 DEF Stop, Finish, Answer, FlushedAndStopped, IInv, Typed
<1>3. Delivered(p)' = Delivered(p)
  BY <1>1 DEF Delivered
<1> QED
  BY <1>1, <1>2, <1>3 DEF Faithful, Knows

LEMMA CallKnows ==
  ASSUME IInv, Faithful, NEW q \in Callers,
         Release(q) \/ Reach(q) \/ ForceFlush(q) \/ Take(q) \/ Stop(q) \/ Finish(q)
  PROVE  Faithful'
<1>1. /\ UNCHANGED <<fate, covered>> /\ first' = first
      /\ \A p \in Callers : p # q =>
           pc'[p] = pc[p] /\ answer'[p] = answer[p] /\ ok'[p] = ok[p] /\ due'[p] = due[p]
      /\ \A p \in Callers : pc[p] # "idle" => pc'[p] # "idle"
  BY DEF Release, Reach, ForceFlush, Take, Stop, Finish, Goto, Answer, IInv, Typed, closeVars
<1>2. OneCloses'
  BY CallOneCloses DEF Faithful
<1>3. Tracked'
  BY <1>1 DEF Faithful, Tracked
<1>4. ASSUME NEW p \in Callers, Rivals(p)' = {} PROVE Knows(p)'
  <2>1. Rivals(p) = {} /\ Knows(p)
    BY <1>1, <1>4, RivalsGrow DEF Faithful
  <2>2. CASE p # q
    BY <1>1, <2>1, <2>2, OthersKeepKnowledge
  <2>3. CASE p = q
    BY <2>1, <2>3, WaitLearns, TakeLearns, StopLearns
  <2> QED
    BY <2>2, <2>3
<1> QED
  BY <1>2, <1>3, <1>4 DEF Faithful, Tracked

LEMMA NextFaithful == IInv /\ Faithful /\ [Next]_vars => Faithful'
<1> SUFFICES ASSUME IInv, Faithful, [Next]_vars PROVE Faithful'
  OBVIOUS
<1>1. CASE \E c \in Carriers : GetTransport(c) \/ GetTracer(c) \/ Enqueue(c)
  BY <1>1, SubmitKnows
<1>2. CASE (\E p \in Callers \cup {None} : ExportBegin(p))
           \/ (\E success \in BOOLEAN : ExportEnd(success))
  BY <1>2, ExportKnows
<1>3. ASSUME NEW p \in Callers, FlushBegin(p) \/ CloseBegin(p) \/ CloseSecond(p) PROVE Faithful'
  BY <1>3, BeginKnows
<1>4. ASSUME NEW p \in Callers,
             Release(p) \/ Reach(p) \/ ForceFlush(p) \/ Take(p) \/ Stop(p) \/ Finish(p)
      PROVE  Faithful'
  BY <1>4, CallKnows
<1>5. CASE UNCHANGED vars
  <2>1. OneCloses'
    BY <1>5, QueueOneCloses DEF Faithful, vars, closeVars, callVars
  <2>2. \A p \in Callers : Rivals(p)' = Rivals(p) /\ (Knows(p) => Knows(p)')
    BY <1>5, OthersKeepKnowledge DEF vars, closeVars, callVars, Rivals
  <2> QED
    BY <1>5, <2>1, <2>2 DEF Faithful, vars
<1> QED
  BY <1>1, <1>2, <1>3, <1>4, <1>5 DEF Next

LEMMA InitFaithful == Init => Faithful
<1> SUFFICES ASSUME Init PROVE Faithful
  OBVIOUS
<1>1. OneCloses
  BY DEF Init, OneCloses, Callers
<1>2. \A p \in Callers : covered[p] = {} /\ Knows(p)
  BY DEF Init, Knows
<1> QED
  BY <1>1, <1>2 DEF Faithful

(* A FlushTraces or a first Close that answers true while no other call    *)
(* shares the transport has delivered every carrier queued when it began,  *)
(* for any number of carriers submitted meanwhile and of later calls of    *)
(* Close (bitfab.go FlushTraces, otel.go flush and takeFailedExports).     *)
THEOREM AloneIsTruthful == Spec => []TruthfulAlone
<1>1. Faithful => TruthfulAlone
  BY DEF Faithful, Knows, TruthfulAlone
<1>2. Spec => [](IInv /\ Faithful)
  <2>1. Init => IInv /\ Faithful
    BY InitIInv, InitFaithful
  <2>2. (IInv /\ Faithful) /\ [Next]_vars => (IInv /\ Faithful)'
    BY NextIInv, NextFaithful
  <2> QED
    BY <2>1, <2>2, PTL DEF Spec
<1> QED
  BY <1>1, <1>2, PTL
=============================================================================
