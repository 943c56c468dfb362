------------------------ MODULE TraceLifecycleProofs ------------------------
(***************************************************************************)
(* For any spans, traces and finalizers: the completion a root owes is in  *)
(* one place until it is handed over, after the finalizers it has to wait  *)
(* for and with the drop its trace was asked for, and whoever waits for    *)
(* the finalizers waits for all of them.                                   *)
(*                                                                         *)
(* The argument: while a root's completion has not been handed over its    *)
(* trace keeps one state, every finalizer of the trace counts in it, and   *)
(* the completion can be left with no other.                               *)
(***************************************************************************)
EXTENDS TraceLifecycle, FiniteSetTheorems, TLAPS

Labels == {"new", "open", "finalizing", "sending", "uploading", "checking",
           "handing", "telling", "deleting", "ending", "done", "leaving", "ended"}
Early == {"new", "open", "finalizing", "sending", "uploading"}
Delivering == {"checking", "handing", "telling", "deleting"}

Typed ==
  /\ made \in Nat /\ made <= MaxStates /\ state \in [Traces -> 0 .. made]
  /\ dropped \in [States -> BOOLEAN] /\ pendingFinalizers \in [States -> Nat]
  /\ completion \in [States -> Roots \cup {None}]
  /\ autoPending \in Nat /\ autoChan \in Nat /\ autoClosed \subseteq 1 .. autoChan
  /\ pc \in [Spans -> Labels] /\ back \in [Spans -> {"ending", "leaving"}]
  /\ async \subseteq Spans /\ ref \in [Spans -> 0 .. made]
  /\ job \in [Spans -> Roots \cup {None}] /\ snapshot \in [Spans -> 0 .. made]
  /\ sent \in [Roots -> {0, 1}] /\ dropAsked \subseteq Traces
  /\ before \in [Roots -> SUBSET async]
  /\ waitChan \in 0 .. autoChan /\ waitedFor \subseteq async

(* A finalizer counts until it is done, and then leaves the client. *)
Placed ==
  /\ \A s \in async : pc[s] \notin {"new", "open"}
  /\ \A s \in async : back[s] = "ending" => pc[s] \notin {"leaving", "ended"}
  /\ \A s \in Spans \ async : back[s] = "ending" /\ pc[s] \notin {"finalizing", "done", "leaving"}
  /\ \A s \in Spans : back[s] = "leaving" => pc[s] \in Delivering \cup {"leaving", "ended"}

(* What a goroutine delivers is the completion of its own trace. *)
Jobs ==
  /\ \A s \in Spans : pc[s] \in Delivering => job[s] \in Roots /\ TraceOf[job[s]] = TraceOf[s]
  /\ \A s \in Spans : pc[s] \notin Delivering => job[s] = None

(* Nothing is known of a trace before its root has begun. *)
Begun(t) == \E r \in Roots : TraceOf[r] = t /\ pc[r] # "new"

Known ==
  /\ \A s \in Spans : pc[s] # "new" => Begun(TraceOf[s])
  /\ \A t \in Traces : state[t] # Absent \/ t \in dropAsked => Begun(t)

(* States are not shared, and a finalizer counts in one of its own trace. *)
Owned ==
  /\ \A t, u \in Traces : state[t] = state[u] /\ state[t] # Absent => t = u
  /\ \A s \in Spans, t \in Traces : ref[s] = state[t] /\ ref[s] # Absent => TraceOf[s] = t

(* The state of a trace whose completion is still owed. *)
Current ==
  \A r \in Roots : pc[r] # "new" /\ sent[r] = 0 =>
    /\ state[TraceOf[r]] # Absent
    /\ \A s \in async : TraceOf[s] = TraceOf[r] => ref[s] = state[TraceOf[r]]
    /\ TraceOf[r] \in dropAsked => dropped[state[TraceOf[r]]] = TRUE

Pending(i) == {s \in async : ref[s] = i /\ back[s] = "ending"}
Running == {s \in async : pc[s] # "ended"}

Counted ==
  /\ \A i \in States : pendingFinalizers[i] = Cardinality(Pending(i))
  /\ autoPending = Cardinality(Running)

Carries(s, r) == job[s] = r /\ pc[s] \in {"checking", "handing", "telling"}

(* Where a completion is. *)
OneStation ==
  \A r \in Roots :
    /\ \A s, u \in Spans : Carries(s, r) /\ Carries(u, r) => s = u
    /\ \A i \in States : completion[i] = r =>
         /\ \A s \in Spans : ~Carries(s, r)
         /\ state[TraceOf[r]] = i /\ pendingFinalizers[i] > 0
         /\ sent[r] = 0 /\ pc[r] \notin Early
    /\ \A s \in Spans : Carries(s, r) => sent[r] = 0 /\ pc[r] \notin Early
    /\ pc[r] \in Early => sent[r] = 0
    /\ pc[r] \notin Early /\ sent[r] = 0 =>
         \/ \E s \in Spans : Carries(s, r)
         \/ \E i \in States : completion[i] = r
    /\ \A s \in Spans : job[s] = r /\ pc[s] = "deleting" => sent[r] = 1

(* What a goroutine that hands a completion over knows of its trace. *)
Ready ==
  /\ \A r \in Roots : \A c \in before[r] : TraceOf[c] = TraceOf[r]
  /\ \A s \in Spans : pc[s] \in {"handing", "telling"} =>
       snapshot[s] = state[TraceOf[s]] /\ \A c \in before[job[s]] : back[c] = "leaving"

(* A channel is closed, and a new one made, when nothing is pending.       *)
Gone == \A s \in waitedFor : pc[s] = "ended"
Waits ==
  /\ autoChan \in autoClosed => autoPending = 0
  /\ autoPending # 0 => autoChan # 0
  /\ waiter = "waiting" => waitChan = autoChan \/ Gone
  /\ waiter = "settled" => Gone

IInv ==
  Typed /\ Placed /\ Jobs /\ Known /\ Owned /\ Current /\ Counted /\ OneStation /\ Ready /\ Waits

-----------------------------------------------------------------------------
LEMMA Sets ==
  ASSUME Typed
  PROVE  \A S \in SUBSET async : /\ IsFiniteSet(S) /\ Cardinality(S) \in Nat
                                 /\ Cardinality(S) = 0 <=> S = {}
<1>1. \A S \in SUBSET async : S \in SUBSET Spans
  BY DEF Typed
<1> QED
  BY <1>1, FS_Subset, FS_CardinalityType, FS_EmptySet, LifecycleAssumption

LEMMA Places ==
  /\ Roots \subseteq Spans
  /\ \A s \in Spans : TraceOf[s] \in Traces
  /\ \A q, r \in Roots : TraceOf[q] = TraceOf[r] => q = r
  /\ None \notin Roots /\ MaxStates \in Nat
  BY LifecycleAssumption

LEMMA NoneRunning ==
  ASSUME IInv, autoPending = 0
  PROVE  Running = {} /\ Gone
<1>1. Running = {}
  BY Sets DEF IInv, Counted, Running
<1> QED
  BY <1>1 DEF IInv, Typed, Running, Gone

(* Who carries a root's completion. *)
LEMMA Carrying ==
  ASSUME IInv, NEW s \in Spans, pc[s] \in {"checking", "handing", "telling"}
  PROVE  /\ job[s] \in Roots /\ TraceOf[job[s]] = TraceOf[s] /\ Carries(s, job[s])
         /\ sent[job[s]] = 0 /\ pc[job[s]] \notin Early /\ pc[job[s]] # "new"
         /\ state[TraceOf[s]] \in States
         /\ \A u \in Spans : Carries(u, job[s]) => u = s
         /\ \A i \in States : completion[i] # job[s]
<1>1. job[s] \in Roots /\ TraceOf[job[s]] = TraceOf[s] /\ Carries(s, job[s])
  BY DEF IInv, Jobs, Delivering, Carries
<1>2. /\ sent[job[s]] = 0 /\ pc[job[s]] \notin Early
      /\ \A u \in Spans : Carries(u, job[s]) => u = s
      /\ \A i \in States : completion[i] # job[s]
  BY <1>1 DEF IInv, OneStation
<1>3. pc[job[s]] # "new" /\ state[TraceOf[s]] # Absent
  BY <1>1, <1>2 DEF IInv, Current, Early
<1>4. state[TraceOf[s]] \in States
  <2>1. state[TraceOf[s]] \in 0 .. made /\ made \in Nat /\ made <= MaxStates
    BY Places DEF IInv, Typed
  <2> QED
    BY <1>3, <2>1, Places DEF States, Absent
<1> QED
  BY <1>1, <1>2, <1>3, <1>4

(* A span moves on alone. *)
LEMMA MoveKeeps ==
  ASSUME IInv, NEW s \in Spans, NEW l \in Labels,
         pc' = [pc EXCEPT ![s] = l],
         UNCHANGED <<stateVars, autoVars, goVars, sent, waitVars, dropAsked, before>>,
         back[s] = "ending",
         pc[s] \notin Delivering \cup {"new", "ended"}, l \notin Delivering \cup {"new"},
         s \in Roots => (pc[s] \in Early <=> l \in Early),
         s \in async => l \notin {"open", "leaving", "ended"},
         s \notin async => l \notin {"finalizing", "done", "leaving"}
  PROVE  IInv'
<1> USE DEF IInv
<1>1. /\ pc'[s] = l /\ \A u \in Spans : u # s => pc'[u] = pc[u]
      /\ UNCHANGED <<state, made, dropped, pendingFinalizers, completion, autoPending, autoChan,
                     autoClosed, back, async, ref, job, snapshot, sent, waiter, waitChan,
                     waitedFor, dropAsked, before>>
  BY DEF Typed, stateVars, autoVars, goVars, waitVars
<1>2. Typed'
  BY <1>1 DEF Typed
<1>3. Placed'
  BY <1>1 DEF Placed, Typed
<1>4. Jobs'
  BY <1>1 DEF Jobs
<1>5. /\ \A u \in Spans : pc'[u] # "new" <=> pc[u] # "new"
      /\ \A u \in Spans : pc'[u] \in Delivering <=> pc[u] \in Delivering
      /\ \A u \in Spans : \A d \in Delivering : pc'[u] = d <=> pc[u] = d
      /\ \A r \in Roots : pc'[r] \in Early <=> pc[r] \in Early
  BY <1>1
<1>6. Known'
  BY <1>1, <1>5, Places DEF Known, Begun
<1>7. Owned' /\ Current'
  BY <1>1, <1>5, Places DEF Owned, Current
<1>8. Running' = Running /\ \A i : Pending(i)' = Pending(i)
  BY <1>1 DEF Running, Pending, Typed
<1>9. Counted'
  BY <1>1, <1>8 DEF Counted
<1>10. \A u \in Spans, r \in Roots : Carries(u, r)' <=> Carries(u, r)
  BY <1>1, <1>5 DEF Carries, Delivering
<1>11. OneStation'
  BY <1>1, <1>5, <1>10 DEF OneStation, Delivering
<1>12. Ready'
  BY <1>1, <1>5 DEF Ready, Delivering
<1>13. Gone => Gone'
  BY <1>1 DEF Gone, Typed
<1>14. Waits'
  BY <1>1, <1>13 DEF Waits
<1> QED
  BY <1>2, <1>3, <1>4, <1>6, <1>7, <1>9, <1>11, <1>12, <1>14

LEMMA EndKeeps == ASSUME IInv, NEW s \in Spans, End(s) PROVE IInv'
<1>1. /\ pc[s] = "open" /\ pc' = [pc EXCEPT ![s] = "sending"]
      /\ UNCHANGED <<stateVars, autoVars, goVars, sent, waitVars, dropAsked, before>>
  BY DEF End, Goto, outVars, askVars
<1>2. s \notin async /\ back[s] = "ending"
  BY <1>1 DEF IInv, Placed
<1> QED
  BY <1>1, <1>2, MoveKeeps DEF Labels, Delivering, Early

LEMMA FinalizeKeeps == ASSUME IInv, NEW s \in Spans, Finalize(s) PROVE IInv'
<1>1. /\ pc[s] = "finalizing" /\ pc' = [pc EXCEPT ![s] = "sending"]
      /\ UNCHANGED <<stateVars, autoVars, goVars, sent, waitVars, dropAsked, before>>
  BY DEF Finalize, Goto, outVars, askVars
<1>2. back[s] = "ending"
  BY <1>1 DEF IInv, Placed, Typed, Delivering
<1> QED
  BY <1>1, <1>2, MoveKeeps DEF Labels, Delivering, Early

LEMMA EndTrackedKeeps == ASSUME IInv, NEW s \in Spans, EndTracked(s) PROVE IInv'
<1>1. /\ pc[s] = "ending" /\ pc' = [pc EXCEPT ![s] = IF s \in async THEN "done" ELSE "ended"]
      /\ UNCHANGED <<stateVars, autoVars, goVars, sent, waitVars, dropAsked, before>>
  BY DEF EndTracked, Goto, outVars, askVars
<1>2. back[s] = "ending"
  BY <1>1 DEF IInv, Placed, Typed, Delivering
<1>3. CASE s \in async
  BY <1>1, <1>2, <1>3, MoveKeeps DEF Labels, Delivering, Early
<1>4. CASE s \notin async
  BY <1>1, <1>2, <1>4, MoveKeeps DEF Labels, Delivering, Early
<1> QED
  BY <1>3, <1>4

-----------------------------------------------------------------------------
(* A span begins. *)
LEMMA BeginKeeps == ASSUME IInv, NEW s \in Spans, Begin(s) PROVE IInv'
<1> USE DEF IInv
<1> DEFINE t == TraceOf[s]
<1>1. /\ pc[s] = "new" /\ pc' = [pc EXCEPT ![s] = "open"]
      /\ s \notin Roots => pc[Parent[s]] # "new"
      /\ UNCHANGED <<dropped, pendingFinalizers, completion, autoPending, autoChan, autoClosed,
                     back, async, ref, job, snapshot, sent, waiter, waitChan, waitedFor,
                     dropAsked, before>>
  BY DEF Begin, Goto, autoVars, goVars, outVars, waitVars, askVars
<1>2. /\ pc'[s] = "open" /\ \A u \in Spans : u # s => pc'[u] = pc[u]
      /\ s \notin async /\ job[s] = None /\ back[s] = "ending"
      /\ s \notin waitedFor
  BY <1>1 DEF Typed, Placed, Jobs, Delivering
<1>3. /\ \A u \in Spans : pc'[u] \in Delivering <=> pc[u] \in Delivering
      /\ \A u \in Spans : \A d \in Delivering : pc'[u] = d <=> pc[u] = d
      /\ \A r \in Roots : pc'[r] \in Early <=> pc[r] \in Early
      /\ \A u \in Spans : pc[u] # "new" => pc'[u] # "new"
  BY <1>1, <1>2, Places DEF Delivering, Early
<1>4. Placed' /\ Jobs'
  <2>1. Placed'
    BY <1>1, <1>2 DEF Placed
  <2>2. Jobs'
    BY <1>1, <1>3 DEF Jobs
  <2> QED
    BY <2>1, <2>2
<1>5. Counted'
  <2>1. Running' = Running /\ \A i : Pending(i)' = Pending(i)
    BY <1>1, <1>2 DEF Running, Pending, Typed
  <2> QED
    BY <1>1, <2>1 DEF Counted
<1>6. Waits'
  <2>1. Gone => Gone'
    BY <1>1, <1>2 DEF Gone, Typed
  <2> QED
    BY <1>1, <2>1 DEF Waits
<1>7. \A u \in Spans, r \in Roots : Carries(u, r)' <=> Carries(u, r)
  BY <1>1, <1>3 DEF Carries, Delivering
<1>8. \A u \in Traces : Begun(u) => Begun(u)'
  BY <1>3, Places DEF Begun
<1>9. CASE s \in Roots
  (* Nothing is known of its trace. *)
  <2>1. t \in Traces /\ ~Begun(t)
    BY <1>1, <1>9, Places DEF Begun
  <2>2. state[t] = Absent /\ t \notin dropAsked /\ \A u \in Spans : TraceOf[u] = t => pc[u] = "new"
    BY <2>1 DEF Known
  <2>3. made < MaxStates /\ made' = made + 1 /\ state' = [state EXCEPT ![t] = made + 1]
    BY <1>9, <2>2 DEF Begin, CreatesState, Create
  <2>4. /\ state'[t] = made' /\ \A u \in Traces : u # t => state'[u] = state[u]
        /\ made' \in Nat /\ made' <= MaxStates /\ made' # 0
        /\ \A u \in Traces : state[u] # made'
        /\ \A u \in Spans : ref[u] # made'
    BY <2>1, <2>3, Places DEF Typed
  <2>5. Typed'
    <3>1. state' \in [Traces -> 0 .. made']
      BY <2>1, <2>3, <2>4 DEF Typed
    <3>2. ref \in [Spans -> 0 .. made'] /\ snapshot \in [Spans -> 0 .. made']
      BY <2>3 DEF Typed
    <3>3. pc' \in [Spans -> Labels]
      BY <1>1 DEF Typed, Labels
    <3> QED
      BY <1>1, <2>4, <3>1, <3>2, <3>3 DEF Typed
  <2>6. Known'
    <3>1. Begun(t)'
      BY <1>2, <1>9 DEF Begun
    <3> QED
      BY <1>1, <1>2, <1>8, <2>4, <3>1, Places DEF Known
  <2>7. Owned'
    BY <1>1, <2>4 DEF Owned, Absent
  <2>8. Current'
    <3> SUFFICES ASSUME NEW r \in Roots, pc'[r] # "new", sent[r] = 0
                 PROVE  /\ state'[TraceOf[r]] # Absent
                        /\ \A u \in async : TraceOf[u] = TraceOf[r] => ref[u] = state'[TraceOf[r]]
                        /\ TraceOf[r] \in dropAsked => dropped[state'[TraceOf[r]]] = TRUE
      BY <1>1 DEF Current
    <3>1. CASE r = s
      <4>1. \A u \in async : TraceOf[u] # t
        BY <2>2 DEF Placed, Typed
      <4> QED
        BY <2>2, <2>4, <3>1, <4>1 DEF Absent
    <3>2. CASE r # s
      <4>1. TraceOf[r] # t /\ TraceOf[r] \in Traces /\ pc[r] # "new"
        BY <1>2, <1>9, <3>2, Places
      <4> QED
        BY <2>4, <4>1 DEF Current
    <3> QED
      BY <3>1, <3>2
  <2>9. OneStation'
    <3>1. \A r \in Roots, i \in States : completion[i] = r => TraceOf[r] # t
      BY <1>1, <1>9, Places DEF OneStation, Early
    <3>2. \A r \in Roots, i \in States : completion[i] = r => state'[TraceOf[r]] = i
      BY <2>4, <3>1, Places DEF OneStation
    <3> QED
      BY <1>1, <1>3, <1>7, <3>2 DEF OneStation, Delivering
  <2>10. Ready'
    <3>1. \A u \in Spans : pc'[u] \in {"handing", "telling"} => pc[u] \in {"handing", "telling"} /\ TraceOf[u] # t
      BY <1>2, <2>2
    <3> QED
      BY <1>1, <2>4, <3>1, Places DEF Ready
  <2> QED
    BY <1>4, <1>5, <1>6, <2>5, <2>6, <2>7, <2>8, <2>9, <2>10
<1>10. CASE s \notin Roots
  <2>1. state' = state /\ made' = made
    BY <1>10 DEF Begin, CreatesState
  <2>2. Typed'
    BY <1>1, <2>1 DEF Typed, Labels
  <2>3. Known'
    <3>1. Parent[s] \in Spans /\ TraceOf[Parent[s]] = t
      BY <1>10, LifecycleAssumption
    <3>2. Begun(t)'
      BY <1>1, <1>8, <1>10, <3>1, Places DEF Known
    <3> QED
      BY <1>1, <1>2, <1>8, <2>1, <3>2, Places DEF Known
  <2>4. \A r \in Roots : pc'[r] # "new" <=> pc[r] # "new"
    BY <1>2, <1>10, Places
  <2>5. Owned' /\ Current'
    BY <1>1, <2>1, <2>4 DEF Owned, Current
  <2>6. OneStation'
    BY <1>1, <1>3, <1>7, <2>1 DEF OneStation, Delivering
  <2>7. Ready'
    BY <1>1, <1>3, <2>1 DEF Ready, Delivering
  <2> QED
    BY <1>4, <1>5, <1>6, <2>2, <2>3, <2>5, <2>6, <2>7
<1> QED
  BY <1>9, <1>10

(* A trace is edited, and dropped maybe, before or after its completion.   *)
LEMMA EditKeeps ==
  ASSUME IInv, NEW t \in Traces, NEW drops \in BOOLEAN, EditTrace(t, drops)
  PROVE  IInv'
<1> USE DEF IInv
<1>1. /\ UNCHANGED <<pendingFinalizers, completion, autoPending, autoChan, autoClosed, pc, back,
                     async, ref, job, snapshot, sent, waiter, waitChan, waitedFor, before>>
      /\ dropped' = [dropped EXCEPT ![state'[t]] = dropped[state'[t]] \/ drops]
      /\ dropAsked' = IF drops THEN dropAsked \cup {t} ELSE dropAsked
  BY DEF EditTrace, autoVars, goVars, outVars, waitVars
<1>2. PICK s \in Spans : TraceOf[s] = t /\ pc[s] # "new"
  BY DEF EditTrace
<1>3. PICK r \in Roots : TraceOf[r] = t /\ pc[r] # "new"
  BY <1>2 DEF Known, Begun
<1>4. \A q \in Roots : TraceOf[q] = t => q = r
  BY <1>3, Places
<1>5. Placed' /\ Jobs'
  BY <1>1 DEF Placed, Jobs
<1>6. Counted' /\ Waits'
  BY <1>1 DEF Counted, Running, Pending, Waits, Gone
<1>7. \A u \in Spans, q \in Roots : Carries(u, q)' <=> Carries(u, q)
  BY <1>1 DEF Carries
<1>8. \A u \in Traces : Begun(u)' <=> Begun(u)
  BY <1>1 DEF Begun
<1>9. CASE state[t] = Absent
  <2>1. made < MaxStates /\ made' = made + 1 /\ state' = [state EXCEPT ![t] = made + 1]
    BY <1>9 DEF EditTrace, Create
  <2>2. /\ state'[t] = made' /\ \A u \in Traces : u # t => state'[u] = state[u]
        /\ made' \in Nat /\ made' <= MaxStates /\ made' # 0 /\ made' \in States
        /\ \A u \in Traces : state[u] # made'
        /\ \A u \in Spans : ref[u] # made'
    BY <2>1, Places DEF Typed, States
  <2>3. sent[r] # 0
    BY <1>3, <1>9 DEF Current
  <2>4. Typed'
    <3>1. state' \in [Traces -> 0 .. made']
      BY <2>1, <2>2 DEF Typed
    <3>2. ref \in [Spans -> 0 .. made'] /\ snapshot \in [Spans -> 0 .. made']
      BY <2>1 DEF Typed
    <3>3. dropped' \in [States -> BOOLEAN] /\ dropAsked' \subseteq Traces
      BY <1>1, <2>2 DEF Typed
    <3> QED
      BY <1>1, <2>2, <3>1, <3>2, <3>3 DEF Typed
  <2>5. Known'
    <3>1. Begun(t)
      BY <1>3 DEF Begun
    <3> QED
      BY <1>1, <1>8, <2>2, <3>1, Places DEF Known
  <2>6. Owned'
    BY <1>1, <2>2 DEF Owned, Absent
  <2>7. Current'
    <3> SUFFICES ASSUME NEW q \in Roots, pc[q] # "new", sent[q] = 0
                 PROVE  /\ state'[TraceOf[q]] # Absent
                        /\ \A u \in async : TraceOf[u] = TraceOf[q] => ref[u] = state'[TraceOf[q]]
                        /\ TraceOf[q] \in dropAsked' => dropped'[state'[TraceOf[q]]] = TRUE
      BY <1>1 DEF Current
    <3>1. TraceOf[q] # t /\ TraceOf[q] \in Traces
      BY <1>4, <2>3, Places
    <3>2. state'[TraceOf[q]] = state[TraceOf[q]] /\ state[TraceOf[q]] # made'
      BY <2>2, <3>1
    <3>3. dropped'[state[TraceOf[q]]] = dropped[state[TraceOf[q]]]
      <4>1. state[TraceOf[q]] \in States
        BY <3>1, Places DEF Current, Typed, States, Absent
      <4> QED
        BY <1>1, <2>2, <3>2, <4>1 DEF Typed
    <3>4. TraceOf[q] \in dropAsked' => TraceOf[q] \in dropAsked
      BY <1>1, <3>1
    <3> QED
      BY <3>2, <3>3, <3>4 DEF Current
  <2>8. OneStation'
    <3>1. \A q \in Roots, i \in States : completion[i] = q => TraceOf[q] # t
      BY <1>4, <2>3 DEF OneStation
    <3>2. \A q \in Roots, i \in States : completion[i] = q => state'[TraceOf[q]] = i
      BY <2>2, <3>1, Places DEF OneStation
    <3> QED
      BY <1>1, <1>7, <3>2 DEF OneStation
  <2>9. Ready'
    <3>1. \A u \in Spans : pc[u] \in {"handing", "telling"} => TraceOf[u] # t
      BY <1>9, Carrying DEF States, Absent
    <3> QED
      BY <1>1, <2>2, <3>1, Places DEF Ready
  <2> QED
    BY <1>5, <1>6, <2>4, <2>5, <2>6, <2>7, <2>8, <2>9
<1>10. CASE state[t] # Absent
  <2>1. state' = state /\ made' = made
    BY <1>10 DEF EditTrace
  <2>2. state[t] \in States
    BY <1>10, Places DEF Typed, States, Absent
  <2>3. Typed'
    <3>1. dropped' \in [States -> BOOLEAN] /\ dropAsked' \subseteq Traces
      BY <1>1, <2>1, <2>2 DEF Typed
    <3> QED
      BY <1>1, <2>1, <3>1 DEF Typed
  <2>4. Known'
    <3>1. Begun(t)
      BY <1>3 DEF Begun
    <3> QED
      BY <1>1, <1>8, <2>1, <3>1, Places DEF Known
  <2>5. Owned' /\ OneStation' /\ Ready'
    BY <1>1, <1>7, <2>1 DEF Owned, OneStation, Ready
  <2>6. Current'
    <3> SUFFICES ASSUME NEW q \in Roots, pc[q] # "new", sent[q] = 0, TraceOf[q] \in dropAsked'
                 PROVE  dropped'[state[TraceOf[q]]] = TRUE
      BY <1>1, <2>1 DEF Current
    <3>1. CASE TraceOf[q] = t
      <4>1. dropped'[state[t]] = (dropped[state[t]] \/ drops)
        BY <1>1, <2>1, <2>2 DEF Typed
      <4>2. CASE drops
        BY <3>1, <4>1, <4>2
      <4>3. CASE ~drops
        <5>1. dropped[state[t]] = TRUE
          BY <1>1, <3>1, <4>3 DEF Current
        <5> QED
          BY <3>1, <4>1, <5>1
      <4> QED
        BY <4>2, <4>3
    <3>2. CASE TraceOf[q] # t
      <4>1. TraceOf[q] \in dropAsked
        BY <1>1, <3>2
      <4>2. state[TraceOf[q]] # Absent /\ dropped[state[TraceOf[q]]] = TRUE
        BY <4>1 DEF Current
      <4>3. state[TraceOf[q]] # state[t] /\ state[TraceOf[q]] \in States
        BY <3>2, <4>2, Places DEF Owned, Typed, States, Absent
      <4> QED
        BY <1>1, <2>1, <4>2, <4>3 DEF Typed
    <3> QED
      BY <3>1, <3>2
  <2> QED
    BY <1>5, <1>6, <2>3, <2>4, <2>5, <2>6
<1> QED
  BY <1>9, <1>10

-----------------------------------------------------------------------------
(* A finalizer begins, and counts in the state its trace has then.         *)
LEMMA EndFinalizedKeeps == ASSUME IInv, NEW s \in Spans, EndFinalized(s) PROVE IInv'
<1> USE DEF IInv
<1> DEFINE t == TraceOf[s]
           ts == state[t]
<1>1. /\ pc[s] = "open" /\ pc' = [pc EXCEPT ![s] = "finalizing"]
      /\ autoPending' = autoPending + 1 /\ autoChan' = NextChan
      /\ async' = async \cup {s} /\ ref' = [ref EXCEPT ![s] = ts]
      /\ pendingFinalizers' = [i \in States |-> pendingFinalizers[i] + IF i = ts THEN 1 ELSE 0]
      /\ UNCHANGED <<state, made, dropped, completion, autoClosed, back, job, snapshot, sent,
                     waiter, waitChan, waitedFor, dropAsked, before>>
  BY DEF EndFinalized, Goto, outVars, waitVars, askVars
<1>2. /\ pc'[s] = "finalizing" /\ \A u \in Spans : u # s => pc'[u] = pc[u]
      /\ ref'[s] = ts /\ \A u \in Spans : u # s => ref'[u] = ref[u]
      /\ s \notin async /\ back[s] = "ending" /\ t \in Traces
      /\ s \notin waitedFor
  BY <1>1, Places DEF Typed, Placed
<1>3. /\ \A u \in Spans : pc'[u] \in Delivering <=> pc[u] \in Delivering
      /\ \A u \in Spans : \A d \in Delivering : pc'[u] = d <=> pc[u] = d
      /\ \A r \in Roots : pc'[r] \in Early <=> pc[r] \in Early
      /\ \A u \in Spans : pc'[u] # "new" <=> pc[u] # "new"
  BY <1>1, <1>2, Places DEF Delivering, Early
<1>4. \A i \in States : /\ i # ts => pendingFinalizers'[i] = pendingFinalizers[i]
                        /\ i = ts => pendingFinalizers'[i] = pendingFinalizers[i] + 1
                        /\ pendingFinalizers[i] \in Nat
  BY <1>1 DEF Typed
<1>5. autoChan' \in Nat /\ autoChan' >= autoChan /\ autoChan \in Nat
      /\ (autoPending = 0 => autoChan' = autoChan + 1) /\ (autoPending # 0 => autoChan' = autoChan)
  BY <1>1 DEF NextChan, Typed
<1>6. Typed'
  <2>1. /\ pc' \in [Spans -> Labels] /\ async' \subseteq Spans
        /\ ref' \in [Spans -> 0 .. made] /\ before \in [Roots -> SUBSET async']
        /\ autoPending' \in Nat /\ waitedFor \subseteq async'
    BY <1>1, <1>2 DEF Typed, Labels
  <2>2. pendingFinalizers' \in [States -> Nat]
    BY <1>1, <1>4
  <2>3. autoClosed \subseteq 1 .. autoChan' /\ waitChan \in 0 .. autoChan'
    BY <1>5 DEF Typed
  <2> QED
    BY <1>1, <1>5, <2>1, <2>2, <2>3 DEF Typed
<1>7. Placed'
  BY <1>1, <1>2 DEF Placed
<1>8. Jobs'
  BY <1>1, <1>3 DEF Jobs
<1>9. Known'
  BY <1>1, <1>3, Places DEF Known, Begun
<1>10. Owned'
  BY <1>1, <1>2 DEF Owned
<1>11. Current'
  <2> SUFFICES ASSUME NEW r \in Roots, pc'[r] # "new", sent[r] = 0
               PROVE  /\ state[TraceOf[r]] # Absent
                      /\ \A u \in async' : TraceOf[u] = TraceOf[r] => ref'[u] = state[TraceOf[r]]
                      /\ TraceOf[r] \in dropAsked => dropped[state[TraceOf[r]]] = TRUE
    <3>1. UNCHANGED <<state, dropped, sent, dropAsked>>
      BY <1>1
    <3> QED
      BY <3>1 DEF Current
  <2>1. pc[r] # "new"
    BY <1>3, Places
  <2>2. ASSUME NEW u \in async', TraceOf[u] = TraceOf[r] PROVE ref'[u] = state[TraceOf[r]]
    <3>1. CASE u = s
      BY <1>2, <2>2, <3>1
    <3>2. CASE u # s
      BY <1>1, <1>2, <2>1, <2>2, <3>2 DEF Current, Typed
    <3> QED
      BY <3>1, <3>2
  <2> QED
    BY <2>1, <2>2 DEF Current
<1>12. Counted'
  <2>1. Running' = Running \cup {s} /\ s \notin Running
    BY <1>1, <1>2 DEF Running, Typed
  <2>2. autoPending' = Cardinality(Running')
    <3>1. Running \in SUBSET async
      BY DEF Running
    <3>2. Cardinality(Running \cup {s}) = Cardinality(Running) + 1
      BY <2>1, <3>1, Sets, FS_AddElement
    <3> QED
      BY <1>1, <2>1, <3>2 DEF Counted
  <2>3. ASSUME NEW i \in States PROVE pendingFinalizers'[i] = Cardinality(Pending(i)')
    <3>1. CASE i = ts
      <4>1. Pending(i)' = Pending(i) \cup {s} /\ s \notin Pending(i) /\ Pending(i) \in SUBSET async
        BY <1>1, <1>2, <3>1 DEF Pending, Typed
      <4>2. Cardinality(Pending(i) \cup {s}) = Cardinality(Pending(i)) + 1
        BY <4>1, Sets, FS_AddElement
      <4> QED
        BY <1>4, <3>1, <4>1, <4>2 DEF Counted
    <3>2. CASE i # ts
      <4>1. Pending(i)' = Pending(i)
        BY <1>1, <1>2, <3>2 DEF Pending, Typed
      <4> QED
        BY <1>4, <3>2, <4>1 DEF Counted
    <3> QED
      BY <3>1, <3>2
  <2> QED
    BY <2>2, <2>3 DEF Counted
<1>13. OneStation'
  <2>1. \A u \in Spans, r \in Roots : Carries(u, r)' <=> Carries(u, r)
    BY <1>1, <1>3 DEF Carries, Delivering
  <2>2. \A i \in States : pendingFinalizers[i] > 0 => pendingFinalizers'[i] > 0
    BY <1>4
  <2> QED
    BY <1>1, <1>3, <2>1, <2>2 DEF OneStation, Delivering
<1>14. Ready'
  BY <1>1, <1>3 DEF Ready, Delivering
<1>15. Waits'
  <2>1. Gone => Gone'
    BY <1>1, <1>2 DEF Gone, Typed
  <2>2. autoPending = 0 => Gone
    BY NoneRunning
  <2>3. autoChan' \notin autoClosed
    BY <1>5 DEF Waits, Typed
  <2>4. autoChan' # 0
    BY <1>5 DEF Waits, Typed
  <2>5. waiter = "waiting" => waitChan = autoChan' \/ Gone'
    BY <1>5, <2>1, <2>2 DEF Waits
  <2> QED
    BY <1>1, <2>1, <2>3, <2>4, <2>5 DEF Waits
<1> QED
  BY <1>6, <1>7, <1>8, <1>9, <1>10, <1>11, <1>12, <1>13, <1>14, <1>15

(* A span is sent; a root then owes its completion.                        *)
LEMMA OnwardKeeps ==
  ASSUME IInv, NEW s \in Spans, pc[s] \in {"sending", "uploading"}, Onward(s),
         UNCHANGED <<stateVars, autoVars, async, ref, snapshot, sent, waitVars, dropAsked>>
  PROVE  IInv'
<1> USE DEF IInv
<1>1. /\ pc[s] \in {"sending", "uploading"}
      /\ UNCHANGED <<stateVars, autoVars, async, ref, snapshot, sent, waitVars, dropAsked>>
  OBVIOUS
<1>2. back[s] = "ending" /\ job[s] = None
  BY <1>1 DEF Placed, Typed, Jobs, Delivering
<1>3. CASE s \notin Roots
  <2>1. pc' = [pc EXCEPT ![s] = "ending"] /\ UNCHANGED <<goVars, before>>
    BY <1>1, <1>3 DEF Onward, Goto, goVars
  <2> QED
    BY <1>1, <1>2, <1>3, <2>1, MoveKeeps DEF Labels, Delivering, Early
<1>4. CASE s \in Roots
  <2>1. /\ pc' = [pc EXCEPT ![s] = "checking"] /\ job' = [job EXCEPT ![s] = s]
        /\ back' = [back EXCEPT ![s] = "ending"]
        /\ before' = [before EXCEPT ![s] =
             {c \in async : TraceOf[c] = TraceOf[s]
                              /\ pc[c] \in {"finalizing", "sending", "uploading", "ending", "done"}}]
        /\ UNCHANGED <<state, made, dropped, pendingFinalizers, completion, autoPending, autoChan,
                       autoClosed, async, ref, snapshot, sent, waiter, waitChan, waitedFor,
                       dropAsked>>
    BY <1>1, <1>4 DEF Onward, Goto, stateVars, autoVars, waitVars
  <2>2. back' = back
    BY <1>2, <2>1 DEF Typed
  <2>3. /\ pc'[s] = "checking" /\ \A u \in Spans : u # s => pc'[u] = pc[u]
        /\ job'[s] = s /\ \A u \in Spans : u # s => job'[u] = job[u]
        /\ \A r \in Roots : r # s => before'[r] = before[r]
        /\ before' \in [Roots -> SUBSET async]
        /\ \A c \in before'[s] : TraceOf[c] = TraceOf[s]
    BY <1>4, <2>1 DEF Typed
  <2>4. Typed'
    BY <1>4, <2>1, <2>2, <2>3 DEF Typed, Labels
  <2>5. Placed'
    BY <2>1, <2>2, <2>3 DEF Placed, Delivering
  <2>6. Jobs'
    BY <1>4, <2>3 DEF Jobs, Delivering
  <2>7. \A u \in Spans : pc'[u] # "new" <=> pc[u] # "new"
    BY <1>1, <2>3
  <2>8. Known' /\ Owned' /\ Current'
    BY <2>1, <2>7, Places DEF Known, Begun, Owned, Current
  <2>9. Counted' /\ Waits'
    <3>1. Running' = Running /\ \A i : Pending(i)' = Pending(i)
      BY <1>1, <2>1, <2>2, <2>3 DEF Running, Pending, Typed
    <3>2. Gone => Gone'
      BY <1>1, <2>1, <2>3 DEF Gone, Typed
    <3> QED
      BY <2>1, <3>1, <3>2 DEF Counted, Waits
  <2>10. OneStation'
    <3>1. \A u \in Spans : ~Carries(u, s) /\ \A i \in States : completion[i] # s
      BY <1>1, <1>4 DEF OneStation, Early
    <3>2. \A u \in Spans, r \in Roots : Carries(u, r)' <=> Carries(u, r) \/ (u = s /\ r = s)
      BY <1>2, <1>4, <2>3, <3>1, Places DEF Carries
    <3>3. \A r \in Roots : r # s => (pc'[r] \in Early <=> pc[r] \in Early)
      BY <2>3, Places
    <3>4. sent[s] = 0
      BY <1>1, <1>4 DEF OneStation, Early
    <3>5. \A u \in Spans, r \in Roots :
            job'[u] = r /\ pc'[u] = "deleting" => job[u] = r /\ pc[u] = "deleting"
      BY <2>3
    <3>6. ASSUME NEW r \in Roots, r # s
          PROVE  /\ \A u, v \in Spans : Carries(u, r)' /\ Carries(v, r)' => u = v
                 /\ \A i \in States : completion'[i] = r =>
                      /\ \A u \in Spans : ~Carries(u, r)'
                      /\ state'[TraceOf[r]] = i /\ pendingFinalizers'[i] > 0
                      /\ sent'[r] = 0 /\ pc'[r] \notin Early
                 /\ \A u \in Spans : Carries(u, r)' => sent'[r] = 0 /\ pc'[r] \notin Early
                 /\ pc'[r] \in Early => sent'[r] = 0
                 /\ pc'[r] \notin Early /\ sent'[r] = 0 =>
                      \/ \E u \in Spans : Carries(u, r)'
                      \/ \E i \in States : completion'[i] = r
                 /\ \A u \in Spans : job'[u] = r /\ pc'[u] = "deleting" => sent'[r] = 1
      BY <2>1, <3>2, <3>3, <3>5, <3>6 DEF OneStation
    <3>7. /\ \A u, v \in Spans : Carries(u, s)' /\ Carries(v, s)' => u = v
          /\ \A i \in States : completion'[i] # s
          /\ pc'[s] \notin Early /\ sent'[s] = 0 /\ Carries(s, s)'
          /\ \A u \in Spans : job'[u] = s /\ pc'[u] = "deleting" => sent'[s] = 1
      BY <1>4, <2>1, <2>3, <3>1, <3>2, <3>4, <3>5 DEF OneStation, Early
    <3> QED
      BY <3>6, <3>7 DEF OneStation
  <2>11. Ready'
    <3>1. \A u \in Spans : pc'[u] \in {"handing", "telling"} => pc[u] \in {"handing", "telling"} /\ job'[u] = job[u]
      BY <2>3
    <3>2. \A u \in Spans : pc[u] \in {"handing", "telling"} => job[u] \in Roots /\ job[u] # s
      BY <1>1, Carrying DEF Early
    <3> QED
      BY <2>1, <2>2, <2>3, <3>1, <3>2 DEF Ready
  <2> QED
    BY <2>4, <2>5, <2>6, <2>8, <2>9, <2>10, <2>11
<1> QED
  BY <1>3, <1>4

LEMMA CheckDroppedKeeps == ASSUME IInv, NEW s \in Spans, CheckDropped(s) PROVE IInv'
<1>1. /\ pc[s] = "sending"
      /\ UNCHANGED <<stateVars, autoVars, async, ref, snapshot, sent, waitVars, dropAsked>>
  BY DEF CheckDropped, outVars
<1>2. CASE Onward(s)
  BY <1>1, <1>2, OnwardKeeps
<1>3. CASE ~Onward(s)
  <2>1. pc' = [pc EXCEPT ![s] = "uploading"] /\ UNCHANGED <<goVars, before>>
    BY <1>1, <1>3 DEF CheckDropped, Goto, goVars
  <2>2. back[s] = "ending"
    BY <1>1 DEF IInv, Placed, Typed, Delivering
  <2> QED
    BY <1>1, <2>1, <2>2, MoveKeeps DEF Labels, Delivering, Early
<1> QED
  BY <1>2, <1>3

LEMMA SendPayloadKeeps == ASSUME IInv, NEW s \in Spans, SendPayload(s) PROVE IInv'
BY OnwardKeeps DEF SendPayload, askVars

-----------------------------------------------------------------------------
(* A completion is left with the trace state, or about to be handed over.  *)
LEMMA CheckFinalizersKeeps == ASSUME IInv, NEW s \in Spans, CheckFinalizers(s) PROVE IInv'
<1> USE DEF IInv
<1> DEFINE t == TraceOf[s]
<1>1. /\ pc[s] = "checking" /\ t \in Traces
      /\ UNCHANGED <<state, made, dropped, pendingFinalizers, autoPending, autoChan, autoClosed,
                     back, async, ref, sent, waiter, waitChan, waitedFor, dropAsked, before>>
  BY Places DEF CheckFinalizers, autoVars, outVars, waitVars, askVars
<1>2. PICK r : r = job[s]
  OBVIOUS
<1>3. /\ r \in Roots /\ TraceOf[r] = t /\ Carries(s, r)
      /\ sent[r] = 0 /\ pc[r] \notin Early /\ pc[r] # "new"
      /\ state[t] \in States
      /\ \A u \in Spans : Carries(u, r) => u = s
      /\ \A i \in States : completion[i] # r
  BY <1>1, <1>2, Carrying
<1>4. CASE pendingFinalizers[state[t]] > 0
  <2>1. PICK i : i = state[t]
    OBVIOUS
  <2>2. /\ completion' = [completion EXCEPT ![i] = r] /\ job' = [job EXCEPT ![s] = None]
        /\ pc' = [pc EXCEPT ![s] = back[s]] /\ snapshot' = snapshot
    BY <1>2, <1>3, <1>4, <2>1 DEF CheckFinalizers, WaitsForFinalizers, Goto, States, Absent
  <2>3. /\ pc'[s] = back[s] /\ back[s] \in {"ending", "leaving"}
        /\ (s \notin async => back[s] = "ending")
    BY <1>1, <2>2 DEF Typed, Placed
  <2>4. /\ pc'[s] \in {"ending", "leaving"} /\ \A u \in Spans : u # s => pc'[u] = pc[u]
        /\ job'[s] = None /\ \A u \in Spans : u # s => job'[u] = job[u]
        /\ completion'[i] = r /\ \A j \in States : j # i => completion'[j] = completion[j]
        /\ completion[i] = None
    <3>1. ASSUME completion[i] \in Roots PROVE FALSE
      <4>1. state[TraceOf[completion[i]]] = i
        BY <1>3, <2>1, <3>1 DEF OneStation
      <4>2. TraceOf[completion[i]] = t
        BY <1>1, <1>3, <2>1, <3>1, <4>1, Places DEF Owned, States, Absent
      <4> QED
        BY <1>3, <2>1, <3>1, <4>2, Places
    <3> QED
      BY <1>3, <2>1, <2>2, <2>3, <3>1 DEF Typed
  <2>5. Typed'
    BY <1>1, <1>3, <2>1, <2>2, <2>4 DEF Typed, Labels
  <2>6. Placed'
    BY <1>1, <2>3, <2>4 DEF Placed, Delivering, Typed
  <2>7. Jobs'
    BY <2>4 DEF Jobs, Delivering
  <2>8. /\ \A u \in Spans : pc'[u] # "new" <=> pc[u] # "new"
        /\ \A q \in Roots : pc'[q] \in Early <=> pc[q] \in Early
    BY <1>1, <2>4, Places DEF Early
  <2>9. Known' /\ Owned' /\ Current'
    BY <1>1, <2>8, Places DEF Known, Begun, Owned, Current
  <2>10. Counted' /\ Waits'
    <3>1. Running' = Running /\ \A j : Pending(j)' = Pending(j)
      BY <1>1, <2>4 DEF Running, Pending, Typed
    <3>2. Gone => Gone'
      BY <1>1, <2>4 DEF Gone, Typed
    <3> QED
      BY <1>1, <3>1, <3>2 DEF Counted, Waits
  <2>11. OneStation'
    <3>1. \A u \in Spans, q \in Roots : Carries(u, q)' <=> Carries(u, q) /\ u # s
      BY <1>3, <2>4, Places DEF Carries
    <3>2. \A u \in Spans : ~Carries(u, r)'
      BY <1>3, <3>1
    <3>3. \A j \in States : completion'[j] = r => j = i
      BY <1>3, <2>4
    <3>4. \A u \in Spans, q \in Roots :
            job'[u] = q /\ pc'[u] = "deleting" => job[u] = q /\ pc[u] = "deleting"
      BY <2>4
    <3>5. ASSUME NEW q \in Roots, q # r
          PROVE  /\ \A u \in Spans : Carries(u, q)' <=> Carries(u, q)
                 /\ \A j \in States : completion'[j] = q <=> completion[j] = q
      <4>1. ~Carries(s, q)
        BY <1>2, <3>5 DEF Carries
      <4> QED
        BY <2>4, <3>1, <3>5, <4>1, Places
    <3>6. ASSUME NEW q \in Roots, q # r
          PROVE  /\ \A u, v \in Spans : Carries(u, q)' /\ Carries(v, q)' => u = v
                 /\ \A j \in States : completion'[j] = q =>
                      /\ \A u \in Spans : ~Carries(u, q)'
                      /\ state'[TraceOf[q]] = j /\ pendingFinalizers'[j] > 0
                      /\ sent'[q] = 0 /\ pc'[q] \notin Early
                 /\ \A u \in Spans : Carries(u, q)' => sent'[q] = 0 /\ pc'[q] \notin Early
                 /\ pc'[q] \in Early => sent'[q] = 0
                 /\ pc'[q] \notin Early /\ sent'[q] = 0 =>
                      \/ \E u \in Spans : Carries(u, q)'
                      \/ \E j \in States : completion'[j] = q
                 /\ \A u \in Spans : job'[u] = q /\ pc'[u] = "deleting" => sent'[q] = 1
      BY <1>1, <2>8, <3>4, <3>5, <3>6 DEF OneStation
    <3>7. /\ \A j \in States : completion'[j] = r => state'[t] = j /\ pendingFinalizers'[j] > 0
          /\ sent'[r] = 0 /\ pc'[r] \notin Early /\ i \in States /\ completion'[i] = r
          /\ \A u \in Spans : job'[u] = r /\ pc'[u] = "deleting" => sent'[r] = 1
      BY <1>1, <1>3, <1>4, <2>1, <2>4, <2>8, <3>3, <3>4 DEF OneStation
    <3> QED
      BY <1>3, <3>2, <3>6, <3>7 DEF OneStation
  <2>12. Ready'
    <3>1. \A u \in Spans : pc'[u] \in {"handing", "telling"} => pc[u] \in {"handing", "telling"} /\ job'[u] = job[u]
      BY <2>4
    <3> QED
      BY <1>1, <2>2, <3>1 DEF Ready
  <2> QED
    BY <2>5, <2>6, <2>7, <2>9, <2>10, <2>11, <2>12
<1>5. CASE ~(pendingFinalizers[state[t]] > 0)
  <2>1. /\ snapshot' = [snapshot EXCEPT ![s] = state[t]]
        /\ pc' = [pc EXCEPT ![s] = "handing"] /\ completion' = completion /\ job' = job
    BY <1>5 DEF CheckFinalizers, WaitsForFinalizers, Goto, Snapshot
  <2>2. /\ pc'[s] = "handing" /\ \A u \in Spans : u # s => pc'[u] = pc[u]
        /\ snapshot'[s] = state[t] /\ \A u \in Spans : u # s => snapshot'[u] = snapshot[u]
    BY <2>1 DEF Typed
  <2>3. Typed'
    BY <1>1, <2>1, <2>2 DEF Typed, Labels
  <2>4. /\ \A u \in Spans : pc'[u] # "new" <=> pc[u] # "new"
        /\ \A u \in Spans : pc'[u] \in Delivering <=> pc[u] \in Delivering
        /\ \A q \in Roots : pc'[q] \in Early <=> pc[q] \in Early
        /\ \A u \in Spans : pc'[u] = "deleting" <=> pc[u] = "deleting"
    BY <1>1, <2>2, Places DEF Early, Delivering
  <2>5. Placed'
    BY <1>1, <2>2 DEF Placed, Delivering, Typed
  <2>6. Jobs'
    BY <2>1, <2>4 DEF Jobs
  <2>7. Known' /\ Owned' /\ Current'
    BY <1>1, <2>4, Places DEF Known, Begun, Owned, Current
  <2>8. Counted' /\ Waits'
    <3>1. Running' = Running /\ \A j : Pending(j)' = Pending(j)
      BY <1>1, <2>2 DEF Running, Pending, Typed
    <3>2. Gone => Gone'
      BY <1>1, <2>2 DEF Gone, Typed
    <3> QED
      BY <1>1, <3>1, <3>2 DEF Counted, Waits
  <2>9. OneStation'
    <3>1. \A u \in Spans, q \in Roots : Carries(u, q)' <=> Carries(u, q)
      BY <1>1, <2>1, <2>2 DEF Carries
    <3> QED
      BY <1>1, <2>1, <2>4, <3>1 DEF OneStation
  <2>10. \A c \in before[r] : back[c] = "leaving"
    (* A finalizer that is not done yet would count in this state. *)
    <3>1. Pending(state[t]) = {}
      <4>1. Pending(state[t]) \in SUBSET async
        BY DEF Pending
      <4>2. pendingFinalizers[state[t]] \in Nat
        BY <1>3 DEF Typed
      <4> QED
        BY <1>3, <1>5, <4>1, <4>2, Sets DEF Counted
    <3> QED
      BY <1>3, <3>1 DEF Ready, Current, Pending, Typed
  <2>11. Ready'
    BY <1>1, <1>2, <2>1, <2>2, <2>10 DEF Ready
  <2> QED
    BY <2>3, <2>5, <2>6, <2>7, <2>8, <2>9, <2>11
<1> QED
  BY <1>4, <1>5

(* A completion is built. *)
LEMMA BuildCompletionKeeps == ASSUME IInv, NEW s \in Spans, BuildCompletion(s) PROVE IInv'
<1> USE DEF IInv
<1>1. /\ pc[s] = "handing" /\ pc' = [pc EXCEPT ![s] = "telling"]
      /\ UNCHANGED <<state, made, dropped, pendingFinalizers, completion, autoPending, autoChan,
                     autoClosed, back, async, ref, job, snapshot, sent, waiter, waitChan,
                     waitedFor, dropAsked, before>>
  BY DEF BuildCompletion, Goto, stateVars, autoVars, goVars, waitVars
<1>2. pc'[s] = "telling" /\ \A u \in Spans : u # s => pc'[u] = pc[u]
  BY <1>1 DEF Typed
<1>3. Typed'
  BY <1>1 DEF Typed, Labels
<1>4. /\ \A u \in Spans : pc'[u] # "new" <=> pc[u] # "new"
      /\ \A u \in Spans : pc'[u] \in Delivering <=> pc[u] \in Delivering
      /\ \A u \in Spans : pc'[u] \in {"checking", "handing", "telling"} <=> pc[u] \in {"checking", "handing", "telling"}
      /\ \A u \in Spans : pc'[u] \in {"handing", "telling"} <=> pc[u] \in {"handing", "telling"}
      /\ \A u \in Spans : pc'[u] = "deleting" <=> pc[u] = "deleting"
      /\ \A q \in Roots : pc'[q] \in Early <=> pc[q] \in Early
  BY <1>1, <1>2, Places DEF Early, Delivering
<1>5. Placed' /\ Jobs'
  <2>1. Placed'
    BY <1>1, <1>2 DEF Placed, Delivering
  <2>2. Jobs'
    BY <1>1, <1>4 DEF Jobs
  <2> QED
    BY <2>1, <2>2
<1>6. Known' /\ Owned' /\ Current'
  BY <1>1, <1>4, Places DEF Known, Begun, Owned, Current
<1>7. Counted' /\ Waits'
  <2>1. Running' = Running /\ \A j : Pending(j)' = Pending(j)
    BY <1>1, <1>2 DEF Running, Pending, Typed
  <2>2. Gone => Gone'
    BY <1>1, <1>2 DEF Gone, Typed
  <2> QED
    BY <1>1, <2>1, <2>2 DEF Counted, Waits
<1>8. OneStation'
  <2>1. \A u \in Spans, q \in Roots : Carries(u, q)' <=> Carries(u, q)
    BY <1>1, <1>4 DEF Carries
  <2> QED
    BY <1>1, <1>4, <2>1 DEF OneStation
<1>9. Ready'
  BY <1>1, <1>4 DEF Ready
<1> QED
  BY <1>3, <1>5, <1>6, <1>7, <1>8, <1>9

(* A completion is handed over. *)
LEMMA HandOverKeeps == ASSUME IInv, NEW s \in Spans, HandOver(s) PROVE IInv'
<1> USE DEF IInv
<1>1. /\ pc[s] = "telling" /\ pc' = [pc EXCEPT ![s] = "deleting"]
      /\ sent' = [sent EXCEPT ![job[s]] = sent[job[s]] + 1]
      /\ UNCHANGED <<state, made, dropped, pendingFinalizers, completion, autoPending, autoChan,
                     autoClosed, back, async, ref, job, snapshot, waiter, waitChan, waitedFor,
                     dropAsked, before>>
  BY DEF HandOver, Goto, stateVars, autoVars, goVars, waitVars, askVars
<1>2. PICK r : r = job[s]
  OBVIOUS
<1>3. /\ r \in Roots /\ Carries(s, r) /\ sent[r] = 0 /\ pc[r] \notin Early
      /\ \A u \in Spans : Carries(u, r) => u = s
      /\ \A i \in States : completion[i] # r
  BY <1>1, <1>2, Carrying
<1>4. /\ pc'[s] = "deleting" /\ \A u \in Spans : u # s => pc'[u] = pc[u]
      /\ sent'[r] = 1 /\ \A q \in Roots : q # r => sent'[q] = sent[q]
  BY <1>1, <1>2, <1>3 DEF Typed
<1>5. Typed'
  <2>1. sent' \in [Roots -> {0, 1}]
    BY <1>1, <1>2, <1>3 DEF Typed
  <2>2. pc' \in [Spans -> Labels]
    BY <1>1 DEF Typed, Labels
  <2> QED
    BY <1>1, <2>1, <2>2 DEF Typed
<1>6. /\ \A u \in Spans : pc'[u] # "new" <=> pc[u] # "new"
      /\ \A u \in Spans : pc'[u] \in Delivering <=> pc[u] \in Delivering
      /\ \A q \in Roots : pc'[q] \in Early <=> pc[q] \in Early
  BY <1>1, <1>4, Places DEF Early, Delivering
<1>7. Placed' /\ Jobs'
  <2>1. Placed'
    BY <1>1, <1>4 DEF Placed, Delivering
  <2>2. Jobs'
    BY <1>1, <1>6 DEF Jobs
  <2> QED
    BY <2>1, <2>2
<1>8. Known' /\ Owned'
  BY <1>1, <1>6, Places DEF Known, Begun, Owned
<1>9. Current'
  <2>1. \A q \in Roots : pc'[q] # "new" /\ sent'[q] = 0 => pc[q] # "new" /\ sent[q] = 0
    BY <1>4, <1>6, Places
  <2> QED
    BY <1>1, <2>1 DEF Current
<1>10. Counted' /\ Waits'
  <2>1. Running' = Running /\ \A j : Pending(j)' = Pending(j)
    BY <1>1, <1>4 DEF Running, Pending, Typed
  <2>2. Gone => Gone'
    BY <1>1, <1>4 DEF Gone, Typed
  <2> QED
    BY <1>1, <2>1, <2>2 DEF Counted, Waits
<1>11. OneStation'
  <2>1. \A u \in Spans, q \in Roots : q # r => (Carries(u, q)' <=> Carries(u, q))
    BY <1>1, <1>2, <1>4 DEF Carries
  <2>2. \A u \in Spans : ~Carries(u, r)'
    BY <1>1, <1>3, <1>4 DEF Carries
  <2>3. \A u \in Spans, q \in Roots :
          q # r /\ job'[u] = q /\ pc'[u] = "deleting" => job[u] = q /\ pc[u] = "deleting"
    BY <1>1, <1>2, <1>4
  <2>4. ASSUME NEW q \in Roots, q # r
        PROVE  /\ \A u, v \in Spans : Carries(u, q)' /\ Carries(v, q)' => u = v
               /\ \A j \in States : completion'[j] = q =>
                    /\ \A u \in Spans : ~Carries(u, q)'
                    /\ state'[TraceOf[q]] = j /\ pendingFinalizers'[j] > 0
                    /\ sent'[q] = 0 /\ pc'[q] \notin Early
               /\ \A u \in Spans : Carries(u, q)' => sent'[q] = 0 /\ pc'[q] \notin Early
               /\ pc'[q] \in Early => sent'[q] = 0
               /\ pc'[q] \notin Early /\ sent'[q] = 0 =>
                    \/ \E u \in Spans : Carries(u, q)'
                    \/ \E j \in States : completion'[j] = q
               /\ \A u \in Spans : job'[u] = q /\ pc'[u] = "deleting" => sent'[q] = 1
    BY <1>1, <1>4, <1>6, <2>1, <2>3, <2>4 DEF OneStation
  <2>5. \A j \in States : completion'[j] # r
    BY <1>1, <1>3
  <2> QED
    BY <1>3, <1>4, <1>6, <2>2, <2>4, <2>5 DEF OneStation
<1>12. Ready'
  <2>1. \A u \in Spans : pc'[u] \in {"handing", "telling"} => pc[u] \in {"handing", "telling"}
    BY <1>4
  <2> QED
    BY <1>1, <2>1 DEF Ready
<1> QED
  BY <1>5, <1>7, <1>8, <1>9, <1>10, <1>11, <1>12

(* Its trace state is deleted. *)
LEMMA DeleteStateKeeps == ASSUME IInv, NEW s \in Spans, DeleteState(s) PROVE IInv'
<1> USE DEF IInv
<1> DEFINE t == TraceOf[s]
<1>1. /\ pc[s] = "deleting" /\ state' = [state EXCEPT ![t] = Absent]
      /\ job' = [job EXCEPT ![s] = None] /\ pc' = [pc EXCEPT ![s] = back[s]]
      /\ UNCHANGED <<made, dropped, pendingFinalizers, completion, autoPending, autoChan,
                     autoClosed, back, async, ref, snapshot, sent, waiter, waitChan, waitedFor,
                     dropAsked, before>>
  BY DEF DeleteState, Goto, autoVars, outVars, waitVars, askVars
<1>2. PICK r \in Roots : r = job[s] /\ TraceOf[r] = t /\ sent[r] = 1
  BY <1>1 DEF Jobs, Delivering, OneStation
<1>3. /\ t \in Traces /\ \A q \in Roots : TraceOf[q] = t => sent[q] # 0
  BY <1>2, Places
<1>4. /\ pc'[s] = back[s] /\ back[s] \in {"ending", "leaving"}
      /\ (s \notin async => back[s] = "ending")
      /\ \A u \in Spans : u # s => pc'[u] = pc[u]
      /\ job'[s] = None /\ \A u \in Spans : u # s => job'[u] = job[u]
      /\ state'[t] = Absent /\ \A u \in Traces : u # t => state'[u] = state[u]
  BY <1>1, <1>3 DEF Typed, Placed
<1>5. Typed'
  <2>1. state' \in [Traces -> 0 .. made]
    <3>1. 0 \in 0 .. made
      BY DEF Typed
    <3> QED
      BY <1>1, <3>1 DEF Typed, Absent
  <2>2. pc' \in [Spans -> Labels] /\ job' \in [Spans -> Roots \cup {None}]
    BY <1>1, <1>4 DEF Typed, Labels
  <2> QED
    BY <1>1, <2>1, <2>2 DEF Typed
<1>6. /\ \A u \in Spans : pc'[u] # "new" <=> pc[u] # "new"
      /\ \A q \in Roots : pc'[q] \in Early <=> pc[q] \in Early
  BY <1>1, <1>4, Places DEF Early
<1>7. Placed'
  BY <1>1, <1>4 DEF Placed, Delivering
<1>8. Jobs'
  BY <1>4 DEF Jobs, Delivering
<1>9. Known' /\ Owned'
  <2>1. \A u \in Traces : state'[u] # Absent => u # t /\ state'[u] = state[u]
    BY <1>4
  <2>2. Known'
    BY <1>1, <1>6, <2>1, Places DEF Known, Begun
  <2>3. Owned'
    BY <1>1, <2>1 DEF Owned
  <2> QED
    BY <2>2, <2>3
<1>10. Current'
  <2>1. \A q \in Roots : sent[q] = 0 => state'[TraceOf[q]] = state[TraceOf[q]]
    BY <1>3, <1>4, Places
  <2> QED
    BY <1>1, <1>6, <2>1, Places DEF Current
<1>11. Counted' /\ Waits'
  <2>1. Running' = Running /\ \A j : Pending(j)' = Pending(j)
    BY <1>1, <1>4 DEF Running, Pending, Typed
  <2>2. Gone => Gone'
    BY <1>1, <1>4 DEF Gone, Typed
  <2> QED
    BY <1>1, <2>1, <2>2 DEF Counted, Waits
<1>12. OneStation'
  <2>1. \A u \in Spans, q \in Roots : Carries(u, q)' <=> Carries(u, q)
    BY <1>1, <1>4, Places DEF Carries
  <2>2. \A q \in Roots, i \in States : completion[i] = q => state'[TraceOf[q]] = i
    BY <1>3, <1>4, Places DEF OneStation
  <2>3. \A u \in Spans, q \in Roots :
          job'[u] = q /\ pc'[u] = "deleting" => job[u] = q /\ pc[u] = "deleting"
    BY <1>4
  <2> QED
    BY <1>1, <1>6, <2>1, <2>2, <2>3 DEF OneStation
<1>13. Ready'
  <2>1. \A u \in Spans : pc'[u] \in {"handing", "telling"} => pc[u] \in {"handing", "telling"} /\ job'[u] = job[u]
    BY <1>4
  <2>2. \A u \in Spans : pc[u] \in {"handing", "telling"} => TraceOf[u] # t /\ TraceOf[u] \in Traces
    BY <1>3, Carrying, Places
  <2> QED
    BY <1>1, <1>4, <2>1, <2>2 DEF Ready
<1> QED
  BY <1>5, <1>7, <1>8, <1>9, <1>10, <1>11, <1>12, <1>13

-----------------------------------------------------------------------------
(* A finalizer is done; the last of its state takes the completion along.  *)
LEMMA FinalizerDoneKeeps == ASSUME IInv, NEW s \in Spans, FinalizerDone(s) PROVE IInv'
<1> USE DEF IInv
<1>1. PICK ts, last, taken :
        /\ ts = ref[s]
        /\ last = (ts # Absent /\ pendingFinalizers[ts] = 1)
        /\ taken = IF last THEN completion[ts] ELSE None
        /\ pc[s] = "done"
        /\ pendingFinalizers' = [i \in States |-> pendingFinalizers[i] - IF i = ts THEN 1 ELSE 0]
        /\ completion' = IF last THEN [completion EXCEPT ![ts] = None] ELSE completion
        /\ job' = [job EXCEPT ![s] = taken]
        /\ back' = [back EXCEPT ![s] = "leaving"]
        /\ pc' = [pc EXCEPT ![s] = IF taken = None THEN "leaving" ELSE "checking"]
  BY DEF FinalizerDone, CountedIn, LastPending, Taken, Goto
<1>2. UNCHANGED <<state, made, dropped, autoPending, autoChan, autoClosed, async, ref, snapshot,
                  sent, waiter, waitChan, waitedFor, dropAsked, before>>
  BY DEF FinalizerDone, autoVars, outVars, waitVars, askVars
<1>3. /\ s \in async /\ back[s] = "ending" /\ job[s] = None
  BY <1>1 DEF Placed, Typed, Jobs, Delivering
<1>4. ts \in 0 .. made /\ made \in Nat /\ made <= MaxStates /\ (ts # Absent => ts \in States)
  BY <1>1, Places DEF Typed, States, Absent
<1>5. /\ pc'[s] \in {"leaving", "checking"} /\ \A u \in Spans : u # s => pc'[u] = pc[u]
      /\ (taken = None => pc'[s] = "leaving") /\ (taken # None => pc'[s] = "checking")
      /\ job'[s] = taken /\ \A u \in Spans : u # s => job'[u] = job[u]
      /\ back'[s] = "leaving" /\ \A u \in Spans : u # s => back'[u] = back[u]
  BY <1>1 DEF Typed
<1>6. Pending(ts)' = Pending(ts) \ {s} /\ s \in Pending(ts) /\ Pending(ts) \in SUBSET async
      /\ \A i \in States : i # ts => Pending(i)' = Pending(i)
  BY <1>1, <1>2, <1>3, <1>5 DEF Pending, Typed
<1>7. \A i \in States : /\ i # ts => pendingFinalizers'[i] = pendingFinalizers[i]
                        /\ i = ts => pendingFinalizers'[i] = pendingFinalizers[i] - 1
                        /\ pendingFinalizers[i] \in Nat
  BY <1>1 DEF Typed
<1>8. /\ Cardinality(Pending(ts)') = Cardinality(Pending(ts)) - 1
      /\ Cardinality(Pending(ts)) \in Nat /\ Cardinality(Pending(ts)) >= 1
  <2>1. IsFiniteSet(Pending(ts)) /\ Cardinality(Pending(ts)) \in Nat
        /\ Cardinality(Pending(ts)) # 0
    BY <1>6, Sets
  <2>2. Cardinality(Pending(ts) \ {s}) = Cardinality(Pending(ts)) - 1
    BY <1>6, <2>1, FS_RemoveElement
  <2> QED
    BY <1>6, <2>1, <2>2
<1>9. ts # Absent => pendingFinalizers[ts] >= 1 /\ pendingFinalizers'[ts] = pendingFinalizers[ts] - 1
  BY <1>4, <1>7, <1>8 DEF Counted
<1>10. /\ taken \in Roots \cup {None}
       /\ \A i \in States : completion'[i] = completion[i] \/ (i = ts /\ completion'[i] = None)
       /\ taken # None => ts # Absent /\ ts \in States /\ completion[ts] = taken
                            /\ completion'[ts] = None
       /\ completion' \in [States -> Roots \cup {None}]
  <2>1. CASE last
    BY <1>1, <1>4, <2>1 DEF Typed
  <2>2. CASE ~last
    BY <1>1, <2>2 DEF Typed
  <2> QED
    BY <2>1, <2>2
<1>11. /\ \A u \in Spans : pc'[u] # "new" <=> pc[u] # "new"
       /\ \A q \in Roots : pc'[q] \in Early <=> pc[q] \in Early
       /\ \A u \in Spans : pc'[u] \in {"handing", "telling", "deleting"} =>
            u # s /\ pc'[u] = pc[u] /\ job'[u] = job[u]
  BY <1>1, <1>5, Places DEF Early
<1>12. taken # None => /\ taken \in Roots /\ state[TraceOf[taken]] = ts /\ sent[taken] = 0
                       /\ pc[taken] \notin Early /\ TraceOf[taken] = TraceOf[s]
                       /\ \A u \in Spans : ~Carries(u, taken)
                       /\ \A i \in States : completion[i] = taken => i = ts
  <2> SUFFICES ASSUME taken # None
               PROVE  /\ taken \in Roots /\ state[TraceOf[taken]] = ts /\ sent[taken] = 0
                      /\ pc[taken] \notin Early /\ TraceOf[taken] = TraceOf[s]
                      /\ \A u \in Spans : ~Carries(u, taken)
                      /\ \A i \in States : completion[i] = taken => i = ts
    OBVIOUS
  <2>1. taken \in Roots /\ ts \in States /\ ts # Absent /\ completion[ts] = taken
    BY <1>10
  <2>2. /\ state[TraceOf[taken]] = ts /\ sent[taken] = 0 /\ pc[taken] \notin Early
        /\ \A u \in Spans : ~Carries(u, taken)
        /\ \A i \in States : completion[i] = taken => i = ts
    BY <2>1 DEF OneStation
  <2>3. TraceOf[taken] = TraceOf[s]
    BY <1>1, <2>1, <2>2, Places DEF Owned
  <2> QED
    BY <2>1, <2>2, <2>3
<1>13. Typed'
  <2>1. pendingFinalizers' \in [States -> Nat]
    BY <1>1, <1>4, <1>7, <1>9 DEF States, Absent
  <2>2. /\ pc' \in [Spans -> Labels] /\ back' \in [Spans -> {"ending", "leaving"}]
        /\ job' \in [Spans -> Roots \cup {None}]
    BY <1>1, <1>5, <1>10 DEF Typed, Labels
  <2> QED
    BY <1>2, <1>10, <2>1, <2>2 DEF Typed
<1>14. Placed'
  BY <1>2, <1>3, <1>5 DEF Placed, Delivering, Typed
<1>15. Jobs'
  BY <1>5, <1>12 DEF Jobs, Delivering
<1>16. Known' /\ Owned' /\ Current'
  BY <1>2, <1>11, Places DEF Known, Begun, Owned, Current
<1>17. Counted'
  <2>1. Running' = Running
    BY <1>1, <1>2, <1>5 DEF Running, Typed
  <2>2. \A i \in States : pendingFinalizers'[i] = Cardinality(Pending(i)')
    BY <1>6, <1>7, <1>8 DEF Counted
  <2> QED
    BY <1>2, <2>1, <2>2 DEF Counted
<1>18. Waits'
  <2>1. Gone => Gone'
    BY <1>1, <1>2, <1>5 DEF Gone, Typed
  <2> QED
    BY <1>2, <2>1 DEF Waits
<1>19. OneStation'
  <2>1. \A q \in Roots : q # taken =>
          /\ \A u \in Spans : Carries(u, q)' <=> Carries(u, q)
          /\ \A i \in States : completion'[i] = q <=> completion[i] = q
    <3>1. ASSUME NEW q \in Roots, q # taken
          PROVE  \A u \in Spans : Carries(u, q)' <=> Carries(u, q)
      BY <1>3, <1>5, <3>1, Places DEF Carries
    <3>2. ASSUME NEW q \in Roots, q # taken, NEW i \in States
          PROVE  completion'[i] = q <=> completion[i] = q
      <4>1. CASE last
        BY <1>1, <1>10, <3>2, <4>1, Places
      <4>2. CASE ~last
        BY <1>1, <4>2
      <4> QED
        BY <4>1, <4>2
    <3> QED
      BY <3>1, <3>2
  <2>2. \A q \in Roots, i \in States : q # taken /\ completion[i] = q => pendingFinalizers'[i] > 0
    (* Its state had another finalizer pending, or this was not the last.  *)
    <3> SUFFICES ASSUME NEW q \in Roots, NEW i \in States, q # taken, completion[i] = q
                 PROVE  pendingFinalizers'[i] > 0
      OBVIOUS
    <3>1. pendingFinalizers[i] > 0
      BY DEF OneStation
    <3>2. CASE i # ts
      BY <1>7, <3>1, <3>2
    <3>3. CASE i = ts
      <4>1. ts # Absent
        BY <3>3 DEF States, Absent
      <4>2. ~last
        BY <1>1, <3>3
      <4>3. pendingFinalizers[i] # 1
        BY <1>1, <3>3, <4>1, <4>2
      <4> QED
        BY <1>7, <3>1, <3>3, <4>3
    <3> QED
      BY <3>2, <3>3
  <2>3. \A u \in Spans, q \in Roots :
          job'[u] = q /\ pc'[u] = "deleting" => job[u] = q /\ pc[u] = "deleting"
    BY <1>11
  <2>4. ASSUME NEW q \in Roots, q # taken
        PROVE  /\ \A u, v \in Spans : Carries(u, q)' /\ Carries(v, q)' => u = v
               /\ \A j \in States : completion'[j] = q =>
                    /\ \A u \in Spans : ~Carries(u, q)'
                    /\ state'[TraceOf[q]] = j /\ pendingFinalizers'[j] > 0
                    /\ sent'[q] = 0 /\ pc'[q] \notin Early
               /\ \A u \in Spans : Carries(u, q)' => sent'[q] = 0 /\ pc'[q] \notin Early
               /\ pc'[q] \in Early => sent'[q] = 0
               /\ pc'[q] \notin Early /\ sent'[q] = 0 =>
                    \/ \E u \in Spans : Carries(u, q)'
                    \/ \E j \in States : completion'[j] = q
               /\ \A u \in Spans : job'[u] = q /\ pc'[u] = "deleting" => sent'[q] = 1
    BY <1>2, <1>11, <2>1, <2>2, <2>3, <2>4 DEF OneStation
  <2>5. ASSUME taken # None
        PROVE  /\ taken \in Roots /\ sent'[taken] = 0 /\ pc'[taken] \notin Early
               /\ Carries(s, taken)' /\ \A u \in Spans : Carries(u, taken)' => u = s
               /\ \A j \in States : completion'[j] # taken
               /\ \A u \in Spans : job'[u] = taken /\ pc'[u] = "deleting" => sent'[taken] = 1
    <3>1. taken \in Roots /\ sent'[taken] = 0 /\ pc'[taken] \notin Early
      BY <1>2, <1>11, <1>12, <2>5
    <3>2. Carries(s, taken)' /\ \A u \in Spans : Carries(u, taken)' => u = s
      BY <1>5, <1>12, <2>5 DEF Carries
    <3>3. \A j \in States : completion'[j] # taken
      BY <1>10, <1>12, <2>5
    <3>4. \A u \in Spans : job'[u] = taken /\ pc'[u] = "deleting" => sent'[taken] = 1
      BY <1>2, <2>3, <3>1 DEF OneStation
    <3> QED
      BY <3>1, <3>2, <3>3, <3>4
  <2> QED
    BY <2>4, <2>5, Places DEF OneStation
<1>20. Ready'
  <2>1. \A u \in Spans : back[u] = "leaving" => back'[u] = "leaving"
    BY <1>5
  <2>2. \A u \in Spans : pc'[u] \in {"handing", "telling"} => pc[u] \in {"handing", "telling"} /\ job'[u] = job[u]
    BY <1>11
  <2>3. \A u \in Spans : pc[u] \in {"handing", "telling"} => before[job[u]] \subseteq Spans
    BY Carrying DEF Typed
  <2> QED
    BY <1>2, <2>1, <2>2, <2>3 DEF Ready
<1> QED
  BY <1>13, <1>14, <1>15, <1>16, <1>17, <1>18, <1>19, <1>20

(* It stops being waited for. *)
LEMMA LeaveClientKeeps == ASSUME IInv, NEW s \in Spans, LeaveClient(s) PROVE IInv'
<1> USE DEF IInv
<1>1. /\ pc[s] = "leaving" /\ pc' = [pc EXCEPT ![s] = "ended"]
      /\ autoPending' = autoPending - 1
      /\ autoClosed' = IF autoPending = 1 THEN autoClosed \cup {autoChan} ELSE autoClosed
      /\ UNCHANGED <<state, made, dropped, pendingFinalizers, completion, autoChan, back, async,
                     ref, job, snapshot, sent, waiter, waitChan, waitedFor, dropAsked, before>>
  BY DEF LeaveClient, Goto, stateVars, goVars, outVars, waitVars, askVars
<1>2. /\ s \in async /\ back[s] = "leaving"
      /\ pc'[s] = "ended" /\ \A u \in Spans : u # s => pc'[u] = pc[u]
  BY <1>1 DEF Placed, Typed
<1>3. /\ Running' = Running \ {s} /\ s \in Running /\ Running \in SUBSET async
      /\ \A i : Pending(i)' = Pending(i)
  BY <1>1, <1>2 DEF Running, Pending, Typed
<1>4. autoPending \in Nat /\ autoPending # 0 /\ autoPending' \in Nat
      /\ autoPending' = Cardinality(Running')
  <2>1. IsFiniteSet(Running) /\ Cardinality(Running) \in Nat /\ Cardinality(Running) # 0
    BY <1>3, Sets
  <2>2. Cardinality(Running \ {s}) = Cardinality(Running) - 1
    BY <1>3, <2>1, FS_RemoveElement
  <2> QED
    BY <1>1, <1>3, <2>1, <2>2 DEF Counted
<1>5. autoChan \in Nat /\ autoChan # 0
  BY <1>4 DEF Waits, Typed
<1>6. Typed'
  <2>1. autoClosed' \subseteq 1 .. autoChan
    BY <1>1, <1>5 DEF Typed
  <2>2. pc' \in [Spans -> Labels]
    BY <1>1 DEF Typed, Labels
  <2> QED
    BY <1>1, <1>4, <2>1, <2>2 DEF Typed
<1>7. /\ \A u \in Spans : pc'[u] # "new" <=> pc[u] # "new"
      /\ \A u \in Spans : pc'[u] \in Delivering <=> pc[u] \in Delivering
      /\ \A u \in Spans : \A d \in Delivering : pc'[u] = d <=> pc[u] = d
      /\ \A q \in Roots : pc'[q] \in Early <=> pc[q] \in Early
  BY <1>1, <1>2, Places DEF Early, Delivering
<1>8. Placed' /\ Jobs'
  <2>1. Placed'
    BY <1>1, <1>2 DEF Placed, Delivering, Typed
  <2>2. Jobs'
    BY <1>1, <1>7 DEF Jobs
  <2> QED
    BY <2>1, <2>2
<1>9. Known' /\ Owned' /\ Current'
  BY <1>1, <1>7, Places DEF Known, Begun, Owned, Current
<1>10. Counted'
  BY <1>1, <1>3, <1>4 DEF Counted
<1>11. OneStation'
  <2>1. \A u \in Spans, q \in Roots : Carries(u, q)' <=> Carries(u, q)
    BY <1>1, <1>7 DEF Carries, Delivering
  <2> QED
    BY <1>1, <1>7, <2>1 DEF OneStation, Delivering
<1>12. Ready'
  BY <1>1, <1>7 DEF Ready, Delivering
<1>13. Waits'
  <2>1. Gone => Gone'
    BY <1>1, <1>2 DEF Gone, Typed
  <2>2. autoChan \in autoClosed' => autoPending' = 0
    BY <1>1, <1>4 DEF Waits
  <2> QED
    BY <1>1, <1>5, <2>1, <2>2 DEF Waits
<1> QED
  BY <1>6, <1>8, <1>9, <1>10, <1>11, <1>12, <1>13

LEMMA WaitKeeps == ASSUME IInv, WaitBegin \/ WaitEnd PROVE IInv'
<1> USE DEF IInv
<1>1. UNCHANGED <<state, made, dropped, pendingFinalizers, completion, autoPending, autoChan,
                  autoClosed, pc, back, async, ref, job, snapshot, sent, dropAsked, before>>
  BY DEF WaitBegin, WaitEnd, stateVars, autoVars, goVars, outVars, askVars
<1>2. \A u \in Spans, q \in Roots : Carries(u, q)' <=> Carries(u, q)
  BY <1>1 DEF Carries
<1>3. Placed' /\ Jobs' /\ Known' /\ Owned' /\ Current'
  BY <1>1 DEF Placed, Jobs, Known, Begun, Owned, Current
<1>4. Counted' /\ OneStation' /\ Ready'
  BY <1>1, <1>2 DEF Counted, Running, Pending, OneStation, Ready
<1>5. CASE WaitBegin
  <2>1. /\ waiter' = IF autoPending = 0 THEN "settled" ELSE "waiting"
        /\ waitChan' = autoChan /\ waitedFor' = Running
    BY <1>5 DEF WaitBegin, Running
  <2>2. Typed'
    BY <1>1, <2>1 DEF Typed, Running
  <2>3. autoPending = 0 => Gone'
    BY <2>1, NoneRunning DEF Gone
  <2>4. Waits'
    BY <1>1, <2>1, <2>3 DEF Waits
  <2> QED
    BY <1>3, <1>4, <2>2, <2>4
<1>6. CASE WaitEnd
  <2>1. /\ waiter = "waiting" /\ waitChan \in autoClosed /\ waiter' = "settled"
        /\ UNCHANGED <<waitChan, waitedFor>>
    BY <1>6 DEF WaitEnd
  <2>2. Typed'
    BY <1>1, <2>1 DEF Typed
  <2>3. Gone
    BY <2>1, NoneRunning DEF Waits
  <2>4. Gone'
    BY <1>1, <2>1, <2>3 DEF Gone
  <2>5. Waits'
    BY <1>1, <2>1, <2>4 DEF Waits
  <2> QED
    BY <1>3, <1>4, <2>2, <2>5
<1> QED
  BY <1>5, <1>6

-----------------------------------------------------------------------------
LEMMA InitIInv == Init => IInv
<1> SUFFICES ASSUME Init PROVE IInv
  OBVIOUS
<1>1. Typed
  BY Places DEF Init, Typed, Labels, Absent
<1>2. Placed /\ Jobs
  BY DEF Init, Placed, Jobs, Delivering
<1>3. Known /\ Owned
  BY DEF Init, Known, Owned
<1>4. Current
  BY Places DEF Init, Current
<1>5. Counted
  <2>1. Running = {} /\ \A i : Pending(i) = {}
    BY DEF Init, Running, Pending
  <2> QED
    BY <2>1, FS_EmptySet DEF Init, Counted
<1>6. OneStation
  BY Places DEF Init, OneStation, Carries, Early
<1>7. Ready /\ Waits
  BY DEF Init, Ready, Waits, Gone
<1> QED
  BY <1>1, <1>2, <1>3, <1>4, <1>5, <1>6, <1>7 DEF IInv

LEMMA StutterKeeps == ASSUME IInv, UNCHANGED vars PROVE IInv'
<1> USE DEF IInv
<1>1. UNCHANGED <<state, made, dropped, pendingFinalizers, completion, autoPending, autoChan,
                  autoClosed, pc, back, async, ref, job, snapshot, sent, waiter, waitChan,
                  waitedFor, dropAsked, before>>
  BY DEF vars, stateVars, autoVars, goVars, outVars, waitVars, askVars
<1>2. Typed' /\ Placed' /\ Jobs' /\ Known' /\ Owned' /\ Current'
  BY <1>1 DEF Typed, Placed, Jobs, Known, Begun, Owned, Current
<1>3. Counted' /\ Ready' /\ Waits'
  BY <1>1 DEF Counted, Running, Pending, Ready, Waits, Gone
<1>4. OneStation'
  BY <1>1 DEF OneStation, Carries
<1> QED
  BY <1>2, <1>3, <1>4

LEMMA NextIInv == IInv /\ [Next]_vars => IInv'
<1> SUFFICES ASSUME IInv, [Next]_vars PROVE IInv'
  OBVIOUS
<1>1. ASSUME NEW s \in Spans,
             \/ Begin(s) \/ End(s) \/ EndFinalized(s) \/ Finalize(s)
             \/ CheckDropped(s) \/ SendPayload(s)
             \/ CheckFinalizers(s) \/ BuildCompletion(s) \/ HandOver(s) \/ DeleteState(s)
             \/ EndTracked(s)
             \/ FinalizerDone(s) \/ LeaveClient(s)
      PROVE  IInv'
  BY <1>1, BeginKeeps, EndKeeps, EndFinalizedKeeps, FinalizeKeeps, CheckDroppedKeeps,
     SendPayloadKeeps, BuildCompletionKeeps,
     CheckFinalizersKeeps, HandOverKeeps, DeleteStateKeeps, EndTrackedKeeps,
     FinalizerDoneKeeps, LeaveClientKeeps
<1>2. ASSUME NEW t \in Traces, NEW drops \in BOOLEAN, EditTrace(t, drops) PROVE IInv'
  BY <1>2, EditKeeps
<1>3. CASE WaitBegin \/ WaitEnd
  BY <1>3, WaitKeeps
<1>4. CASE UNCHANGED vars
  BY <1>4, StutterKeeps
<1> QED
  BY <1>1, <1>2, <1>3, <1>4 DEF Next

LEMMA Invariance == Spec => []IInv
  BY InitIInv, NextIInv, PTL DEF Spec

(* Only handing over sends a completion. *)
LEMMA Sending ==
  ASSUME [Next]_vars
  PROVE  sent' = sent \/ \E s \in Spans : HandOver(s)
<1>1. ASSUME NEW s \in Spans,
             \/ Begin(s) \/ End(s) \/ EndFinalized(s) \/ Finalize(s) \/ CheckFinalizers(s)
             \/ DeleteState(s) \/ EndTracked(s) \/ FinalizerDone(s) \/ LeaveClient(s)
             \/ CheckDropped(s) \/ SendPayload(s) \/ BuildCompletion(s)
      PROVE  sent' = sent
  BY <1>1 DEF Begin, End, EndFinalized, Finalize, CheckFinalizers, DeleteState, EndTracked,
              FinalizerDone, LeaveClient, CheckDropped, SendPayload, BuildCompletion, outVars
<1>2. ASSUME NEW t \in Traces, NEW drops \in BOOLEAN, EditTrace(t, drops)
      PROVE  sent' = sent
  BY <1>2 DEF EditTrace, outVars
<1>3. CASE WaitBegin \/ WaitEnd \/ UNCHANGED vars
  BY <1>3 DEF WaitBegin, WaitEnd, vars, outVars
<1> QED
  BY <1>1, <1>2, <1>3 DEF Next

(* The completion a root owes is in one place, or was handed over, once;   *)
(* left with a trace state it has a finalizer that will take it            *)
(* (sendTraceCompletion, beginSpanFinalizer).                              *)
THEOREM CompletionIsConserved == Spec => []CompletionConserved
<1>1. IInv => CompletionConserved
  <2> SUFFICES ASSUME IInv PROVE CompletionConserved
    OBVIOUS
  <2>1. ASSUME NEW i \in States, completion[i] # None PROVE pendingFinalizers[i] > 0
    <3>1. completion[i] \in Roots
      BY <2>1 DEF IInv, Typed
    <3> QED
      BY <3>1 DEF IInv, OneStation
  <2>2. ASSUME NEW r \in Roots
        PROVE  Cardinality(Holding(r)) + sent[r] = IF pc[r] \in Early THEN 0 ELSE 1
    <3>0. sent[r] \in {0, 1}
      BY DEF IInv, Typed
    <3>1. CASE sent[r] = 1
      <4>1. Holding(r) = {} /\ pc[r] \notin Early
        BY <3>1 DEF IInv, OneStation, Holding, Carries
      <4> QED
        BY <3>1, <4>1, FS_EmptySet
    <3>2. CASE sent[r] = 0 /\ pc[r] \in Early
      <4>1. Holding(r) = {}
        BY <3>2 DEF IInv, OneStation, Holding, Carries
      <4> QED
        BY <3>2, <4>1, FS_EmptySet
    <3>3. CASE sent[r] = 0 /\ pc[r] \notin Early
      <4>1. CASE \E s \in Spans : Carries(s, r)
        <5>1. PICK s \in Spans : Carries(s, r)
          BY <4>1
        <5>2. /\ \A u \in Spans : Carries(u, r) => u = s
              /\ \A i \in States : completion[i] # r
          BY <5>1 DEF IInv, OneStation
        <5>3. Holding(r) = {s}
          BY <5>1, <5>2 DEF Holding, Carries
        <5> QED
          BY <3>3, <5>3, FS_Singleton
      <4>2. CASE \E i \in States : completion[i] = r
        <5>1. PICK i \in States : completion[i] = r
          BY <4>2
        <5>2. /\ \A j \in States : completion[j] = r => j = i
              /\ \A u \in Spans : ~Carries(u, r)
          BY <5>1 DEF IInv, OneStation
        <5>3. Holding(r) = {i}
          BY <5>1, <5>2 DEF Holding, Carries
        <5>4. Cardinality({i}) = 1
          BY FS_Singleton, Zenon
        <5>5. Cardinality(Holding(r)) = 1
          BY <5>3, <5>4, Zenon
        <5> QED
          BY <3>3, <5>5
      <4> QED
        BY <3>3, <4>1, <4>2 DEF IInv, OneStation
    <3> QED
      BY <3>0, <3>1, <3>2, <3>3
  <2> QED
    BY <2>1, <2>2 DEF CompletionConserved, Early
<1> QED
  BY <1>1, Invariance, PTL

(* Whoever has waited for the finalizers has waited for every one that had *)
(* begun (waitAutoFinalizers).                                             *)
THEOREM FinalizersAreSettled == Spec => []FinalizersSettled
<1>1. IInv => FinalizersSettled
  BY DEF IInv, Waits, Gone, FinalizersSettled
<1> QED
  BY <1>1, Invariance, PTL

(* A completion is handed over after every finalizer of its trace that was *)
(* running when its root was sent (TestSpanFinalize_                       *)
(* RootWaitsForDroppedChildAndMetadata).                                   *)
THEOREM FinalizersComeFirst == Spec => FinalizersFirst
<1>1. ASSUME IInv, [Next]_vars, NEW r \in Roots, sent'[r] > sent[r], NEW c \in before[r]
      PROVE  pc[c] \notin {"finalizing", "sending", "uploading", "ending", "done"}
  <2>0. sent[r] \in {0, 1}
    BY <1>1 DEF IInv, Typed
  <2>1. PICK s \in Spans : HandOver(s)
    BY <1>1, <2>0, Sending
  <2>2. pc[s] = "telling" /\ sent' = [sent EXCEPT ![job[s]] = sent[job[s]] + 1]
    BY <2>1 DEF HandOver
  <2>3. r = job[s]
    BY <1>1, <2>0, <2>2 DEF IInv, Typed
  <2>4. c \in Spans /\ back[c] = "leaving"
    BY <1>1, <2>2, <2>3 DEF IInv, Ready, Typed
  <2> QED
    BY <1>1, <2>4 DEF IInv, Placed, Delivering
<1>2. IInv /\ [Next]_vars =>
        [\A r \in Roots : sent'[r] > sent[r] =>
           \A c \in before[r] : pc[c] \notin {"finalizing", "sending", "uploading", "ending", "done"}]_vars
  BY <1>1
<1> QED
  BY <1>2, Invariance, PTL DEF Spec, FinalizersFirst

(* A span that looked late, while its completion was owed, saw the drop and *)
(* has gone on without its payload; a completion built late says so.       *)
Heeded ==
  /\ builtLate \subseteq flagged /\ lookedLate \subseteq Spans
  /\ \A s \in lookedLate : pc[s] \notin Early /\ s \notin wire
  /\ \A s \in Spans : pc[s] \in Early => s \notin wire

(* While a completion is owed, the state of its trace knows of the drop. *)
LEMMA DropKnown ==
  ASSUME IInv, NEW s \in Spans, pc[s] # "new", TraceOf[s] \in dropAsked, ~Delivered(TraceOf[s])
  PROVE  IsDropped(TraceOf[s])
<1>1. PICK r \in Roots : TraceOf[r] = TraceOf[s] /\ pc[r] # "new"
  BY DEF IInv, Known, Begun
<1>2. sent[r] = 0
  BY <1>1 DEF Delivered, IInv, Typed
<1> QED
  BY <1>1, <1>2 DEF IInv, Current, IsDropped

LEMMA CheckHeeded ==
  ASSUME IInv, Heeded, NEW s \in Spans, CheckDropped(s)
  PROVE  Heeded'
<1>1. /\ pc[s] = "sending" /\ UNCHANGED <<wire, flagged, builtLate>>
      /\ \E l \in {"checking", "ending", "uploading"} : pc' = [pc EXCEPT ![s] = l]
  BY DEF CheckDropped, Onward, Goto, outVars
<1>2. \A u \in Spans : u # s => pc'[u] = pc[u]
  BY <1>1 DEF IInv, Typed
<1>3. CASE TraceOf[s] \in dropAsked /\ ~Delivered(TraceOf[s])
  <2>1. lookedLate' = lookedLate \cup {s} /\ Onward(s)
    BY <1>1, <1>3, DropKnown DEF CheckDropped
  <2>2. pc'[s] \notin Early
    BY <2>1 DEF Onward, Goto, Early, IInv, Typed
  <2> QED
    BY <1>1, <1>2, <2>1, <2>2 DEF Heeded, Early
<1>4. CASE ~(TraceOf[s] \in dropAsked /\ ~Delivered(TraceOf[s]))
  <2>1. lookedLate' = lookedLate
    BY <1>4 DEF CheckDropped
  <2> QED
    BY <1>1, <1>2, <2>1 DEF Heeded, Early
<1> QED
  BY <1>3, <1>4

LEMMA BuildHeeded ==
  ASSUME IInv, Heeded, NEW s \in Spans, BuildCompletion(s)
  PROVE  Heeded'
<1>1. /\ pc[s] = "handing" /\ pc' = [pc EXCEPT ![s] = "telling"]
      /\ UNCHANGED <<wire, lookedLate>>
  BY DEF BuildCompletion, Goto
<1>2. \A u \in Spans : pc'[u] \in Early <=> pc[u] \in Early
  BY <1>1 DEF IInv, Typed, Early
<1>3. builtLate' \subseteq flagged'
  <2>1. CASE TraceOf[s] \in dropAsked
    <3>1. /\ job[s] \in Roots /\ TraceOf[job[s]] = TraceOf[s] /\ sent[job[s]] = 0
          /\ pc[job[s]] # "new" /\ state[TraceOf[s]] # Absent
      BY <1>1, Carrying DEF States, Absent
    <3>2. snapshot[s] = state[TraceOf[s]] /\ dropped[state[TraceOf[s]]] = TRUE
      BY <1>1, <2>1, <3>1 DEF IInv, Ready, Current
    <3>3. flagged' = flagged \cup {TraceOf[s]} /\ builtLate' = builtLate \cup {TraceOf[s]}
      BY <2>1, <3>1, <3>2 DEF BuildCompletion
    <3> QED
      BY <3>3 DEF Heeded
  <2>2. CASE TraceOf[s] \notin dropAsked
    BY <2>2 DEF BuildCompletion, Heeded
  <2> QED
    BY <2>1, <2>2
<1> QED
  BY <1>1, <1>2, <1>3 DEF Heeded

LEMMA StepHeeded ==
  ASSUME IInv, Heeded, [Next]_vars
  PROVE  Heeded'
<1>1. ASSUME UNCHANGED <<wire, flagged, lateVars>>,
             \A u \in Spans : pc'[u] \in Early => pc[u] \in Early
      PROVE  Heeded'
  BY <1>1 DEF Heeded, lateVars
<1>2. ASSUME NEW s \in Spans, NEW l \in Labels, l \in Early => pc[s] \in Early,
             pc' = [pc EXCEPT ![s] = l], UNCHANGED <<wire, flagged, lateVars>>
      PROVE  Heeded'
  <2>1. \A u \in Spans : pc'[u] \in Early => pc[u] \in Early
    BY <1>2 DEF IInv, Typed
  <2> QED
    BY <1>1, <1>2, <2>1
<1>3. ASSUME NEW s \in Spans, Begin(s) \/ End(s) \/ EndFinalized(s) \/ Finalize(s) PROVE Heeded'
  <2>1. /\ pc[s] \in Early /\ UNCHANGED <<wire, flagged, lateVars>>
        /\ \E l \in {"open", "sending", "finalizing"} : pc' = [pc EXCEPT ![s] = l]
    BY <1>3 DEF Begin, End, EndFinalized, Finalize, Goto, outVars, askVars, Early
  <2> QED
    BY <1>2, <2>1 DEF Labels
<1>4. ASSUME NEW s \in Spans, SendPayload(s) PROVE Heeded'
  <2>1. /\ pc[s] = "uploading" /\ wire' = wire \cup {s} /\ UNCHANGED <<flagged, lateVars>>
        /\ \E l \in {"checking", "ending"} : pc' = [pc EXCEPT ![s] = l]
    BY <1>4 DEF SendPayload, Onward, Goto, askVars
  <2>2. /\ pc'[s] \notin Early /\ \A u \in Spans : u # s => pc'[u] = pc[u]
    BY <2>1 DEF IInv, Typed, Early
  <2> QED
    BY <2>1, <2>2 DEF Heeded, lateVars, Early
<1>5. ASSUME NEW s \in Spans, CheckFinalizers(s) \/ DeleteState(s) PROVE Heeded'
  <2>1. UNCHANGED <<wire, flagged, lateVars>>
    BY <1>5 DEF CheckFinalizers, DeleteState, outVars, askVars
  <2>2. pc' = [pc EXCEPT ![s] = back[s]] \/ pc' = [pc EXCEPT ![s] = "handing"]
    BY <1>5 DEF CheckFinalizers, DeleteState, Goto
  <2>3. back[s] \in {"ending", "leaving"}
    BY DEF IInv, Typed
  <2>4. PICK l \in {"ending", "leaving", "handing"} : pc' = [pc EXCEPT ![s] = l]
    BY <2>2, <2>3
  <2> QED
    BY <1>2, <2>1, <2>4 DEF Labels, Early
<1>6. ASSUME NEW s \in Spans,
             HandOver(s) \/ EndTracked(s) \/ FinalizerDone(s) \/ LeaveClient(s)
      PROVE  Heeded'
  <2>1. UNCHANGED <<wire, flagged, lateVars>>
    BY <1>6 DEF HandOver, EndTracked, FinalizerDone, LeaveClient, outVars, askVars
  <2>2. PICK l \in {"deleting", "done", "ended", "leaving", "checking"} :
          pc' = [pc EXCEPT ![s] = l]
    BY <1>6 DEF HandOver, EndTracked, FinalizerDone, LeaveClient, Goto
  <2> QED
    BY <1>2, <2>1, <2>2 DEF Labels, Early
<1>7. ASSUME NEW t \in Traces, NEW drops \in BOOLEAN, EditTrace(t, drops) PROVE Heeded'
  BY <1>1, <1>7 DEF EditTrace, outVars
<1>8. CASE WaitBegin \/ WaitEnd \/ UNCHANGED vars
  BY <1>1, <1>8 DEF WaitBegin, WaitEnd, vars, outVars, askVars
<1> QED
  BY <1>3, <1>4, <1>5, <1>6, <1>7, <1>8, CheckHeeded, BuildHeeded DEF Next

(* Who reads the drop flag of a trace after the drop was asked for acts on *)
(* it: its completion says dropped, and a span is not uploaded; wherever   *)
(* the drop falls between the reads and the sends (TestTraceCompletion_    *)
(* Drop, bitfab.go sendTraceCompletion).                                   *)
THEOREM DropIsHonoured == Spec => []DropHonoured
<1>1. Init => Heeded
  BY DEF Init, Heeded
<1>2. Heeded => DropHonoured
  BY DEF Heeded, DropHonoured
<1> QED
  BY <1>1, <1>2, StepHeeded, Invariance, PTL DEF Spec
=============================================================================
