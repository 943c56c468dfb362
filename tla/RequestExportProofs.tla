------------------------- MODULE RequestExportProofs -------------------------
(***************************************************************************)
(* For any number of requests and workers, any budget and any waits a      *)
(* server may ask for: the types, that a successful export has had every   *)
(* request accepted, that no request is sent with its budget spent, and    *)
(* which requests may be sent while the server is throttling. And, for an  *)
(* export of any number of spans of any size, that its requests are        *)
(* complete, within their limits and of the size that was counted. And,    *)
(* for a payload of any fields, that it loses no more than it must to fit  *)
(* and says so.                                                            *)
(***************************************************************************)
EXTENDS RequestExport, RequestBatches, PayloadBudget, FiniteSetTheorems, WellFoundedInduction,
        SequenceTheorems, TLAPS

(* A request that was handed out has a result or a worker that works on    *)
(* it; nobody works once the export is done.                               *)
Handed ==
  /\ \A w \in Workers : pc[w] # "idle" => job[w] \in Requests
  /\ \A r \in Requests :
       r < next => result[r] # "none" \/ \E w \in Workers : pc[w] # "idle" /\ job[w] = r
  /\ dispatcher = "done" => AllIdle
  /\ answer = "ok" => dispatcher = "done" /\ \A r \in Requests : result[r] = "ok"

(* A request that waits or is about to be sent has budget left for it, and *)
(* one that waits to be retried has an attempt left.                       *)
Timed ==
  \A w \in Workers :
    /\ pc[w] = "backoff" => attempt[w] < MaxAttempts - 1
    /\ pc[w] = "check" => now < deadline[w]
    /\ pc[w] \in {"throttled", "backoff"} => now <= wake[w] /\ wake[w] < deadline[w]
    /\ pc[w] = "sending" => now <= deadline[w]

-----------------------------------------------------------------------------
(* A wait that is affordable ends before the deadline. *)
LEMMA AffordableInTime ==
  ASSUME NEW d \in Nat, NEW n \in Nat, n <= d, NEW wait \in Int, wait < (d - n) \div 2
  PROVE  n + wait < d
<1>1. d - n \in Nat
  OBVIOUS
<1>2. (d - n) \div 2 <= d - n
  BY <1>1
<1> QED
  BY <1>2

(* A backoff is never negative. *)
LEMMA WaitsNatural ==
  ASSUME TypeOK, NEW w \in Workers, NEW after \in RetryAfters \cup {0}, NEW wait \in Waits(w, after)
  PROVE  wait \in Nat
<1>1. CASE after > 0
  BY <1>1, ExportAssumption DEF Waits
<1>2. CASE ~(after > 0)
  <2> DEFINE backoff == Least(Base * 2^attempt[w], Ceiling)
  <2>1. Base * 2^attempt[w] \in Nat
    BY ExportAssumption DEF TypeOK
  <2>2. backoff \in Nat
    BY <2>1, ExportAssumption DEF Least
  <2> HIDE DEF backoff
  <2>3. backoff \div 2 \in Nat
    BY <2>2
  <2>4. wait \in backoff \div 2 .. 2 * (backoff \div 2) - 1
    BY <1>2 DEF Waits, Backoffs, backoff
  <2> QED
    BY <2>3, <2>4
<1> QED
  BY <1>1, <1>2

(* What a worker that finishes, sleeps or goes on leaves well typed.       *)
LEMMA FinishTyped ==
  ASSUME TypeOK, NEW w \in Workers, job[w] \in Requests,
         NEW answered \in {"ok", "error"}, Finish(w, answered)
  PROVE  /\ pc' \in [Workers -> Working \cup {"idle"}]
         /\ job' \in [Workers -> Requests \cup {None}]
         /\ attempt' \in [Workers -> 0..(MaxAttempts - 1)]
         /\ deadline' \in [Workers -> Nat] /\ wake' \in [Workers -> Nat]
         /\ result' \in [Requests -> {"none", "ok", "error"}]
  BY ExportAssumption DEF Finish, Goto, TypeOK

LEMMA SleepTyped ==
  ASSUME TypeOK, NEW w \in Workers, NEW label \in {"throttled", "backoff"},
         NEW until \in Nat, Sleep(w, label, until)
  PROVE  /\ pc' \in [Workers -> Working \cup {"idle"}]
         /\ job' \in [Workers -> Requests \cup {None}]
         /\ attempt' \in [Workers -> 0..(MaxAttempts - 1)]
         /\ deadline' \in [Workers -> Nat] /\ wake' \in [Workers -> Nat]
         /\ result' \in [Requests -> {"none", "ok", "error"}]
  BY DEF Sleep, Goto, TypeOK, Working

-----------------------------------------------------------------------------
(* The three invariants hold at first and are kept by every step. *)
IInv == TypeOK /\ Handed /\ Timed

LEMMA InitIInv == Init => IInv
<1> SUFFICES ASSUME Init PROVE IInv
  OBVIOUS
<1>1. TypeOK
  <2>1. 0 \in 0..(MaxAttempts - 1) /\ 1 \in 1..(N + 1)
    BY ExportAssumption
  <2> QED
    BY <2>1 DEF Init, TypeOK
<1>2. Handed
  BY DEF Init, Handed, Requests, AllIdle
<1>3. Timed
  BY DEF Init, Timed
<1> QED
  BY <1>1, <1>2, <1>3 DEF IInv

(* A worker that finishes its request leaves a result behind. *)
LEMMA FinishKeeps ==
  ASSUME IInv, NEW w \in Workers, pc[w] # "idle",
         NEW answered \in {"ok", "error"}, Finish(w, answered),
         UNCHANGED <<clockVars, mainVars>>, throttledUntil' \in Nat
  PROVE  IInv'
<1>1. job[w] \in Requests /\ dispatcher # "done" /\ answer # "ok"
  BY DEF IInv, Handed, AllIdle
<1>2. TypeOK'
  BY <1>1, FinishTyped DEF IInv, TypeOK, clockVars, mainVars
<1>3. /\ pc' = [pc EXCEPT ![w] = "idle"] /\ job' = [job EXCEPT ![w] = None]
      /\ result' = [result EXCEPT ![job[w]] = answered]
  BY DEF Finish, Goto
<1>4. Handed'
  <2>1. \A v \in Workers : pc'[v] # "idle" => job'[v] \in Requests
    BY <1>3 DEF IInv, Handed, TypeOK
  <2>2. ASSUME NEW r \in Requests, r < next
        PROVE  result'[r] # "none" \/ \E v \in Workers : pc'[v] # "idle" /\ job'[v] = r
    <3>1. CASE r = job[w]
      BY <1>3, <3>1 DEF IInv, TypeOK
    <3>2. CASE r # job[w]
      BY <1>3, <2>2, <3>2 DEF IInv, Handed, TypeOK
    <3> QED
      BY <3>1, <3>2
  <2> QED
    BY <1>1, <2>1, <2>2 DEF Handed, mainVars
<1>5. Timed'
  BY <1>3 DEF Finish, IInv, Timed, TypeOK, clockVars
<1> QED
  BY <1>2, <1>4, <1>5 DEF IInv

(* A worker that goes to sleep keeps its request. *)
LEMMA SleepKeeps ==
  ASSUME IInv, NEW w \in Workers, pc[w] # "idle", NEW label \in {"throttled", "backoff"},
         NEW until \in Nat, now <= until, until < deadline[w], Sleep(w, label, until),
         label = "backoff" => ~LastAttempt(w),
         UNCHANGED <<clockVars, mainVars>>, throttledUntil' \in Nat
  PROVE  IInv'
<1>1. TypeOK'
  BY SleepTyped DEF IInv, TypeOK, clockVars, mainVars
<1>2. /\ pc' = [pc EXCEPT ![w] = label] /\ wake' = [wake EXCEPT ![w] = until]
      /\ UNCHANGED <<job, deadline, result, now>>
  BY DEF Sleep, Goto, clockVars
<1>3. Handed'
  BY <1>2 DEF IInv, Handed, TypeOK, AllIdle, mainVars
<1>4. Timed'
  BY <1>2, ExportAssumption DEF IInv, Timed, TypeOK, Sleep, LastAttempt
<1> QED
  BY <1>1, <1>3, <1>4 DEF IInv

(* A worker that goes on to check or to send keeps its request as well. *)
LEMMA GotoKeeps ==
  ASSUME IInv, NEW w \in Workers, pc[w] # "idle", NEW label \in {"check", "sending"},
         now < deadline[w], Goto(w, label),
         attempt' \in [Workers -> 0..(MaxAttempts - 1)],
         wake' \in [Workers -> Nat],
         \A v \in Workers : v # w => wake'[v] = wake[v] /\ attempt'[v] = attempt[v],
         UNCHANGED <<job, deadline, result>>,
         UNCHANGED <<clockVars, mainVars, throttledUntil>>
  PROVE  IInv'
<1>1. pc' = [pc EXCEPT ![w] = label] /\ now' = now
  BY DEF Goto, clockVars
<1>2. TypeOK'
  BY <1>1 DEF IInv, TypeOK, Working, clockVars, mainVars
<1>3. Handed'
  BY <1>1 DEF IInv, Handed, TypeOK, AllIdle, mainVars
<1>4. Timed'
  BY <1>1 DEF IInv, Timed, TypeOK
<1> QED
  BY <1>2, <1>3, <1>4 DEF IInv

-----------------------------------------------------------------------------
LEMMA DispatchKeeps == ASSUME IInv, NEW w \in Workers, Dispatch(w) PROVE IInv'
<1> USE DEF IInv
<1>1. next \in Requests /\ next' = next + 1 /\ next' \in 1..(N + 1)
  BY ExportAssumption DEF Dispatch, TypeOK, Requests
<1> DEFINE TooLarge == result' = [result EXCEPT ![next] = "error"] /\ UNCHANGED <<pc, jobVars>>
           Handout == /\ pc' = [pc EXCEPT ![w] = "check"] /\ job' = [job EXCEPT ![w] = next]
                      /\ deadline' = [deadline EXCEPT ![w] = now + Budget]
                      /\ UNCHANGED <<attempt, wake, result>>
<1>2. CASE TooLarge
  <2>1. result' = [result EXCEPT ![next] = "error"] /\ UNCHANGED <<pc, jobVars>>
    BY <1>2
  <2>2. TypeOK'
    BY <1>1, <2>1 DEF Dispatch, TypeOK, jobVars, clockVars
  <2>3. Handed'
    BY <1>1, <2>1 DEF Dispatch, TypeOK, Handed, AllIdle, jobVars, Requests
  <2>4. Timed'
    BY <2>1 DEF Dispatch, Timed, jobVars, clockVars
  <2> QED
    BY <2>2, <2>3, <2>4
<1>3. CASE Handout
  <2>1. /\ pc' = [pc EXCEPT ![w] = "check"] /\ job' = [job EXCEPT ![w] = next]
        /\ deadline' = [deadline EXCEPT ![w] = now + Budget]
        /\ UNCHANGED <<attempt, wake, result, now>> /\ pc[w] = "idle"
    BY <1>3 DEF Dispatch, clockVars
  <2>2. TypeOK'
    BY <1>1, <2>1, ExportAssumption DEF Dispatch, TypeOK, Working, clockVars
  <2>3. Handed'
    <3>1. \A v \in Workers : pc'[v] # "idle" => job'[v] \in Requests
      BY <1>1, <2>1 DEF Handed, TypeOK
    <3>2. ASSUME NEW r \in Requests, r < next'
          PROVE  result'[r] # "none" \/ \E v \in Workers : pc'[v] # "idle" /\ job'[v] = r
      <4>1. CASE r = next
        BY <2>1, <4>1 DEF TypeOK
      <4>2. CASE r # next
        <5>1. r < next
          BY <1>1, <3>2, <4>2 DEF Requests
        <5> QED
          BY <2>1, <5>1 DEF Handed, TypeOK
      <4> QED
        BY <4>1, <4>2
    <3> QED
      BY <3>1, <3>2 DEF Dispatch, Handed, clockVars
  <2>4. Timed'
    BY <2>1, ExportAssumption DEF Timed, TypeOK
  <2> QED
    BY <2>2, <2>3, <2>4
<1>4. TooLarge \/ Handout
  BY DEF Dispatch
<1> QED
  BY <1>2, <1>3, <1>4

LEMMA WorkKeeps == ASSUME IInv, NEW w \in Workers, Work(w) PROVE IInv'
<1> USE DEF IInv
<1>0. pc[w] # "idle" => deadline[w] \in Nat /\ now \in Nat /\ throttledUntil \in Nat /\ wake[w] \in Nat
  BY DEF TypeOK
<1>1. CASE CheckThrottle(w)
  <2>1. pc[w] = "check" /\ now < deadline[w] /\ UNCHANGED <<clockVars, mainVars, throttledUntil>>
    BY <1>1 DEF CheckThrottle, Timed
  <2>2. CASE Goto(w, "sending") /\ UNCHANGED <<jobVars, result>>
    BY <2>1, <2>2, GotoKeeps DEF jobVars, TypeOK
  <2>3. CASE Finish(w, "error")
    BY <1>0, <2>1, <2>3, FinishKeeps
  <2>4. CASE /\ throttledUntil - now > 0 /\ Affordable(w, throttledUntil - now)
             /\ Sleep(w, "throttled", throttledUntil)
    <3>1. now + (throttledUntil - now) < deadline[w]
      BY <1>0, <2>1, <2>4, AffordableInTime DEF Affordable
    <3>2. now <= throttledUntil /\ throttledUntil < deadline[w]
      BY <1>0, <2>1, <2>4, <3>1
    <3> QED
      BY <1>0, <2>1, <2>4, <3>2, SleepKeeps
  <2> QED
    BY <1>1, <2>2, <2>3, <2>4 DEF CheckThrottle
<1>2. CASE ThrottleOver(w)
  <2>1. /\ pc[w] = "throttled" /\ now <= wake[w] /\ wake[w] < deadline[w]
        /\ UNCHANGED <<clockVars, mainVars, throttledUntil>>
    BY <1>2 DEF ThrottleOver, Timed
  <2>2. CASE /\ Goto(w, "sending") /\ wake' = [wake EXCEPT ![w] = 0]
             /\ UNCHANGED <<job, attempt, deadline, result>>
    <3>1. now < deadline[w] /\ wake' \in [Workers -> Nat] /\ \A v \in Workers : v # w => wake'[v] = wake[v]
      BY <1>0, <2>1, <2>2 DEF TypeOK
    <3> QED
      BY <2>1, <2>2, <3>1, GotoKeeps DEF TypeOK
  <2>3. CASE Finish(w, "error")
    BY <1>0, <2>1, <2>3, FinishKeeps
  <2> QED
    BY <1>2, <2>2, <2>3 DEF ThrottleOver
<1>3. CASE Accepted(w)
  BY <1>0, <1>3, FinishKeeps DEF Accepted
<1>4. CASE BackoffOver(w)
  <2>1. /\ pc[w] = "backoff" /\ attempt[w] < MaxAttempts - 1 /\ now <= wake[w] /\ wake[w] < deadline[w]
        /\ UNCHANGED <<clockVars, mainVars, throttledUntil>>
    BY <1>4 DEF BackoffOver, Timed
  <2>2. CASE /\ Goto(w, Retry) /\ attempt' = [attempt EXCEPT ![w] = @ + 1]
             /\ wake' = [wake EXCEPT ![w] = 0] /\ UNCHANGED <<job, deadline, result>>
    <3>1. now < deadline[w] /\ wake' \in [Workers -> Nat]
      BY <1>0, <2>1, <2>2 DEF TypeOK
    <3>2. attempt' \in [Workers -> 0..(MaxAttempts - 1)]
      BY <2>1, <2>2, ExportAssumption DEF TypeOK
    <3>3. \A v \in Workers : v # w => wake'[v] = wake[v] /\ attempt'[v] = attempt[v]
      BY <2>2 DEF TypeOK
    <3> QED
      BY <2>1, <2>2, <3>1, <3>2, <3>3, GotoKeeps DEF Retry
  <2>3. CASE Finish(w, "error")
    BY <1>0, <2>1, <2>3, FinishKeeps
  <2> QED
    BY <1>4, <2>2, <2>3 DEF BackoffOver
<1>5. ASSUME NEW after \in RetryAfters \cup {0}, NEW retryable \in BOOLEAN, Refused(w, after, retryable)
      PROVE  IInv'
  <2>1. pc[w] = "sending" /\ now <= deadline[w] /\ UNCHANGED <<clockVars, mainVars>>
    BY <1>5 DEF Refused, Timed
  <2>2. throttledUntil' \in Nat
    BY <1>0, <1>5, <2>1, ExportAssumption DEF Refused, Throttle
  <2>3. CASE Finish(w, "error")
    BY <2>1, <2>2, <2>3, FinishKeeps
  <2>4. ASSUME NEW wait \in Waits(w, after), ~LastAttempt(w), Affordable(w, wait), Sleep(w, "backoff", now + wait)
        PROVE  IInv'
    <3>1. wait \in Nat
      BY WaitsNatural
    <3>2. now + wait < deadline[w]
      BY <1>0, <2>1, <2>4, <3>1, AffordableInTime DEF Affordable
    <3>3. now + wait \in Nat /\ now <= now + wait
      BY <1>0, <2>1, <3>1
    <3> QED
      BY <2>1, <2>2, <2>4, <3>2, <3>3, SleepKeeps
  <2> QED
    BY <1>5, <2>3, <2>4 DEF Refused
<1> QED
  BY <1>1, <1>2, <1>3, <1>4, <1>5 DEF Work

-----------------------------------------------------------------------------
LEMMA NextIInv == IInv /\ [Next]_vars => IInv'
<1> SUFFICES ASSUME IInv, [Next]_vars PROVE IInv'
  OBVIOUS
<1> USE DEF IInv
<1>1. CASE Tick
  <2>1. /\ now' = now + 1 /\ UNCHANGED <<expired, mainVars, pc, jobVars, throttledUntil, result>>
        /\ \A w \in Workers :
             /\ pc[w] # "check"
             /\ pc[w] \in {"throttled", "backoff"} => now < wake[w]
             /\ pc[w] = "sending" => now < deadline[w]
    BY <1>1 DEF Tick
  <2>2. TypeOK'
    BY <2>1 DEF TypeOK, mainVars, jobVars
  <2>3. Handed'
    BY <2>1 DEF Handed, AllIdle, mainVars, jobVars
  <2>4. Timed'
    BY <2>1 DEF Timed, TypeOK, jobVars
  <2> QED
    BY <2>2, <2>3, <2>4
<1>2. CASE Expire
  BY <1>2 DEF Expire, TypeOK, Handed, Timed, AllIdle, mainVars, jobVars
<1>3. CASE CloseNext
  BY <1>3 DEF CloseNext, TypeOK, Handed, Timed, AllIdle, clockVars, jobVars
<1>4. CASE Collect
  <2>1. /\ AllIdle /\ dispatcher' = "done" /\ dispatcher = "collect"
        /\ answer' = IF NoFailure THEN "ok" ELSE "error"
        /\ UNCHANGED <<clockVars, next, pc, jobVars, throttledUntil, result>>
    BY <1>4 DEF Collect
  <2>2. ASSUME NoFailure PROVE \A r \in Requests : result[r] = "ok"
    <3> SUFFICES ASSUME NEW r \in Requests PROVE result[r] = "ok"
      OBVIOUS
    <3>1. r < next /\ result[r] # "error"
      BY <2>2, ExportAssumption DEF NoFailure, Requests, TypeOK
    <3>2. result[r] # "none"
      BY <2>1, <3>1 DEF Handed, AllIdle
    <3> QED
      BY <3>1, <3>2 DEF TypeOK
  <2>3. TypeOK'
    BY <2>1 DEF TypeOK, clockVars, jobVars
  <2>4. Handed'
    BY <2>1, <2>2 DEF Handed, AllIdle, jobVars
  <2>5. Timed'
    BY <2>1 DEF Timed, clockVars, jobVars
  <2> QED
    BY <2>3, <2>4, <2>5
<1>5. CASE \E w \in Workers : Dispatch(w)
  BY <1>5, DispatchKeeps
<1>6. CASE \E w \in Workers : Work(w)
  BY <1>6, WorkKeeps
<1>7. CASE UNCHANGED vars
  BY <1>7 DEF vars, clockVars, mainVars, jobVars, TypeOK, Handed, Timed, AllIdle
<1> QED
  BY <1>1, <1>2, <1>3, <1>4, <1>5, <1>6, <1>7 DEF Next

LEMMA Invariance == Spec => []IInv
<1> QED
  BY InitIInv, NextIInv, PTL DEF Spec

(* Every variable of the export keeps its type: in particular no request   *)
(* has more than MaxAttempts attempts (otel.go sendWithRetries).           *)
THEOREM TypeCorrect == Spec => []TypeOK
<1>1. IInv => TypeOK
  BY DEF IInv
<1> QED
  BY <1>1, Invariance, PTL

(* An export that reports success has had every request of its batch       *)
(* accepted, those no worker had received when ctx was done included       *)
(* (otel.go ExportSpans).                                                  *)
THEOREM SuccessIsAcceptance == Spec => []SuccessMeansAccepted
<1>1. IInv => SuccessMeansAccepted
  BY DEF IInv, Handed, SuccessMeansAccepted
<1> QED
  BY <1>1, Invariance, PTL

(* Whatever waits the server asks for, a request is only sent with budget  *)
(* left, so that its timeout is never the zero that stands for the client's*)
(* own (otel.go retryWait, awaitThrottle; http.go sendPreparedMethod).     *)
THEOREM NeverSentLate == Spec => SentInTime
<1>1. IInv /\ [Next]_vars => [\A w \in Workers : Starts(w) => now < deadline[w]]_vars
  <2> SUFFICES ASSUME IInv, Next, NEW w \in Workers, Starts(w) PROVE now < deadline[w]
    OBVIOUS
  <2> USE DEF IInv, Starts
  <2>1. CASE Tick \/ Expire \/ CloseNext \/ Collect
    BY <2>1 DEF Tick, Expire, CloseNext, Collect
  <2>2. ASSUME NEW v \in Workers, Dispatch(v) PROVE FALSE
    <3>1. pc' = pc \/ pc' = [pc EXCEPT ![v] = "check"]
      BY <2>2 DEF Dispatch
    <3> QED
      BY <3>1 DEF TypeOK
  <2>3. ASSUME NEW v \in Workers, Work(v) PROVE now < deadline[w]
    <3>1. CASE \E answered \in {"ok", "error"} : Finish(v, answered)
      BY <3>1 DEF Finish, Goto, TypeOK
    <3>3. CASE CheckThrottle(v)
      BY <3>1, <3>3 DEF CheckThrottle, Sleep, Goto, Timed, TypeOK
    <3>4. CASE ThrottleOver(v)
      BY <3>1, <3>4 DEF ThrottleOver, Goto, Timed, TypeOK
    <3>5. CASE Accepted(v)
      BY <3>1, <3>5 DEF Accepted
    <3>6. CASE BackoffOver(v)
      BY <3>1, <3>6 DEF BackoffOver, Goto, Retry, TypeOK
    <3>7. ASSUME NEW after \in RetryAfters \cup {0}, NEW retryable \in BOOLEAN,
                 Refused(v, after, retryable)
          PROVE  now < deadline[w]
      BY <3>1, <3>7 DEF Refused, Sleep, Goto, TypeOK
    <3> QED
      BY <2>3, <3>3, <3>4, <3>5, <3>6, <3>7 DEF Work
  <2> QED
    BY <2>1, <2>2, <2>3 DEF Next
<1> QED
  BY <1>1, Invariance, PTL DEF Spec, SentInTime

(* While a throttle is in force, whichever request it came from, only a    *)
(* request that was already waiting for an earlier one is sent: every      *)
(* retry and every new request looks at the throttle first (otel.go        *)
(* awaitThrottle, recordThrottle).                                         *)
THEOREM ThrottleIsShared == Spec => OnlyWaitersOvertake
<1>1. IInv /\ [Next]_vars =>
        [\A w \in Workers : Starts(w) /\ now < throttledUntil => pc[w] = "throttled"]_vars
  <2> SUFFICES ASSUME IInv, Next, NEW w \in Workers, Starts(w), now < throttledUntil
               PROVE  pc[w] = "throttled"
    OBVIOUS
  <2> USE DEF IInv, Starts
  <2>1. CASE Tick \/ Expire \/ CloseNext \/ Collect
    BY <2>1 DEF Tick, Expire, CloseNext, Collect
  <2>2. ASSUME NEW v \in Workers, Dispatch(v) PROVE FALSE
    <3>1. pc' = pc \/ pc' = [pc EXCEPT ![v] = "check"]
      BY <2>2 DEF Dispatch
    <3> QED
      BY <3>1 DEF TypeOK
  <2>3. ASSUME NEW v \in Workers, Work(v) PROVE pc[w] = "throttled"
    <3>1. CASE \E answered \in {"ok", "error"} : Finish(v, answered)
      BY <3>1 DEF Finish, Goto, TypeOK
    <3>3. CASE CheckThrottle(v)
      BY <3>1, <3>3 DEF CheckThrottle, Sleep, Goto, TypeOK
    <3>4. CASE ThrottleOver(v)
      BY <3>1, <3>4 DEF ThrottleOver, Goto, TypeOK
    <3>5. CASE Accepted(v)
      BY <3>1, <3>5 DEF Accepted
    <3>6. CASE BackoffOver(v)
      BY <3>1, <3>6 DEF BackoffOver, Goto, Retry, TypeOK
    <3>7. ASSUME NEW after \in RetryAfters \cup {0}, NEW retryable \in BOOLEAN,
                 Refused(v, after, retryable)
          PROVE  pc[w] = "throttled"
      BY <3>1, <3>7 DEF Refused, Sleep, Goto, TypeOK
    <3> QED
      BY <2>3, <3>3, <3>4, <3>5, <3>6, <3>7 DEF Work
  <2> QED
    BY <2>1, <2>2, <2>3 DEF Next
<1> QED
  BY <1>1, Invariance, PTL DEF Spec, OnlyWaitersOvertake

-----------------------------------------------------------------------------
(* A set of numbers has a least one.                                       *)
LEMMA LeastOf ==
  ASSUME NEW S \in SUBSET Nat, S # {}
  PROVE  \E m \in S : \A k \in S : m <= k
<1> DEFINE R == OpToRel(<, Nat)
<1>1. \E x \in S : \A y \in S : <<y, x>> \notin R
  <2> HIDE DEF R
  <2> QED
    BY NatLessThanWellFounded, WFMin DEF R
<1>2. PICK x \in S : \A y \in S : <<y, x>> \notin R
  BY <1>1
<1>3. \A y \in S : ~(y < x)
  BY <1>2 DEF OpToRel
<1> QED
  BY <1>3

(* Induction, for a set.                                                   *)
LEMMA Inductive ==
  ASSUME NEW n \in Nat, NEW T, 0 \in T, \A i \in 1 .. n : i - 1 \in T => i \in T
  PROVE  \A i \in 0 .. n : i \in T
<1> DEFINE Bad == {i \in 0 .. n : i \notin T}
<1> SUFFICES ASSUME Bad # {} PROVE FALSE
  OBVIOUS
<1>0. Bad \in SUBSET Nat
  OBVIOUS
<1>1. PICK m \in Bad : \A k \in Bad : m <= k
  <2> HIDE DEF Bad
  <2> QED
    BY <1>0, LeastOf
<1>2. m \in 0 .. n /\ m \notin T /\ m # 0
  BY <1>1
<1>3. m - 1 \in 0 .. n /\ m \in 1 .. n
  BY <1>2
<1>4. m - 1 \notin Bad
  BY <1>1, <1>2
<1> QED
  BY <1>2, <1>3, <1>4

(* What a recursive function needs to exist.                               *)
StaysIn(S, step, n) == \A i \in 1 .. n : \A x \in S : step[i][x] \in S
Iteration(f, first, step, n) == f[0] = first /\ \A i \in 1 .. n : f[i] = step[i][f[i - 1]]

LEMMA Iterates ==
  ASSUME NEW n \in Nat, NEW S, NEW first \in S, NEW step, StaysIn(S, step, n)
  PROVE  \E f \in [0 .. n -> S] : Iteration(f, first, step, n)
<1> DEFINE Upto(m) == \E f \in [0 .. m -> S] : Iteration(f, first, step, m)
<1> DEFINE T == {m \in 0 .. n : Upto(m)}
<1>1. 0 \in T
  <2>1. PICK g : g = [i \in 0 .. 0 |-> first]
    OBVIOUS
  <2>2. g \in [0 .. 0 -> S] /\ g[0] = first /\ 1 .. 0 = {}
    <3>1. 0 \in 0 .. 0 /\ 1 .. 0 = {}
      OBVIOUS
    <3> QED
      BY <2>1, <3>1
  <2>3. Upto(0)
    BY <2>2 DEF Iteration
  <2> QED
    BY <2>3
<1>2. ASSUME NEW m \in 1 .. n, m - 1 \in T PROVE m \in T
  <2>1. PICK f \in [0 .. m - 1 -> S] : f[0] = first /\ \A i \in 1 .. m - 1 : f[i] = step[i][f[i - 1]]
    BY <1>2 DEF Iteration
  <2>2. PICK g : g = [i \in 0 .. m |-> IF i = m THEN step[m][f[m - 1]] ELSE f[i]]
    OBVIOUS
  <2>3. f[m - 1] \in S
    <3>1. m - 1 \in 0 .. m - 1
      OBVIOUS
    <3> QED
      BY <3>1
  <2>4. g \in [0 .. m -> S]
    <3>1. \A i \in 0 .. m : i # m => i \in 0 .. m - 1
      OBVIOUS
    <3>2. step[m][f[m - 1]] \in S
      BY <2>3 DEF StaysIn
    <3> QED
      BY <2>2, <2>3, <3>1, <3>2
  <2>5. g[m] = step[m][f[m - 1]] /\ \A i \in 0 .. m - 1 : g[i] = f[i]
    BY <2>2
  <2>6. ASSUME NEW i \in 1 .. m PROVE g[i] = step[i][g[i - 1]]
    <3>1. i - 1 \in 0 .. m - 1 /\ (i # m => i \in 1 .. m - 1 /\ i \in 0 .. m - 1)
      OBVIOUS
    <3>2. g[i - 1] = f[i - 1]
      BY <2>5, <3>1
    <3> QED
      BY <2>1, <2>5, <3>1, <3>2
  <2>7. g[0] = first
    <3>1. 0 \in 0 .. m - 1
      OBVIOUS
    <3> QED
      BY <2>1, <2>5, <3>1
  <2>8. Upto(m)
    BY <2>4, <2>6, <2>7 DEF Iteration
  <2> QED
    BY <2>8
<1>3. n \in T
  <2> HIDE DEF T
  <2> QED
    BY <1>1, <1>2, Inductive
<1> QED
  BY <1>3

-----------------------------------------------------------------------------
(* How the spans of an export become requests: RequestBatches.             *)
Batch == [from : Nat, to : Nat, size : Nat]
Packing == [closed : Seq(Batch), current : Batch]

Exported == spans \in Exports

(* What the assumption says of the spans of one export.                    *)
LEMMA SpanSizes ==
  ASSUME Exported
  PROVE  /\ Len(spans) \in Nat \ {0} /\ DOMAIN spans = 1 .. Len(spans)
         /\ \A i \in 1 .. Len(spans) : spans[i] \in Sized /\ spans[i].size \in Nat
         /\ Envelope \in Nat /\ Separator \in Nat /\ MaxSpans \in Nat \ {0}
         /\ MaxBytes \in Nat /\ MaxRaw \in Nat /\ MaxBytes <= MaxRaw
<1>1. \A i \in 1 .. Len(spans) : spans[i] \in Sized
  BY BatchesAssumption DEF Exported
<1>2. \A i \in 1 .. Len(spans) : spans[i].size \in Nat
  BY <1>1 DEF Sized
<1> QED
  BY <1>1, <1>2, BatchesAssumption DEF Exported

(* The sum of sizes that the size of a request is a difference of.         *)
LEMMA BytesSum ==
  ASSUME Exported
  PROVE  /\ \A i \in 0 .. Len(spans) : Bytes[i] \in Nat
         /\ Bytes[0] = 0
         /\ \A i \in 1 .. Len(spans) : Bytes[i] = Bytes[i - 1] + spans[i].size + Separator
<1> DEFINE n == Len(spans)
<1>1. n \in Nat /\ Separator \in Nat /\ \A i \in 1 .. n : spans[i].size \in Nat
  BY SpanSizes
<1> HIDE DEF n
<1>2. PICK step : step = [i \in 1 .. n |-> [x \in Nat |-> x + spans[i].size + Separator]]
  OBVIOUS
<1>3. ASSUME NEW i \in 1 .. n, NEW x \in Nat
      PROVE  step[i][x] = x + spans[i].size + Separator /\ step[i][x] \in Nat
  <2>1. step[i] = [y \in Nat |-> y + spans[i].size + Separator]
    BY <1>2
  <2>2. step[i][x] = x + spans[i].size + Separator
    BY <2>1
  <2> QED
    BY <1>1, <2>2
<1>4. PICK f \in [0 .. n -> Nat] : f[0] = 0 /\ \A i \in 1 .. n : f[i] = step[i][f[i - 1]]
  <2>1. PICK S : S = Nat
    OBVIOUS
  <2>2. 0 \in S /\ \A i \in 1 .. n : \A x \in S : step[i][x] \in S
    BY <1>3, <2>1
  <2>3. PICK first : first = 0
    OBVIOUS
  <2>4. \E f \in [0 .. n -> S] : f[0] = first /\ \A i \in 1 .. n : f[i] = step[i][f[i - 1]]
    <3>1. n \in Nat /\ first \in S /\ StaysIn(S, step, n)
      BY <1>1, <2>2, <2>3 DEF StaysIn
    <3>2. \E f \in [0 .. n -> S] : Iteration(f, first, step, n)
      BY <3>1, Iterates
    <3> QED
      BY <3>2 DEF Iteration
  <2> QED
    BY <2>1, <2>3, <2>4
<1>5. \A i \in 1 .. n : f[i] = f[i - 1] + spans[i].size + Separator
  <2>1. \A i \in 1 .. n : i - 1 \in 0 .. n
    BY <1>1
  <2> QED
    BY <1>3, <1>4, <2>1
<1>6. f = [i \in 0 .. n |-> IF i = 0 THEN 0 ELSE f[i - 1] + spans[i].size + Separator]
  <2>1. \A i \in 0 .. n : i # 0 => i \in 1 .. n
    BY <1>1
  <2> QED
    BY <1>4, <1>5, <2>1
<1>7. Bytes = [i \in 0 .. n |-> IF i = 0 THEN 0 ELSE Bytes[i - 1] + spans[i].size + Separator]
  BY <1>6 DEF Bytes, n
<1>8. Bytes[0] = 0 /\ \A i \in 1 .. n : Bytes[i] = Bytes[i - 1] + spans[i].size + Separator
  <2>1. 0 \in 0 .. n /\ \A i \in 1 .. n : i \in 0 .. n /\ i # 0
    BY <1>1
  <2>2. PICK g : g = Bytes
    OBVIOUS
  <2>3. g = [i \in 0 .. n |-> IF i = 0 THEN 0 ELSE g[i - 1] + spans[i].size + Separator]
    BY <1>7, <2>2
  <2> QED
    BY <2>1, <2>2, <2>3
<1> DEFINE T == {i \in 0 .. n : Bytes[i] \in Nat}
<1>9. 0 \in T /\ \A i \in 1 .. n : i - 1 \in T => i \in T
  <2>1. 0 \in T
    BY <1>1, <1>8
  <2>2. ASSUME NEW i \in 1 .. n, i - 1 \in T PROVE i \in T
    <3>1. PICK a : a = Bytes[i - 1]
      OBVIOUS
    <3>2. Bytes[i] = a + spans[i].size + Separator /\ a \in Nat
      BY <1>8, <2>2, <3>1
    <3>3. i \in 0 .. n /\ a + spans[i].size + Separator \in Nat
      BY <1>1, <3>2
    <3> QED
      BY <3>2, <3>3
  <2> QED
    BY <2>1, <2>2
<1>10. \A i \in 0 .. n : i \in T
  <2> HIDE DEF T
  <2> QED
    BY <1>1, <1>9, Inductive
<1> QED
  BY <1>8, <1>10 DEF n

(* Adding a span keeps the shape of what is packed.                        *)
LEMMA Sizes ==
  ASSUME Exported, NEW batch \in Batch, NEW i \in 1 .. Len(spans)
  PROVE  /\ batch.from \in Nat /\ batch.to \in Nat /\ batch.size \in Nat
         /\ Addition(batch, spans[i]) \in Nat
         /\ With(batch, spans[i]).from = batch.from
         /\ With(batch, spans[i]).to = batch.to + 1
         /\ With(batch, spans[i]).size = batch.size + Addition(batch, spans[i])
         /\ With(batch, spans[i]) \in Batch
<1>1. batch.from \in Nat /\ batch.to \in Nat /\ batch.size \in Nat
  BY DEF Batch
<1>2. Addition(batch, spans[i]) \in Nat
  BY SpanSizes, <1>1 DEF Addition
<1>3. PICK a : a = Addition(batch, spans[i])
  OBVIOUS
<1>4. PICK longer : longer = With(batch, spans[i])
  OBVIOUS
<1>5. longer = [batch EXCEPT !.to = batch.to + 1, !.size = batch.size + a]
  BY <1>3, <1>4 DEF With, Batch
<1>6. PICK to, size : to = batch.to + 1 /\ size = batch.size + a
  OBVIOUS
<1>7. to \in Nat /\ size \in Nat
  BY <1>1, <1>2, <1>3, <1>6
<1>8. longer \in Batch /\ longer.from = batch.from /\ longer.to = to /\ longer.size = size
  <2>1. longer = [batch EXCEPT !.to = to, !.size = size]
    BY <1>5, <1>6
  <2> QED
    BY <1>7, <2>1 DEF Batch
<1> QED
  BY <1>1, <1>2, <1>3, <1>4, <1>6, <1>8

LEMMA EmptyIsBatch ==
  ASSUME Exported, NEW i \in Nat \ {0}
  PROVE  Empty(i) \in Batch /\ Empty(i).from = i /\ Empty(i).to = i - 1 /\ Empty(i).size = Envelope
BY SpanSizes DEF Empty, Batch

LEMMA AddStays ==
  ASSUME Exported, NEW packed \in Packing, NEW i \in 1 .. Len(spans)
  PROVE  Add(packed, i) \in Packing
<1>1. packed.closed \in Seq(Batch) /\ packed.current \in Batch
  BY DEF Packing
<1>2. Empty(i) \in Batch
  <2>1. i \in Nat \ {0}
    BY SpanSizes
  <2> QED
    BY <2>1, EmptyIsBatch
<1>3. With(packed.current, spans[i]) \in Batch /\ With(Empty(i), spans[i]) \in Batch
  BY <1>1, <1>2, Sizes
<1>4. Append(packed.closed, packed.current) \in Seq(Batch)
  BY <1>1
<1> HIDE DEF Batch
<1> QED
  BY <1>1, <1>3, <1>4 DEF Add, Packing

(* The packing that exists is the one that is built span by span.          *)
LEMMA PackedGrows ==
  ASSUME Exported
  PROVE  /\ Packed[0] = [closed |-> <<>>, current |-> Empty(1)]
         /\ \A i \in 0 .. Len(spans) : Packed[i] \in Packing
         /\ \A i \in 1 .. Len(spans) : Packed[i] = Add(Packed[i - 1], i)
<1> DEFINE n == Len(spans)
           first == [closed |-> <<>>, current |-> Empty(1)]
<1>1. n \in Nat
  BY SpanSizes
<1>2. first \in Packing
  BY EmptyIsBatch DEF Packing
<1>3. PICK step : step = [i \in 1 .. n |-> [x \in Packing |-> Add(x, i)]]
  OBVIOUS
<1> HIDE DEF n, first
<1>4. \A i \in 1 .. n : \A x \in Packing : step[i][x] = Add(x, i)
  BY <1>3, Zenon
<1>5. StaysIn(Packing, step, n)
  BY <1>4, AddStays DEF StaysIn, n
<1>6. PICK f \in [0 .. n -> Packing] : Iteration(f, first, step, n)
  BY <1>1, <1>2, <1>5, Iterates
<1>7. f[0] = first /\ \A i \in 1 .. n : f[i] = Add(f[i - 1], i)
  <2>1. \A i \in 1 .. n : i - 1 \in 0 .. n
    BY <1>1
  <2>2. \A i \in 1 .. n : f[i - 1] \in Packing
    BY <1>6, <2>1
  <2> QED
    BY <1>4, <1>6, <2>2 DEF Iteration
<1>8. f = [i \in 0 .. n |-> IF i = 0 THEN first ELSE Add(f[i - 1], i)]
  <2>1. \A i \in 0 .. n : i # 0 => i \in 1 .. n
    BY <1>1
  <2> QED
    BY <1>6, <1>7, <2>1
<1>9. Packed = [i \in 0 .. n |-> IF i = 0 THEN first ELSE Add(Packed[i - 1], i)]
  BY <1>8 DEF Packed, n, first
<1>10. Packed[0] = first /\ \A i \in 1 .. n : Packed[i] = Add(Packed[i - 1], i)
  <2>1. 0 \in 0 .. n /\ \A i \in 1 .. n : i \in 0 .. n /\ i # 0
    BY <1>1
  <2>2. PICK g : g = Packed
    OBVIOUS
  <2>3. g = [i \in 0 .. n |-> IF i = 0 THEN first ELSE Add(g[i - 1], i)]
    BY <1>9, <2>2
  <2> QED
    BY <2>1, <2>2, <2>3
<1> DEFINE T == {i \in 0 .. n : Packed[i] \in Packing}
<1>11. 0 \in T /\ \A i \in 1 .. n : i - 1 \in T => i \in T
  <2>1. 0 \in T
    BY <1>1, <1>2, <1>10
  <2>2. ASSUME NEW i \in 1 .. n, i - 1 \in T PROVE i \in T
    <3>1. Add(Packed[i - 1], i) \in Packing
      BY <2>2, AddStays DEF n
    <3>2. i \in 0 .. n
      BY <1>1
    <3> QED
      BY <1>10, <3>1, <3>2
  <2> QED
    BY <2>1, <2>2
<1>12. \A i \in 0 .. n : i \in T
  <2> HIDE DEF T
  <2> QED
    BY <1>1, <1>11, Inductive
<1> QED
  BY <1>10, <1>12 DEF n, first

(* A request that may be built: its size is the one counted for its spans,  *)
(* and within the limit unless it has a single one; and one that is closed. *)
Fair(batch) ==
  /\ batch \in Batch
  /\ batch.from >= 1 /\ batch.to >= batch.from /\ batch.to <= Len(spans)
  /\ batch.to - batch.from < MaxSpans
  /\ batch.size = RequestSize(batch.from, batch.to)
  /\ batch.size <= MaxBytes \/ Alone(batch)
Filled(batch) ==
  \/ batch.to - batch.from + 1 = MaxSpans
  \/ RequestSize(batch.from, batch.to + 1) > MaxBytes

(* Requests that pack the first i spans.                                   *)
Packs(all, i) ==
  /\ all \in Seq(Batch) /\ all # <<>>
  /\ all[1].from = 1 /\ all[Len(all)].to = i
  /\ \A j \in 1 .. Len(all) : Fair(all[j])
  /\ \A j \in 2 .. Len(all) : all[j].from = all[j - 1].to + 1
  /\ \A j \in 1 .. Len(all) - 1 : Filled(all[j])

(* The size counted for a request is its size once a span is added.        *)
LEMMA OneMore ==
  ASSUME Exported, NEW batch, Fair(batch), NEW i \in 1 .. Len(spans), i = batch.to + 1
  PROVE  /\ RequestSize(batch.from, i) = batch.size + Addition(batch, spans[i])
         /\ batch.size + Addition(batch, spans[i]) \in Int
<1>1. batch \in Batch /\ batch.to >= batch.from /\ batch.from >= 1 /\ batch.to <= Len(spans)
      /\ batch.size = RequestSize(batch.from, batch.to)
  BY DEF Fair
<1>2. batch.from \in Nat /\ batch.to \in Nat /\ batch.size \in Nat
  BY <1>1, Sizes
<1>3. Addition(batch, spans[i]) = spans[i].size + Separator
  BY <1>1 DEF Addition
<1>4. i - 1 = batch.to /\ batch.to \in 0 .. Len(spans) /\ batch.from - 1 \in 0 .. Len(spans)
  BY <1>1, <1>2, SpanSizes
<1>5. PICK to, low, high : to = Bytes[batch.to] /\ low = Bytes[batch.from - 1] /\ high = Bytes[i]
  OBVIOUS
<1>6. to \in Nat /\ low \in Nat /\ high = to + spans[i].size + Separator
  BY <1>4, <1>5, BytesSum
<1>7. batch.size = Envelope + (to - low) - Separator
      /\ RequestSize(batch.from, i) = Envelope + (high - low) - Separator
  BY <1>1, <1>5 DEF RequestSize
<1>8. PICK added : added = spans[i].size
  OBVIOUS
<1>9. added \in Nat /\ Envelope \in Nat /\ Separator \in Nat
  BY <1>8, SpanSizes
<1>10. Envelope + (high - low) - Separator = Envelope + (to - low) - Separator + (added + Separator)
  <2>1. to \in Nat /\ low \in Nat /\ high = to + added + Separator
    BY <1>6, <1>8
  <2> QED
    BY ONLY <2>1, <1>9
<1> QED
  BY <1>2, <1>3, <1>7, <1>8, <1>9, <1>10

(* A request that begins with a span has that span alone.                  *)
LEMMA StartsAlone ==
  ASSUME Exported, NEW i \in 1 .. Len(spans)
  PROVE  LET batch == With(Empty(i), spans[i])
         IN  Fair(batch) /\ batch.from = i /\ batch.to = i
<1>1. i \in Nat \ {0} /\ i \in Nat /\ i <= Len(spans) /\ i - 1 \in 0 .. Len(spans)
  BY SpanSizes
<1>2. PICK empty : empty = Empty(i)
  OBVIOUS
<1>3. empty \in Batch /\ empty.from = i /\ empty.to = i - 1 /\ empty.size = Envelope
  BY <1>1, <1>2, EmptyIsBatch
<1>4. Addition(empty, spans[i]) = spans[i].size
  <2>1. ~(empty.to >= empty.from)
    BY <1>1, <1>3
  <2>2. spans[i].size + 0 = spans[i].size
    BY SpanSizes
  <2> QED
    BY <2>1, <2>2 DEF Addition
<1>5. PICK batch : batch = With(empty, spans[i])
  OBVIOUS
<1>6. batch \in Batch /\ batch.from = empty.from /\ batch.to = empty.to + 1
      /\ batch.size = empty.size + spans[i].size
  BY <1>3, <1>4, <1>5, Sizes
<1>7. batch.from = i /\ batch.to = i /\ batch.size = Envelope + spans[i].size
  BY <1>1, <1>3, <1>6
<1>8. RequestSize(i, i) = Envelope + spans[i].size
  <2>1. PICK low, high : low = Bytes[i - 1] /\ high = Bytes[i]
    OBVIOUS
  <2>2. low \in Nat /\ high = low + spans[i].size + Separator
    BY <1>1, <2>1, BytesSum
  <2>3. RequestSize(i, i) = Envelope + (high - low) - Separator
    BY <2>1 DEF RequestSize
  <2> QED
    BY <2>2, <2>3, SpanSizes
<1>9. Fair(batch)
  BY <1>1, <1>6, <1>7, <1>8, SpanSizes DEF Fair, Alone
<1> QED
  BY <1>2, <1>5, <1>7, <1>9

(* A span that does not fit closes the request.                            *)
LEMMA FullIsFilled ==
  ASSUME Exported, NEW batch, Fair(batch), NEW i \in 1 .. Len(spans), i = batch.to + 1
  PROVE  /\ Full(batch, spans[i]) => Filled(batch)
         /\ ~Full(batch, spans[i]) => Fair(With(batch, spans[i]))
<1>1. batch \in Batch /\ batch.to >= batch.from /\ batch.from >= 1 /\ batch.to <= Len(spans)
      /\ batch.to - batch.from < MaxSpans
  BY DEF Fair
<1>2. batch.from \in Nat /\ batch.to \in Nat /\ batch.size \in Nat
  BY <1>1, Sizes
<1>3. PICK more : more = batch.size + Addition(batch, spans[i])
  OBVIOUS
<1>4. more = RequestSize(batch.from, i) /\ more \in Int
  BY <1>3, OneMore
<1>5. CASE Full(batch, spans[i])
  <2>1. batch.to - batch.from + 1 >= MaxSpans \/ more > MaxBytes
    BY <1>3, <1>5 DEF Full
  <2>2. batch.to - batch.from + 1 = MaxSpans \/ more > MaxBytes
    BY <1>1, <1>2, <2>1, SpanSizes
  <2> QED
    BY <1>4, <1>5, <2>2 DEF Filled
<1>6. CASE ~Full(batch, spans[i])
  <2>1. ~(batch.to - batch.from + 1 >= MaxSpans) /\ ~(more > MaxBytes)
    BY <1>1, <1>3, <1>6 DEF Full
  <2>2. i - batch.from < MaxSpans /\ more <= MaxBytes /\ i >= batch.from /\ i <= Len(spans)
    BY <1>1, <1>2, <1>4, <2>1, SpanSizes
  <2>3. PICK longer : longer = With(batch, spans[i])
    OBVIOUS
  <2>4. longer \in Batch
    BY <1>1, <2>3, Sizes
  <2>5. longer.from = batch.from /\ longer.to = i /\ longer.size = more
    BY <1>1, <1>3, <2>3, Sizes
  <2>6. Fair(longer)
    BY <1>1, <1>4, <2>2, <2>4, <2>5 DEF Fair
  <2> QED
    BY <1>6, <2>3, <2>6
<1> QED
  BY <1>5, <1>6

(* Requests that pack some spans still do when the last one takes more.    *)
LEMMA PacksMore ==
  ASSUME Exported, NEW closed \in Seq(Batch), NEW current, NEW batch, NEW i \in Nat, NEW last,
         Packs(Append(closed, current), last),
         Fair(batch), batch.to = i, batch.from = current.from
  PROVE  Packs(Append(closed, batch), i)
<1>1. batch \in Batch
  BY DEF Fair
<1>2. PICK old, new : old = Append(closed, current) /\ new = Append(closed, batch)
  OBVIOUS
<1>3. Len(closed) \in Nat /\ Len(old) = Len(closed) + 1 /\ Len(new) = Len(closed) + 1
  BY <1>2
<1>4. /\ old[Len(closed) + 1] = current /\ new[Len(closed) + 1] = batch
      /\ \A j \in 1 .. Len(closed) : old[j] = closed[j] /\ new[j] = old[j]
  BY <1>2
<1>5. Packs(old, last)
  BY <1>2
<1>6. new \in Seq(Batch) /\ new # <<>>
  BY <1>1, <1>2
<1>7. new[1].from = 1
  <2>1. old[1].from = 1
    BY <1>5 DEF Packs
  <2>2. CASE Len(closed) = 0
    BY <1>4, <2>1, <2>2
  <2>3. CASE Len(closed) # 0
    <3>1. 1 \in 1 .. Len(closed)
      BY <1>3, <2>3
    <3> QED
      BY <1>4, <2>1, <3>1
  <2> QED
    BY <2>2, <2>3
<1>8. new[Len(new)].to = i
  BY <1>3, <1>4
<1>9. ASSUME NEW j \in 1 .. Len(new) PROVE Fair(new[j])
  <2>1. CASE j = Len(closed) + 1
    BY <1>4, <2>1
  <2>2. CASE j # Len(closed) + 1
    <3>1. j \in 1 .. Len(closed) /\ j \in 1 .. Len(old)
      BY <1>3, <2>2
    <3>2. Fair(old[j])
      BY <1>5, <3>1 DEF Packs
    <3> QED
      BY <1>4, <3>1, <3>2
  <2> QED
    BY <2>1, <2>2
<1>10. ASSUME NEW j \in 2 .. Len(new) PROVE new[j].from = new[j - 1].to + 1
  <2>1. j \in 2 .. Len(old) /\ j - 1 \in 1 .. Len(closed)
    BY <1>3
  <2>2. old[j].from = old[j - 1].to + 1
    BY <1>5, <2>1 DEF Packs
  <2>3. new[j - 1] = old[j - 1]
    BY <1>4, <2>1
  <2>4. CASE j = Len(closed) + 1
    BY <1>4, <2>2, <2>3, <2>4
  <2>5. CASE j # Len(closed) + 1
    <3>1. j \in 1 .. Len(closed)
      BY <1>3, <2>5
    <3> QED
      BY <1>4, <2>2, <2>3, <3>1
  <2> QED
    BY <2>4, <2>5
<1>11. ASSUME NEW j \in 1 .. Len(new) - 1 PROVE Filled(new[j])
  <2>1. j \in 1 .. Len(old) - 1 /\ j \in 1 .. Len(closed)
    BY <1>3
  <2>2. Filled(old[j])
    BY <1>5, <2>1 DEF Packs
  <2> QED
    BY <1>4, <2>1, <2>2
<1>12. Packs(new, i)
  BY <1>6, <1>7, <1>8, <1>9, <1>10, <1>11 DEF Packs
<1> QED
  BY <1>2, <1>12

(* A closed request is followed by one that begins with the longer span.     *)
LEMMA PacksAnother ==
  ASSUME Exported, NEW all, NEW i \in Nat, Packs(all, i - 1), Filled(all[Len(all)]),
         NEW batch, Fair(batch), batch.from = i, batch.to = i
  PROVE  Packs(Append(all, batch), i)
<1>1. batch \in Batch /\ all \in Seq(Batch) /\ all # <<>>
  BY DEF Fair, Packs
<1>2. PICK new : new = Append(all, batch)
  OBVIOUS
<1>3. Len(all) \in Nat /\ Len(all) > 0 /\ Len(new) = Len(all) + 1
  BY <1>1, <1>2
<1>4. new[Len(all) + 1] = batch /\ \A j \in 1 .. Len(all) : new[j] = all[j]
  BY <1>1, <1>2
<1>5. new \in Seq(Batch) /\ new # <<>>
  BY <1>1, <1>2
<1>6. new[1].from = 1 /\ new[Len(new)].to = i
  <2>1. 1 \in 1 .. Len(all)
    BY <1>3
  <2>2. new[1] = all[1] /\ new[Len(new)] = batch
    BY <1>3, <1>4, <2>1
  <2> QED
    BY <2>2 DEF Packs
<1>7. ASSUME NEW j \in 1 .. Len(new) PROVE Fair(new[j])
  <2>1. CASE j = Len(all) + 1
    BY <1>4, <2>1
  <2>2. CASE j # Len(all) + 1
    <3>1. j \in 1 .. Len(all)
      BY <1>3, <2>2
    <3>2. Fair(all[j])
      BY <3>1 DEF Packs
    <3> QED
      BY <1>4, <3>1, <3>2
  <2> QED
    BY <2>1, <2>2
<1>8. ASSUME NEW j \in 2 .. Len(new) PROVE new[j].from = new[j - 1].to + 1
  <2>1. j - 1 \in 1 .. Len(all)
    BY <1>3
  <2>2. new[j - 1] = all[j - 1]
    BY <1>4, <2>1
  <2>3. CASE j = Len(all) + 1
    <3>1. all[Len(all)].to = i - 1 /\ j - 1 = Len(all) /\ i - 1 + 1 = i
      BY <1>3, <2>3 DEF Packs
    <3> QED
      BY <1>4, <2>2, <2>3, <3>1
  <2>4. CASE j # Len(all) + 1
    <3>1. j \in 2 .. Len(all) /\ j \in 1 .. Len(all)
      BY <1>3, <2>4
    <3>2. all[j].from = all[j - 1].to + 1
      BY <3>1 DEF Packs
    <3> QED
      BY <1>4, <2>2, <3>1, <3>2
  <2> QED
    BY <2>3, <2>4
<1>9. ASSUME NEW j \in 1 .. Len(new) - 1 PROVE Filled(new[j])
  <2>1. j \in 1 .. Len(all)
    BY <1>3
  <2>2. CASE j = Len(all)
    BY <1>4, <2>1, <2>2
  <2>3. CASE j # Len(all)
    <3>1. j \in 1 .. Len(all) - 1
      BY <1>3, <2>1, <2>3
    <3>2. Filled(all[j])
      BY <3>1 DEF Packs
    <3> QED
      BY <1>4, <2>1, <3>2
  <2> QED
    BY <2>2, <2>3
<1>10. Packs(new, i)
  BY <1>5, <1>6, <1>7, <1>8, <1>9 DEF Packs
<1> QED
  BY <1>2, <1>10

LEMMA PacksFirst ==
  ASSUME Exported, NEW batch, Fair(batch), batch.from = 1, batch.to = 1
  PROVE  Packs(Append(<<>>, batch), 1)
<1>1. PICK all : all = Append(<<>>, batch)
  OBVIOUS
<1>2. batch \in Batch
  BY DEF Fair
<1>3. all \in Seq(Batch) /\ all # <<>> /\ Len(all) = 1 /\ all[1] = batch
  BY <1>1, <1>2
<1>4. 1 .. Len(all) = {1} /\ 2 .. Len(all) = {} /\ 1 .. Len(all) - 1 = {}
  BY <1>3
<1>5. Packs(all, 1)
  BY <1>3, <1>4 DEF Packs
<1> QED
  BY <1>1, <1>5

(* What is packed so far, the request under construction included.         *)
Assembled(packed) == Append(packed.closed, packed.current)

LEMMA PackedPacks ==
  ASSUME Exported
  PROVE  \A i \in 1 .. Len(spans) : Packs(Assembled(Packed[i]), i)
<1> DEFINE n == Len(spans)
           T == {i \in 0 .. n : i > 0 => Packs(Assembled(Packed[i]), i)}
<1>1. n \in Nat
  BY SpanSizes
<1>2. 0 \in T
  BY <1>1
<1>3. ASSUME NEW i \in 1 .. n, i - 1 \in T PROVE i \in T
  <2>1. i \in Nat /\ i > 0 /\ i \in 0 .. n /\ i - 1 \in 0 .. n
    BY <1>1
  <2>2. PICK packed, longer : packed = Packed[i - 1] /\ longer = Packed[i]
    OBVIOUS
  <2>3. packed \in Packing /\ longer = Add(packed, i)
    BY <2>1, <2>2, PackedGrows
  <2>4. PICK closed, current, fresh, grown :
          /\ closed = packed.closed /\ current = packed.current
          /\ fresh = With(Empty(i), spans[i]) /\ grown = With(current, spans[i])
    OBVIOUS
  <2>5. closed \in Seq(Batch) /\ current \in Batch
    BY <2>3, <2>4 DEF Packing
  <2>6. Full(current, spans[i]) => longer.closed = Append(closed, current) /\ longer.current = fresh
    BY <2>3, <2>4 DEF Add
  <2>7. ~Full(current, spans[i]) => longer.closed = closed /\ longer.current = grown
    BY <2>3, <2>4 DEF Add
  <2>8. Fair(fresh) /\ fresh.from = i /\ fresh.to = i
    BY <2>4, StartsAlone
  <2>9. CASE i = 1
    <3>1. closed = <<>> /\ current = Empty(1)
      BY <2>2, <2>4, <2>9, PackedGrows
    <3>2. current.from = 1 /\ current.to = 0
      <4>1. 1 \in Nat \ {0}
        OBVIOUS
      <4> QED
        BY <3>1, <4>1, EmptyIsBatch
    <3>3. ~Full(current, spans[i])
      BY <3>2 DEF Full
    <3>4. grown = fresh
      BY <2>4, <2>9, <3>1
    <3>5. Packs(Append(<<>>, fresh), 1)
      BY <2>8, <2>9, PacksFirst
    <3>6. Packs(Assembled(longer), i)
      BY <2>7, <2>9, <3>1, <3>3, <3>4, <3>5 DEF Assembled
    <3> QED
      BY <2>1, <2>2, <3>6
  <2>10. CASE i # 1
    <3>1. i - 1 > 0
      BY <2>1, <2>10
    <3>2. PICK all : all = Append(closed, current)
      OBVIOUS
    <3>3. Packs(all, i - 1)
      BY <1>3, <2>2, <2>4, <3>1, <3>2 DEF Assembled
    <3>4. all[Len(all)] = current /\ Len(all) \in 1 .. Len(all)
      BY <2>5, <3>2
    <3>5. Fair(current) /\ current.to = i - 1 /\ i = current.to + 1
      BY <2>1, <3>3, <3>4 DEF Packs
    <3>6. CASE Full(current, spans[i])
      <4>1. Filled(all[Len(all)])
        BY <3>4, <3>5, <3>6, FullIsFilled
      <4>2. Packs(Append(all, fresh), i)
        BY <2>1, <2>8, <3>3, <4>1, PacksAnother
      <4>3. Packs(Assembled(longer), i)
        BY <2>6, <3>2, <3>6, <4>2 DEF Assembled
      <4> QED
        BY <2>1, <2>2, <4>3
    <3>7. CASE ~Full(current, spans[i])
      <4>1. Fair(grown)
        BY <2>4, <3>5, <3>7, FullIsFilled
      <4>2. grown.from = current.from /\ grown.to = i
        BY <2>4, <2>5, <3>5, Sizes
      <4>3. Packs(Append(closed, grown), i)
        BY <2>1, <2>5, <3>2, <3>3, <4>1, <4>2, PacksMore
      <4>4. Packs(Assembled(longer), i)
        BY <2>7, <3>7, <4>3 DEF Assembled
      <4> QED
        BY <2>1, <2>2, <4>4
    <3> QED
      BY <3>6, <3>7
  <2> QED
    BY <2>9, <2>10
<1>4. \A i \in 0 .. n : i \in T
  <2> HIDE DEF n, T
  <2> QED
    BY <1>1, <1>2, <1>3, Inductive
<1>5. \A i \in 1 .. n : i \in 0 .. n /\ i > 0
  BY <1>1
<1> QED
  BY <1>4, <1>5

-----------------------------------------------------------------------------
(* The requests of an export pack all of its spans, and one that is        *)
(* refused is one that could not go.                                       *)
BatchesInv ==
  /\ Exported
  /\ batches # <<>> => Packs(batches, Len(spans))
  /\ outcome = [i \in DOMAIN batches |-> outcome[i]]
  /\ \A i \in DOMAIN batches : outcome[i] = "refused" => Goes(batches[i]) = "refused"

LEMMA BatchesStart ==
  BatchesInit => BatchesInv
BY DEF BatchesInit, BatchesInv, Exported

LEMMA BatchesBuilt ==
  ASSUME BatchesInv, Build
  PROVE  BatchesInv'
<1>1. Exported
  BY DEF BatchesInv
<1>2. spans' = spans /\ Exported'
  BY <1>1 DEF Build, Exported
<1>3. Len(spans) \in 1 .. Len(spans)
  BY <1>1, SpanSizes
<1>4. Packs(Assembled(Packed[Len(spans)]), Len(spans))
  BY <1>1, <1>3, PackedPacks
<1>5. batches' = Assembled(Packed[Len(spans)])
  BY DEF Build, Assembled
<1>6. PICK all : all = Assembled(Packed[Len(spans)])
  OBVIOUS
<1>7. Packs(all, Len(spans)) /\ batches' = all
  BY <1>4, <1>5, <1>6
<1>8. Packs(all, Len(spans))'
  BY <1>2, <1>7 DEF Packs, Fair, Filled, Alone, RequestSize, Bytes
<1>9. Packs(batches, Len(spans))'
  BY <1>7, <1>8 DEF Packs
<1>10. outcome' = [i \in DOMAIN batches' |-> "waiting"]
  BY DEF Build
<1> QED
  BY <1>2, <1>9, <1>10 DEF BatchesInv

LEMMA BatchesSent ==
  ASSUME BatchesInv, NEW i \in DOMAIN outcome, Send(i)
  PROVE  BatchesInv'
<1>1. UNCHANGED <<spans, batches>>
  BY DEF Send
<1>2. PICK fate : /\ outcome' = [outcome EXCEPT ![i] = fate]
                  /\ fate = "refused" => Goes(batches[i]) = "refused"
  BY DEF Send
<1>3. outcome' = [j \in DOMAIN batches |-> IF j = i THEN fate ELSE outcome[j]]
  BY <1>2 DEF BatchesInv
<1>4. \A j \in DOMAIN batches : outcome'[j] = IF j = i THEN fate ELSE outcome[j]
  BY <1>3
<1>5. (outcome = [j \in DOMAIN batches |-> outcome[j]])'
  BY <1>1, <1>3
<1>6. \A j \in DOMAIN batches : Goes(batches[j])' = Goes(batches[j])
  BY <1>1 DEF Goes, AsIs, Trimmed, Wire, Alone
<1>7. (\A j \in DOMAIN batches : outcome[j] = "refused" => Goes(batches[j]) = "refused")'
  BY <1>1, <1>2, <1>4, <1>6 DEF BatchesInv
<1>8. (batches # <<>> => Packs(batches, Len(spans)))'
  <2>1. Bytes' = Bytes
    BY <1>1 DEF Bytes
  <2> QED
    BY <1>1, <2>1 DEF BatchesInv, Packs, Fair, Filled, Alone, RequestSize
<1>9. Exported'
  BY <1>1 DEF BatchesInv, Exported
<1> QED
  BY <1>5, <1>7, <1>8, <1>9 DEF BatchesInv

LEMMA BatchesStutter ==
  ASSUME BatchesInv, UNCHANGED requestVars
  PROVE  BatchesInv'
<1>1. UNCHANGED <<spans, batches, outcome>>
  BY DEF requestVars
<1>2. (\A j \in DOMAIN batches : outcome[j] = "refused" => Goes(batches[j]) = "refused")'
  BY <1>1 DEF BatchesInv, Goes, AsIs, Trimmed, Wire, Alone
<1>3. (batches # <<>> => Packs(batches, Len(spans)))'
  <2>1. Bytes' = Bytes
    BY <1>1 DEF Bytes
  <2> QED
    BY <1>1, <2>1 DEF BatchesInv, Packs, Fair, Filled, Alone, RequestSize
<1>4. Exported' /\ (outcome = [i \in DOMAIN batches |-> outcome[i]])'
  BY <1>1 DEF BatchesInv, Exported
<1> QED
  BY <1>2, <1>3, <1>4 DEF BatchesInv

LEMMA BatchesImply ==
  BatchesInv => BatchesExact
<1> SUFFICES ASSUME BatchesInv PROVE BatchesExact
  OBVIOUS
<1>1. Exported
  BY DEF BatchesInv
<1>2. CASE batches = <<>>
  BY <1>2 DEF BatchesExact
<1>3. CASE batches # <<>>
  <2>1. Packs(batches, Len(spans))
    BY <1>3 DEF BatchesInv
  <2>2. batches \in Seq(Batch) /\ DOMAIN batches = 1 .. Len(batches) /\ Len(batches) \in Nat
    BY <2>1 DEF Packs
  <2>3. batches[1].from = 1 /\ batches[Len(batches)].to = Len(spans)
    BY <2>1 DEF Packs
  <2>4. ASSUME NEW i \in DOMAIN batches
        PROVE  /\ i > 1 => batches[i].from = batches[i - 1].to + 1
               /\ Fair(batches[i])
               /\ i < Len(batches) => Filled(batches[i])
    <3>1. i > 1 => i \in 2 .. Len(batches)
      BY <2>2
    <3>2. i < Len(batches) => i \in 1 .. Len(batches) - 1
      BY <2>2
    <3> QED
      BY <2>1, <2>2, <3>1, <3>2 DEF Packs
  <2>5. ASSUME NEW i \in DOMAIN batches, outcome[i] = "refused"
        PROVE  /\ Alone(batches[i])
               /\ spans[batches[i].from].trims =>
                    \/ Envelope + spans[batches[i].from].trimmed > MaxRaw
                    \/ Envelope + spans[batches[i].from].trimmedWire > MaxBytes
    <3>1. PICK batch : batch = batches[i]
      OBVIOUS
    <3>2. Goes(batch) = "refused" /\ Fair(batch)
      BY <2>4, <2>5, <3>1 DEF BatchesInv
    <3>3. ~AsIs(batch) /\ ~Trimmed(batch)
      BY <3>2 DEF Goes
    <3>4. batch.size \in Nat /\ batch.from \in 1 .. Len(spans)
      BY <3>2, SpanSizes, <1>1 DEF Fair, Batch
    <3>5. Alone(batch)
      <4>1. CASE Alone(batch)
        BY <4>1
      <4>2. CASE ~Alone(batch)
        <5>1. batch.size <= MaxBytes
          BY <3>2, <4>2 DEF Fair
        <5>2. batch.size <= MaxRaw
          BY <1>1, <3>4, <5>1, SpanSizes
        <5>3. AsIs(batch)
          BY <4>2, <5>1, <5>2 DEF AsIs, Wire
        <5> QED
          BY <3>3, <5>3
      <4> QED
        BY <4>1, <4>2
    <3>6. PICK span : span = spans[batch.from]
      OBVIOUS
    <3>7. span \in Sized
      BY <1>1, <3>4, <3>6, SpanSizes
    <3>8. span.trims => ~(Envelope + span.trimmed <= MaxRaw /\ Envelope + span.trimmedWire <= MaxBytes)
      BY <3>3, <3>5, <3>6 DEF Trimmed
    <3>9. Envelope + span.trimmed \in Nat /\ Envelope + span.trimmedWire \in Nat
      BY <1>1, <3>7, SpanSizes DEF Sized
    <3>10. span.trims => Envelope + span.trimmed > MaxRaw \/ Envelope + span.trimmedWire > MaxBytes
      BY <1>1, <3>8, <3>9, SpanSizes
    <3> QED
      BY <3>1, <3>5, <3>6, <3>10
  <2> QED
    BY <1>3, <2>3, <2>4, <2>5 DEF BatchesExact, Fair, Filled
<1> QED
  BY <1>2, <1>3

(* Every span of an export is in exactly one request, in its order; no     *)
(* request is over the limits unless a single span is, the size counted    *)
(* for it is its size, and one is closed only when the longer span would not *)
(* fit; and only a span that is alone and too large even trimmed is given  *)
(* up: for exports of any length, spans of any size and any limits         *)
(* (buildRequestBatches, send).                                            *)
THEOREM BatchesAreExact ==
  BatchesSpec => []BatchesExact
<1>1. BatchesInit => BatchesInv
  BY BatchesStart
<1>2. BatchesInv /\ [BatchesNext]_requestVars => BatchesInv'
  BY BatchesBuilt, BatchesSent, BatchesStutter DEF BatchesNext
<1>3. BatchesInv => BatchesExact
  BY BatchesImply
<1> QED
  BY <1>1, <1>2, <1>3, PTL DEF BatchesSpec

-----------------------------------------------------------------------------
(* The last of finitely many in a strict order.                            *)
LEMMA LastOf ==
  ASSUME NEW S, IsFiniteSet(S), S # {}, NEW R,
         \A x \in S : <<x, x>> \notin R,
         \A x, y, z \in S : <<x, y>> \in R /\ <<y, z>> \in R => <<x, z>> \in R,
         \A x, y \in S : x = y \/ <<x, y>> \in R \/ <<y, x>> \in R
  PROVE  \E x \in S : \A y \in S : y = x \/ <<y, x>> \in R
<1> DEFINE Above(x) == {y \in S : <<x, y>> \in R}
           M == {Cardinality(Above(x)) : x \in S}
<1>1. \A x \in S : IsFiniteSet(Above(x)) /\ Cardinality(Above(x)) \in Nat
  <2> SUFFICES ASSUME NEW x \in S PROVE IsFiniteSet(Above(x)) /\ Cardinality(Above(x)) \in Nat
    OBVIOUS
  <2>1. Above(x) \in SUBSET S
    OBVIOUS
  <2> HIDE DEF Above
  <2> QED
    BY <2>1, FS_Subset, FS_CardinalityType
<1>2. M \in SUBSET Nat /\ M # {}
  <2> HIDE DEF Above
  <2> QED
    BY <1>1
<1>3. PICK m \in M : \A k \in M : m <= k
  <2> HIDE DEF M
  <2> QED
    BY <1>2, LeastOf
<1>4. PICK x \in S : m = Cardinality(Above(x))
  <2> HIDE DEF Above
  <2> QED
    OBVIOUS
<1>5. SUFFICES ASSUME NEW y \in S, y # x, <<y, x>> \notin R PROVE FALSE
  OBVIOUS
<1>6. <<x, y>> \in R
  BY <1>5
<1>7. Above(y) \in SUBSET Above(x) /\ y \in Above(x) /\ y \notin Above(y)
  BY <1>6
<1>8. Cardinality(Above(x)) <= Cardinality(Above(y))
  <2> HIDE DEF Above
  <2> QED
    BY <1>3, <1>4
<1> HIDE DEF Above, M
<1>9. Cardinality(Above(y)) = Cardinality(Above(x))
  BY <1>1, <1>7, <1>8, FS_Subset
<1> QED
  BY <1>1, <1>7, <1>9, FS_Subset

(* How long fields are is a number, and no more of it is escaped.          *)
LEMMA FieldsCounted ==
  ASSUME NEW fs, FieldsOk(fs)
  PROVE  /\ Cardinality(FieldBytes(fs)) \in Nat
         /\ Cardinality(FieldQuotes(fs)) \in Nat
         /\ Cardinality(FieldQuotes(fs)) <= Cardinality(FieldBytes(fs))
<1> DEFINE D == DOMAIN fs
           part == [f \in D |-> {f} \X (1 .. fs[f].size)]
           all == {part[f] : f \in D}
<1>1. \A f \in D : fs[f].size \in Nat /\ fs[f].quotes \in Nat /\ fs[f].quotes <= fs[f].size
  BY DEF FieldsOk, Value
<1>2. IsFiniteSet(D)
  BY DEF FieldsOk
<1>3. part \in Surjection(D, all)
  BY DEF Surjection
<1>4. IsFiniteSet(all)
  <2> HIDE DEF D, part, all
  <2> QED
    BY <1>2, <1>3, FS_Surjection DEF ExistsSurjection
<1>5. \A T \in all : IsFiniteSet(T)
  <2> SUFFICES ASSUME NEW f \in D PROVE IsFiniteSet(part[f])
    OBVIOUS
  <2>1. fs[f].size \in Int /\ 1 \in Int
    BY <1>1
  <2>2. IsFiniteSet(1 .. fs[f].size)
    BY <2>1, FS_Interval
  <2>3. IsFiniteSet({f})
    BY FS_Singleton
  <2>4. IsFiniteSet({f} \X (1 .. fs[f].size))
    BY <2>2, <2>3, FS_Product
  <2> QED
    BY <2>4
<1>6. IsFiniteSet(UNION all)
  <2> HIDE DEF all
  <2> QED
    BY <1>4, <1>5, FS_UNION
<1>7. FieldBytes(fs) = UNION all
  BY DEF FieldBytes
<1>8. FieldQuotes(fs) \in SUBSET FieldBytes(fs)
  <2> SUFFICES ASSUME NEW f \in D PROVE {f} \X (1 .. fs[f].quotes) \in SUBSET ({f} \X (1 .. fs[f].size))
    BY DEF FieldBytes, FieldQuotes
  <2>1. 1 .. fs[f].quotes \in SUBSET (1 .. fs[f].size)
    BY <1>1
  <2> QED
    BY <2>1
<1> HIDE DEF D, part, all
<1>9. IsFiniteSet(FieldBytes(fs))
  BY <1>6, <1>7
<1> QED
  BY <1>8, <1>9, FS_Subset, FS_CardinalityType

(* A payload with its entries of errors.                                   *)
Notes == {"stub", "degraded", "budget"}
PayloadOk(p) ==
  /\ p \in [fields : {p.fields}, errors : Seq(Notes)]
  /\ FieldsOk(p.fields)

(* The entries of errors are counted too.                                  *)
LEMMA EntriesCounted ==
  ASSUME NEW list \in Seq(Notes)
  PROVE  Entries(list) \in Value /\ Entries(list).kind \in {"plain", "stub"}
<1>1. CASE list = <<"stub">>
  BY <1>1, PayloadAssumption DEF Entries
<1>2. CASE list # <<"stub">>
  <2>1. PICK n \in Nat : n = Len(list)
    OBVIOUS
  <2>2. PICK a \in Nat : a = Note.size
    BY PayloadAssumption DEF Value
  <2>3. PICK b \in Nat : b = Note.quotes
    BY PayloadAssumption DEF Value
  <2>4. b <= a
    BY <2>2, <2>3, PayloadAssumption DEF Value
  <2>5. a * n \in Nat /\ b * n \in Nat /\ b * n <= a * n
    BY ONLY a \in Nat, b \in Nat, n \in Nat, b <= a
  <2>6. Entries(list) = [size |-> a * n, quotes |-> b * n, kind |-> "plain"]
    BY <1>2, <2>1, <2>2, <2>3 DEF Entries
  <2> QED
    BY <2>5, <2>6 DEF Value, Kinds
<1> QED
  BY <1>1, <1>2

(* The cheap bounds decide as the measured length does.                    *)
LEMMA FitsIsCarrier ==
  ASSUME NEW p, PayloadOk(p), NEW max \in Nat
  PROVE  Carrier(p) \in Nat /\ (Fits(p, max) <=> Carrier(p) <= max)
<1>1. PICK b \in Nat : b = Cardinality(FieldBytes(p.fields))
  BY FieldsCounted DEF PayloadOk
<1>2. PICK q \in Nat : q = Cardinality(FieldQuotes(p.fields))
  BY FieldsCounted DEF PayloadOk
<1>3. q <= b
  BY <1>1, <1>2, FieldsCounted DEF PayloadOk
<1>4. Entries(p.errors) \in Value
  BY EntriesCounted DEF PayloadOk
<1>5. PICK c \in Nat : c = Entries(p.errors).size
  BY <1>4 DEF Value
<1>6. PICK d \in Nat : d = Entries(p.errors).quotes
  BY <1>4 DEF Value
<1>7. d <= c
  BY <1>4, <1>5, <1>6 DEF Value
<1>8. Length(p) = b + c /\ Carrier(p) = b + c + q + d + 2
  BY <1>1, <1>2, <1>5, <1>6 DEF Length, Carrier
<1> QED
  BY <1>3, <1>7, <1>8 DEF Fits

(* A payload stays one with fields stubbed, and as it is with none.        *)
LEMMA StubbedOk ==
  ASSUME NEW p, PayloadOk(p), NEW stubs
  PROVE  PayloadOk(Stubbed(p, stubs))
<1>1. FieldsOk(Stubbed(p, stubs).fields)
  BY PayloadAssumption DEF PayloadOk, FieldsOk, Stubbed
<1>2. Stubbed(p, stubs).errors \in Seq(Notes)
  <2>1. p.errors \in Seq(Notes)
    BY DEF PayloadOk
  <2>2. Stubbed(p, stubs).errors = <<"stub">> \/ Stubbed(p, stubs).errors = p.errors
    BY DEF Stubbed
  <2>3. <<"stub">> \in Seq(Notes)
    BY DEF Notes
  <2> HIDE DEF Stubbed
  <2> QED
    BY <2>1, <2>2, <2>3
<1> QED
  BY <1>1, <1>2 DEF PayloadOk, Stubbed

LEMMA NoneStubbed ==
  ASSUME NEW p, PayloadOk(p)
  PROVE  Stubbed(p, {}) = p
BY DEF PayloadOk, FieldsOk, Stubbed

(* Every field that may be trimmed comes before or after another.          *)
LEMMA Ordered ==
  ASSUME NEW p, PayloadOk(p)
  PROVE  /\ IsFiniteSet(Trimmable(p))
         /\ \A f \in Trimmable(p) : f \in {"top", "data", "raw"} \X Nat /\ Field(p, f).size \in Nat
         /\ \A f \in Trimmable(p) : ~Before(p, f, f)
         /\ \A f, g, h \in Trimmable(p) : Before(p, f, g) /\ Before(p, g, h) => Before(p, f, h)
         /\ \A f, g \in Trimmable(p) : f = g \/ Before(p, f, g) \/ Before(p, g, f)
<1> DEFINE T == Trimmable(p)
           All == DOMAIN p.fields \cup (IF p.errors = <<>> THEN {} ELSE {Errors})
<1>1. IsFiniteSet(All)
  <2>1. IsFiniteSet(DOMAIN p.fields)
    BY DEF PayloadOk, FieldsOk
  <2>2. IsFiniteSet(DOMAIN p.fields \cup {Errors})
    BY <2>1, FS_AddElement
  <2> QED
    BY <2>1, <2>2
<1>2. IsFiniteSet(T)
  <2>1. T \in SUBSET All
    BY DEF Trimmable
  <2> HIDE DEF T, All
  <2> QED
    BY <1>1, <2>1, FS_Subset
<1>3. \A f \in T : f \in {"top", "data", "raw"} \X Nat
  BY DEF Trimmable, PayloadOk, FieldsOk, Names, Errors
<1>4. \A f \in T : Field(p, f).size \in Nat
  <2> SUFFICES ASSUME NEW f \in T PROVE Field(p, f).size \in Nat
    OBVIOUS
  <2>1. CASE f = Errors
    BY <2>1, EntriesCounted DEF Field, PayloadOk, Value
  <2>2. CASE f # Errors
    BY <2>2 DEF Field, Trimmable, PayloadOk, FieldsOk, Value
  <2> QED
    BY <2>1, <2>2
<1>5. \A f, g \in T : f[1] = g[1] \/ (f[1] = "data" /\ g[1] = "raw") \/ (f[1] = "raw" /\ g[1] = "data")
  <2>1. Records(p) = {"top"} \/ Records(p) \in SUBSET {"data", "raw"}
    BY DEF Records
  <2>2. \A f \in T : f[1] \in Records(p)
    BY DEF Trimmable
  <2> SUFFICES ASSUME NEW f \in T, NEW g \in T
               PROVE  f[1] = g[1] \/ (f[1] = "data" /\ g[1] = "raw") \/ (f[1] = "raw" /\ g[1] = "data")
    OBVIOUS
  <2>3. f[1] \in Records(p) /\ g[1] \in Records(p)
    BY <2>2
  <2> HIDE DEF T
  <2>4. CASE Records(p) = {"top"}
    BY <2>3, <2>4
  <2>5. CASE Records(p) \in SUBSET {"data", "raw"}
    <3>1. f[1] \in {"data", "raw"} /\ g[1] \in {"data", "raw"}
      BY <2>3, <2>5
    <3> QED
      BY <3>1
  <2> QED
    BY <2>1, <2>4, <2>5
<1>6. \A f \in T : f[2] \in Nat /\ f = <<f[1], f[2]>>
  BY <1>3
<1> HIDE DEF T
<1>7. \A f \in T : ~Before(p, f, f)
  BY <1>4, <1>6 DEF Before
<1>8. \A f, g \in T : f = g \/ Before(p, f, g) \/ Before(p, g, f)
  <2> SUFFICES ASSUME NEW f \in T, NEW g \in T, ~Before(p, f, g), ~Before(p, g, f) PROVE f = g
    OBVIOUS
  <2>1. Field(p, f).size = Field(p, g).size
    BY <1>4 DEF Before
  <2>2. f[2] = g[2]
    BY <1>6, <2>1 DEF Before
  <2>3. f[1] = g[1]
    BY <1>5, <2>1, <2>2 DEF Before
  <2> QED
    BY <1>6, <2>2, <2>3
<1>9. \A f, g, h \in T : Before(p, f, g) /\ Before(p, g, h) => Before(p, f, h)
  <2> SUFFICES ASSUME NEW f \in T, NEW g \in T, NEW h \in T, Before(p, f, g), Before(p, g, h)
               PROVE  Before(p, f, h)
    OBVIOUS
  <2>1. PICK a \in Nat : a = Field(p, f).size
    BY <1>4
  <2>2. PICK b \in Nat : b = Field(p, g).size
    BY <1>4
  <2>3. PICK c \in Nat : c = Field(p, h).size
    BY <1>4
  <2>4. f[2] \in Nat /\ g[2] \in Nat /\ h[2] \in Nat
    BY <1>6
  <2>5. a > b \/ (a = b /\ (f[2] < g[2] \/ (f[2] = g[2] /\ f[1] = "data" /\ g[1] = "raw")))
    BY <2>1, <2>2 DEF Before
  <2>6. b > c \/ (b = c /\ (g[2] < h[2] \/ (g[2] = h[2] /\ g[1] = "data" /\ h[1] = "raw")))
    BY <2>2, <2>3 DEF Before
  <2>7. a > c \/ (a = c /\ (f[2] < h[2] \/ (f[2] = h[2] /\ f[1] = "data" /\ h[1] = "raw")))
    BY <2>4, <2>5, <2>6
  <2> QED
    BY <2>1, <2>3, <2>7 DEF Before
<1> QED
  BY <1>2, <1>3, <1>4, <1>7, <1>8, <1>9 DEF T

(* One of any fields that may be trimmed comes first, and one last.        *)
LEMMA FirstAndLast ==
  ASSUME NEW p, PayloadOk(p), NEW S \in SUBSET Trimmable(p), S # {}
  PROVE  /\ \E f \in S : \A g \in S : g = f \/ Before(p, f, g)
         /\ \E f \in S : \A g \in S : g = f \/ Before(p, g, f)
<1> DEFINE R == {e \in S \X S : Before(p, e[1], e[2])}
           Q == {e \in S \X S : Before(p, e[2], e[1])}
<1>1. IsFiniteSet(S)
  BY Ordered, FS_Subset
<1>2. /\ \A f \in S : ~Before(p, f, f)
      /\ \A f, g, h \in S : Before(p, f, g) /\ Before(p, g, h) => Before(p, f, h)
      /\ \A f, g \in S : f = g \/ Before(p, f, g) \/ Before(p, g, f)
  BY Ordered
<1>3. \A f, g \in S : (<<f, g>> \in R <=> Before(p, f, g)) /\ (<<f, g>> \in Q <=> Before(p, g, f))
  OBVIOUS
<1> HIDE DEF R, Q
<1>4. \E f \in S : \A g \in S : g = f \/ <<g, f>> \in R
  <2>1. /\ \A x \in S : <<x, x>> \notin R
        /\ \A x, y, z \in S : <<x, y>> \in R /\ <<y, z>> \in R => <<x, z>> \in R
        /\ \A x, y \in S : x = y \/ <<x, y>> \in R \/ <<y, x>> \in R
    BY <1>2, <1>3
  <2> QED
    BY <1>1, <2>1, LastOf
<1>5. \E f \in S : \A g \in S : g = f \/ <<g, f>> \in Q
  <2>1. /\ \A x \in S : <<x, x>> \notin Q
        /\ \A x, y, z \in S : <<x, y>> \in Q /\ <<y, z>> \in Q => <<x, z>> \in Q
        /\ \A x, y \in S : x = y \/ <<x, y>> \in Q \/ <<y, x>> \in Q
    BY <1>2, <1>3
  <2> QED
    BY <1>1, <2>1, LastOf
<1> QED
  BY <1>3, <1>4, <1>5

(* The entry of a trim costs at most an entry, and leaves a payload.       *)
LEMMA MarkCosts ==
  ASSUME NEW p, PayloadOk(p), NEW q, q = [fields |-> p.fields, errors |-> Append(Existing(p.errors), "budget")]
  PROVE  /\ PayloadOk(q)
         /\ Carrier(q) - (Note.size + Note.quotes) <= Carrier(p)
<1>1. Existing(p.errors) \in Seq(Notes)
  BY DEF PayloadOk, Existing, Notes
<1>2. q.errors \in Seq(Notes) /\ q.errors # <<"stub">> /\ Len(q.errors) = Len(Existing(p.errors)) + 1
  <2>1. q.errors = Append(Existing(p.errors), "budget")
    OBVIOUS
  <2>2. "budget" \in Notes
    BY DEF Notes
  <2>3. q.errors \in Seq(Notes) /\ Len(q.errors) = Len(Existing(p.errors)) + 1
    BY <1>1, <2>1, <2>2
  <2>4. q.errors[Len(q.errors)] = "budget"
    BY <1>1, <2>1, <2>2
  <2>5. q.errors # <<"stub">>
    <3>1. <<"stub">>[Len(<<"stub">>)] = "stub"
      OBVIOUS
    <3> QED
      BY <2>4, <3>1
  <2> QED
    BY <2>3, <2>5
<1>3. PayloadOk(q)
  BY <1>2 DEF PayloadOk
<1>4. PICK n \in Nat : n = Len(Existing(p.errors))
  BY <1>1
<1>5. PICK a \in Nat : a = Note.size
  BY PayloadAssumption DEF Value
<1>6. PICK b \in Nat : b = Note.quotes
  BY PayloadAssumption DEF Value
<1>7. PICK c \in Nat : c = Entries(p.errors).size
  BY EntriesCounted DEF PayloadOk, Value
<1>8. PICK d \in Nat : d = Entries(p.errors).quotes
  BY EntriesCounted DEF PayloadOk, Value
<1>9. Entries(q.errors).size = a * (n + 1) /\ Entries(q.errors).quotes = b * (n + 1)
  BY <1>2, <1>4, <1>5, <1>6 DEF Entries
<1>10. a * n <= c /\ b * n <= d
  <2>1. CASE p.errors = <<"stub">>
    <3>1. n = 0
      BY <1>4, <2>1 DEF Existing
    <3> QED
      BY <3>1
  <2>2. CASE p.errors # <<"stub">>
    <3>1. c = a * n /\ d = b * n
      BY <1>4, <1>5, <1>6, <1>7, <1>8, <2>2 DEF Entries, Existing
    <3> QED
      BY <3>1
  <2> QED
    BY <2>1, <2>2
<1>11. a * (n + 1) <= c + a /\ b * (n + 1) <= d + b /\ a * (n + 1) \in Nat /\ b * (n + 1) \in Nat
  BY ONLY <1>10, a \in Nat, b \in Nat, n \in Nat, c \in Nat, d \in Nat
<1>12. PICK u \in Nat : u = a * (n + 1)
  BY <1>11
<1>13. PICK v \in Nat : v = b * (n + 1)
  BY <1>11
<1>14. PICK x \in Nat : x = Cardinality(FieldBytes(p.fields))
  BY FieldsCounted DEF PayloadOk
<1>15. PICK y \in Nat : y = Cardinality(FieldQuotes(p.fields))
  BY FieldsCounted DEF PayloadOk
<1>16. Carrier(p) = x + c + y + d + 2
  BY <1>7, <1>8, <1>14, <1>15 DEF Carrier, Length
<1>17. Carrier(q) = x + u + y + v + 2
  BY <1>9, <1>12, <1>13, <1>14, <1>15 DEF Carrier, Length
<1>18. u <= c + a /\ v <= d + b
  BY <1>11, <1>12, <1>13
<1>19. Carrier(q) - (a + b) <= Carrier(p)
  <2>1. (x + u + y + v + 2) - (a + b) <= x + c + y + d + 2
    BY ONLY <1>18, a \in Nat, b \in Nat, c \in Nat, d \in Nat, u \in Nat, v \in Nat, x \in Nat, y \in Nat
  <2> QED
    BY <1>16, <1>17, <2>1
<1> QED
  BY <1>3, <1>5, <1>6, <1>19

(* The fields up to one are those at least as large.                       *)
LEMMA ThroughLargest ==
  ASSUME NEW p, PayloadOk(p), NEW f \in Trimmable(p)
  PROVE  /\ f \in Through(p, f)
         /\ \A h \in Through(p, f) : Field(p, h).size >= Field(p, f).size
         /\ \A h \in Through(p, f), g \in Trimmable(p) \ Through(p, f) :
              Field(p, h).size >= Field(p, g).size
<1>1. \A h \in Trimmable(p) : Field(p, h).size \in Nat
  BY Ordered
<1>2. f \in Through(p, f)
  BY DEF Through
<1>3. \A h \in Through(p, f) : Field(p, h).size >= Field(p, f).size
  <2> SUFFICES ASSUME NEW h \in Through(p, f) PROVE Field(p, h).size >= Field(p, f).size
    OBVIOUS
  <2>1. h \in Trimmable(p) /\ (h = f \/ Before(p, h, f))
    BY DEF Through
  <2> QED
    BY <1>1, <2>1 DEF Before
<1>4. \A g \in Trimmable(p) \ Through(p, f) : Field(p, f).size >= Field(p, g).size
  <2> SUFFICES ASSUME NEW g \in Trimmable(p) \ Through(p, f)
               PROVE  Field(p, f).size >= Field(p, g).size
    OBVIOUS
  <2>1. Before(p, f, g)
    BY Ordered DEF Through
  <2> QED
    BY <1>1, <2>1 DEF Before
<1>5. Through(p, f) \in SUBSET Trimmable(p)
  BY DEF Through
<1> QED
  <2> SUFFICES ASSUME NEW h \in Through(p, f), NEW g \in Trimmable(p) \ Through(p, f)
               PROVE  Field(p, h).size >= Field(p, g).size
    BY <1>2, <1>3
  <2>1. PICK a \in Nat : a = Field(p, h).size
    BY <1>1, <1>5
  <2>2. PICK b \in Nat : b = Field(p, f).size
    BY <1>1
  <2>3. PICK c \in Nat : c = Field(p, g).size
    BY <1>1
  <2>4. a >= b /\ b >= c
    BY <1>3, <1>4, <2>1, <2>2, <2>3
  <2> QED
    BY <2>1, <2>3, <2>4

(* If no number of fields is enough, all of them are not.                  *)
LEMMA NotEnough ==
  ASSUME NEW p, PayloadOk(p), NEW max \in Nat, Enough(p, max) = {}
  PROVE  Fits(p, max) \/ ~Fits(Stubbed(p, Trimmable(p)), max)
<1>1. CASE Trimmable(p) = {}
  BY <1>1, NoneStubbed
<1>2. CASE Trimmable(p) # {}
  <2>1. PICK f \in Trimmable(p) : \A g \in Trimmable(p) : g = f \/ Before(p, g, f)
    BY <1>2, FirstAndLast
  <2>2. Through(p, f) = Trimmable(p)
    BY <2>1 DEF Through
  <2>3. ~Fits(Stubbed(p, Through(p, f)), max)
    BY <2>1 DEF Enough
  <2> QED
    BY <2>2, <2>3
<1> QED
  BY <1>1, <1>2

(* Of those that are enough with the fields before them, the first needs   *)
(* to be stubbed too.                                                      *)
LEMMA FirstNeeded ==
  ASSUME NEW p, PayloadOk(p), NEW max \in Nat, ~Fits(p, max), NEW f \in Enough(p, max),
         \A g \in Enough(p, max) : ~Before(p, g, f)
  PROVE  ~Fits(Stubbed(p, Through(p, f) \ {f}), max)
<1> DEFINE S == Through(p, f) \ {f}
<1>1. S \in SUBSET Trimmable(p)
  BY DEF Through
<1>2. f \in Trimmable(p)
  BY DEF Enough
<1>3. CASE S = {}
  BY <1>3, NoneStubbed
<1>4. CASE S # {}
  <2>1. PICK g \in S : \A h \in S : h = g \/ Before(p, h, g)
    <3> HIDE DEF S
    <3> QED
      BY <1>1, <1>4, FirstAndLast
  <2>2. Before(p, g, f) /\ g \in Trimmable(p)
    BY <2>1 DEF Through
  <2>3. g \notin Enough(p, max)
    BY <2>2
  <2>4. Through(p, g) \in SUBSET S
    <3> SUFFICES ASSUME NEW h \in Through(p, g) PROVE h \in Through(p, f) /\ h # f
      OBVIOUS
    <3>1. h \in Trimmable(p) /\ (h = g \/ Before(p, h, g))
      BY DEF Through
    <3>2. Before(p, h, f)
      BY <1>2, <2>2, <3>1, Ordered
    <3>3. h # f
      BY <1>2, <3>2, Ordered
    <3> QED
      BY <3>1, <3>2, <3>3 DEF Through
  <2>5. S \in SUBSET Through(p, g)
    BY <1>1, <2>1 DEF Through
  <2>6. Through(p, g) = S
    BY <2>4, <2>5
  <2>7. ~Fits(Stubbed(p, Through(p, g)), max)
    BY <2>2, <2>3 DEF Enough
  <2> QED
    BY <2>6, <2>7
<1> QED
  BY <1>3, <1>4

(* What is enforced, for the payload and the limit it is applied to.       *)
LEMMA EnforcedLeast ==
  ASSUME NEW p, PayloadOk(p), NEW max \in Nat, Enforce(p, max), Limit' = max
  PROVE  TrimsLeast'
<1>1. before' = p
  BY DEF Enforce
<1>2. CASE Fits(p, max) \/ Enough(p, max) = {}
  <2>1. trimmed' = {} /\ Shipped' = p
    BY <1>2 DEF Enforce, Shipped, PayloadOk
  <2>2. Fits(p, max) \/ ~Fits(Stubbed(p, Trimmable(p)), max)
    BY <1>2, NotEnough
  <2>3. Carrier(p) <= max \/ Carrier(Stubbed(p, Trimmable(p))) > max
    BY <2>2, FitsIsCarrier, StubbedOk
  <2> QED
    BY <1>1, <2>1, <2>3 DEF TrimsLeast
<1>3. CASE ~(Fits(p, max) \/ Enough(p, max) = {})
  <2> DEFINE last == CHOOSE f \in Enough(p, max) : \A g \in Enough(p, max) : ~Before(p, g, f)
             q == Stubbed(p, Through(p, last))
  <2>1. Enough(p, max) \in SUBSET Trimmable(p)
    BY DEF Enough
  <2>2. \E f \in Enough(p, max) : \A g \in Enough(p, max) : ~Before(p, g, f)
    <3>1. PICK f \in Enough(p, max) : \A g \in Enough(p, max) : g = f \/ Before(p, f, g)
      BY <1>3, <2>1, FirstAndLast
    <3>2. \A g \in Enough(p, max) : ~Before(p, g, f)
      <4> SUFFICES ASSUME NEW g \in Enough(p, max), Before(p, g, f) PROVE FALSE
        OBVIOUS
      <4>1. f \in Trimmable(p) /\ g \in Trimmable(p)
        BY <2>1
      <4>2. g # f
        BY <4>1, Ordered
      <4>3. Before(p, f, f)
        BY <3>1, <4>1, <4>2, Ordered
      <4> QED
        BY <4>1, <4>3, Ordered
    <3> QED
      BY <3>2
  <2>3. last \in Enough(p, max) /\ \A g \in Enough(p, max) : ~Before(p, g, last)
    BY <2>2
  <2>4. trimmed' = Through(p, last) /\ fields' = q.fields /\ errors' = Append(Existing(q.errors), "budget")
    BY <1>3 DEF Enforce
  <2> HIDE DEF last
  <2>5. last \in Trimmable(p) /\ Fits(q, max)
    BY <2>3 DEF Enough
  <2>6. Carrier(p) > max
    BY <1>3, FitsIsCarrier
  <2>7. Carrier(q) <= max /\ PayloadOk(q)
    BY <2>5, FitsIsCarrier, StubbedOk
  <2>8. Carrier(Stubbed(p, Through(p, last) \ {last})) > max
    BY <1>3, <2>3, FirstNeeded, FitsIsCarrier, StubbedOk
  <2>9. Carrier(Shipped') - (Note.size + Note.quotes) <= max
    <3> HIDE DEF q
    <3>1. Carrier(Shipped') - (Note.size + Note.quotes) <= Carrier(q)
      BY <2>4, <2>7, MarkCosts DEF Shipped
    <3>2. PayloadOk(Shipped')
      BY <2>4, <2>7, MarkCosts DEF Shipped
    <3>3. Carrier(q) \in Nat /\ Carrier(Shipped') \in Nat
      BY <2>7, <3>2, FitsIsCarrier
    <3>4. Note.size + Note.quotes \in Nat
      BY PayloadAssumption DEF Value
    <3> QED
      BY <2>7, <3>1, <3>3, <3>4
  <2>10. \A f \in DOMAIN fields' :
           f \notin Through(p, last) \/ f[2] \in Structural => fields'[f] = p.fields[f]
    <3>1. \A f \in Through(p, last) : f[2] \notin Structural
      BY DEF Through, Trimmable
    <3> QED
      BY <2>4, <3>1 DEF Stubbed
  <2>11. trimmed' # {} /\ last \in trimmed'
    BY <2>4, <2>5, ThroughLargest
  <2>12. \A f \in trimmed' : Field(p, f).size >= Field(p, last).size
    BY <2>4, <2>5, ThroughLargest
  <2>13. \A f \in trimmed', g \in Trimmable(p) \ trimmed' : Field(p, f).size >= Field(p, g).size
    BY <2>4, <2>5, ThroughLargest
  <2> HIDE DEF q
  <2> QED
    BY <1>1, <2>4, <2>6, <2>8, <2>9, <2>10, <2>11, <2>12, <2>13 DEF TrimsLeast
<1> QED
  BY <1>2, <1>3

(* A payload before it is submitted has no entry and no placeholder, and   *)
(* is lossy just for a leaf that cannot be encoded.                        *)
PayloadInv ==
  /\ PayloadOk(Shipped) /\ lossy \in BOOLEAN
  /\ phase = "captured" =>
       /\ errors = <<>>
       /\ \A f \in DOMAIN fields : fields[f].kind # "stub"
       /\ lossy <=> \E f \in DOMAIN fields : fields[f].kind = "stray"
  /\ phase \in {"captured", "submitted", "sending"}
  /\ TrimExact

(* Which records of a payload may be trimmed is of its fields' names.      *)
LEMMA RecordsStay ==
  ASSUME NEW p, NEW q, DOMAIN p.fields = DOMAIN q.fields
  PROVE  Records(p) = Records(q)
BY DEF Records

(* What an entry told is told after a trim as well, or the trim is told    *)
(* in its place; a field is as it was, or the trim is told; and a trim     *)
(* does not tell of a loss there was not.                                  *)
LEMMA EnforcedTold ==
  ASSUME NEW p, PayloadOk(p), NEW max \in Nat, Enforce(p, max)
  PROVE  /\ PayloadOk(Shipped') /\ Records(Shipped') = Records(p)
         /\ \A i \in DOMAIN p.errors :
              p.errors[i] # "stub" =>
                Told(p.errors[i])' \/ (Records(Shipped') = {"top"} /\ Told("budget")')
         /\ \A f \in DOMAIN fields' : Told("budget")' \/ (f \in DOMAIN p.fields /\ fields'[f] = p.fields[f])
         /\ Told("degraded")' => \E i \in DOMAIN p.errors : p.errors[i] = "degraded"
<1>1. CASE Fits(p, max) \/ Enough(p, max) = {}
  <2>1. fields' = p.fields /\ errors' = p.errors
    BY <1>1 DEF Enforce
  <2>2. Shipped' = p
    BY <2>1 DEF Shipped, PayloadOk
  <2>3. \A i \in DOMAIN p.errors : Told(p.errors[i])'
    BY <2>1 DEF Told
  <2>4. Told("degraded")' => \E i \in DOMAIN p.errors : p.errors[i] = "degraded"
    BY <2>1 DEF Told
  <2> QED
    BY <2>1, <2>2, <2>3, <2>4
<1>2. CASE ~(Fits(p, max) \/ Enough(p, max) = {})
  <2> DEFINE stubs == Through(p, CHOOSE f \in Enough(p, max) : \A g \in Enough(p, max) : ~Before(p, g, f))
             q == Stubbed(p, stubs)
  <2>1. fields' = q.fields /\ errors' = Append(Existing(q.errors), "budget")
    BY <1>2 DEF Enforce
  <2>2. stubs \in SUBSET Trimmable(p)
    BY DEF Through
  <2> HIDE DEF stubs
  <2>3. PayloadOk(q)
    BY StubbedOk
  <2>4. PayloadOk(Shipped')
    <3> HIDE DEF q
    <3> QED
      BY <2>1, <2>3, MarkCosts DEF Shipped
  <2>5. Records(Shipped') = Records(p)
    BY <2>1, RecordsStay DEF Shipped, Stubbed
  <2>6. Existing(q.errors) \in Seq(Notes)
    <3> HIDE DEF q
    <3> QED
      BY <2>3 DEF PayloadOk, Existing
  <2>7. Told("budget")'
    <3> HIDE DEF q
    <3>1. Len(errors') \in DOMAIN errors' /\ errors'[Len(errors')] = "budget"
      BY <2>1, <2>6
    <3> QED
      BY <3>1 DEF Told
  <2>8. ASSUME NEW i \in DOMAIN p.errors, p.errors[i] # "stub"
        PROVE  Told(p.errors[i])' \/ Records(Shipped') = {"top"}
    <3>1. CASE Errors \in stubs
      <4>1. Errors[1] \in Records(p)
        BY <2>2, <3>1 DEF Trimmable
      <4>2. Records(p) = {"top"}
        BY <4>1 DEF Records, Errors
      <4> QED
        BY <2>5, <4>2
    <3>2. CASE Errors \notin stubs
      <4>1. q.errors = p.errors
        BY <3>2 DEF Stubbed
      <4>2. p.errors # <<"stub">>
        BY <2>8
      <4>3. errors' = Append(p.errors, "budget") /\ p.errors \in Seq(Notes)
        BY <2>1, <4>1, <4>2 DEF Existing, PayloadOk
      <4>4. i \in DOMAIN errors' /\ errors'[i] = p.errors[i]
        BY <4>3
      <4> QED
        BY <4>4 DEF Told
    <3> QED
      BY <3>1, <3>2
  <2>9. ASSUME Told("degraded")' PROVE \E i \in DOMAIN p.errors : p.errors[i] = "degraded"
    <3>1. PICK i \in DOMAIN errors' : errors'[i] = "degraded"
      BY <2>9 DEF Told
    <3>2. PICK list : list = Existing(q.errors)
      OBVIOUS
    <3>3. list \in Seq(Notes) /\ errors' = Append(list, "budget")
      BY <2>1, <2>6, <3>2
    <3>4. i \in DOMAIN list /\ list[i] = "degraded"
      BY <3>1, <3>3
    <3>5. list = <<>> \/ list = p.errors \/ list = <<"stub">>
      BY <3>2 DEF Existing, Stubbed
    <3> QED
      BY <3>4, <3>5
  <2> HIDE DEF q
  <2> QED
    BY <2>4, <2>5, <2>7, <2>8, <2>9
<1> QED
  BY <1>1, <1>2

(* A payload that had to be rebuilt has its fields, and an entry more if   *)
(* a leaf was stubbed.                                                     *)
LEMMA FinalizedOk ==
  ASSUME NEW p, PayloadOk(p), NEW lost \in BOOLEAN
  PROVE  /\ PayloadOk(Finalized(p, lost))
         /\ DOMAIN Finalized(p, lost).fields = DOMAIN p.fields
         /\ Finalized(p, lost).errors = IF Dropped(p, lost) THEN Append(p.errors, "degraded") ELSE p.errors
<1>1. Finalized(p, lost).errors \in Seq(Notes)
  <2>1. p.errors \in Seq(Notes) /\ "degraded" \in Notes
    BY DEF PayloadOk, Notes
  <2> QED
    BY <2>1 DEF Finalized
<1>2. \A v \in Value : Sanitized(v) \in Value
  <2> SUFFICES ASSUME NEW v \in Value PROVE [v EXCEPT !.kind = "plain"] \in Value
    BY DEF Sanitized
  <2>1. v \in [size : Nat, quotes : Nat, kind : Kinds] /\ v.quotes <= v.size
    BY DEF Value
  <2>2. [v EXCEPT !.kind = "plain"] \in [size : Nat, quotes : Nat, kind : Kinds]
    BY <2>1 DEF Kinds
  <2> QED
    BY <2>1, <2>2 DEF Value
<1>3. FieldsOk(Finalized(p, lost).fields)
  BY <1>2 DEF PayloadOk, FieldsOk, Finalized
<1> QED
  BY <1>1, <1>3 DEF PayloadOk, Finalized

(* A payload is submitted.                                                 *)
LEMMA SubmitStep ==
  ASSUME PayloadInv, Submit
  PROVE  PayloadInv'
<1>1. PICK lost \in BOOLEAN :
        LET p == [fields |-> fields, errors |-> errors]
        IN  lossy' = (lossy \/ lost) /\ Enforce(IF Encodable(p, lost) THEN p ELSE Finalized(p, lost), High)
  BY DEF Submit
<1>2. phase = "captured" /\ phase' = "submitted" /\ Limit' = High
  BY DEF Submit, Limit
<1>3. PICK p : p = IF Encodable(Shipped, lost) THEN Shipped ELSE Finalized(Shipped, lost)
  OBVIOUS
<1>4. Enforce(p, High) /\ lossy' = (lossy \/ lost)
  BY <1>1, <1>3 DEF Shipped
<1>5. High \in Nat
  BY PayloadAssumption
<1>6. PayloadOk(p)
  BY <1>3, FinalizedOk DEF PayloadInv
<1>7. TrimsLeast'
  BY <1>2, <1>4, <1>5, <1>6, EnforcedLeast
<1>8. /\ PayloadOk(Shipped') /\ Records(Shipped') = Records(p)
      /\ \A i \in DOMAIN p.errors :
           p.errors[i] # "stub" =>
             Told(p.errors[i])' \/ (Records(Shipped') = {"top"} /\ Told("budget")')
      /\ \A f \in DOMAIN fields' : Told("budget")' \/ (f \in DOMAIN p.fields /\ fields'[f] = p.fields[f])
      /\ Told("degraded")' => \E i \in DOMAIN p.errors : p.errors[i] = "degraded"
  BY <1>4, <1>5, <1>6, EnforcedTold
<1>9. /\ errors = <<>> /\ \A f \in DOMAIN fields : fields[f].kind # "stub"
      /\ lossy <=> \E f \in DOMAIN fields : fields[f].kind = "stray"
  BY <1>2 DEF PayloadInv
<1>10. \A f \in DOMAIN p.fields : p.fields[f].kind # "stub"
  <2>1. CASE p = Shipped
    BY <1>9, <2>1 DEF Shipped
  <2>2. CASE p = Finalized(Shipped, lost)
    <3>1. \A v \in Value : v.kind # "stub" => Sanitized(v).kind # "stub"
      BY DEF Sanitized, Value
    <3>2. \A f \in DOMAIN fields : fields[f] \in Value
      BY DEF PayloadInv, PayloadOk, FieldsOk, Shipped
    <3> QED
      BY <1>9, <2>2, <3>1, <3>2 DEF Finalized, Shipped
  <2> QED
    BY <1>3, <2>1, <2>2
<1>11. (\E f \in DOMAIN fields' : fields'[f].kind = "stub") => Told("budget")'
  BY <1>8, <1>10
<1>12. Dropped(Shipped, lost) <=> lossy'
  BY <1>4, <1>9 DEF Dropped, Shipped
<1>13. p.errors = IF Dropped(Shipped, lost) THEN <<"degraded">> ELSE <<>>
  <2>1. CASE Encodable(Shipped, lost)
    <3>1. ~Dropped(Shipped, lost)
      BY <2>1 DEF Encodable, Dropped, Unencodable
    <3> QED
      BY <1>3, <1>9, <2>1, <3>1 DEF Shipped
  <2>2. CASE ~Encodable(Shipped, lost)
    <3>1. p.errors = IF Dropped(Shipped, lost) THEN Append(errors, "degraded") ELSE errors
      BY <1>3, <2>2 DEF Finalized, Shipped
    <3> QED
      BY <1>9, <3>1
  <2> QED
    BY <2>1, <2>2
<1>14. lossy' => Told("degraded")' \/ (Records(Shipped') = {"top"} /\ Told("budget")')
  <2> SUFFICES ASSUME lossy' PROVE Told("degraded")' \/ (Records(Shipped') = {"top"} /\ Told("budget")')
    OBVIOUS
  <2>1. 1 \in DOMAIN p.errors /\ p.errors[1] = "degraded"
    BY <1>12, <1>13
  <2> QED
    BY <1>8, <2>1
<1>15. Told("degraded")' => lossy'
  BY <1>8, <1>12, <1>13
<1>16. lossy' \in BOOLEAN
  BY <1>4 DEF PayloadInv
<1> QED
  BY <1>2, <1>7, <1>8, <1>11, <1>14, <1>15, <1>16 DEF PayloadInv, TrimExact, LossTold

(* A span that does not fit a request alone is trimmed again.              *)
LEMMA RetrimStep ==
  ASSUME PayloadInv, Retrim
  PROVE  PayloadInv'
<1>1. PICK p : p = Shipped
  OBVIOUS
<1>2. phase = "submitted" /\ phase' = "sending" /\ Limit' = Low /\ Enforce(p, Low) /\ lossy' = lossy
  BY <1>1 DEF Retrim, Limit, Shipped
<1>3. Low \in Nat /\ PayloadOk(p)
  BY <1>1, PayloadAssumption DEF PayloadInv
<1>4. TrimsLeast'
  BY <1>2, <1>3, EnforcedLeast
<1>5. /\ PayloadOk(Shipped') /\ Records(Shipped') = Records(p)
      /\ \A i \in DOMAIN p.errors :
           p.errors[i] # "stub" =>
             Told(p.errors[i])' \/ (Records(Shipped') = {"top"} /\ Told("budget")')
      /\ \A f \in DOMAIN fields' : Told("budget")' \/ (f \in DOMAIN p.fields /\ fields'[f] = p.fields[f])
      /\ Told("degraded")' => \E i \in DOMAIN p.errors : p.errors[i] = "degraded"
  BY <1>2, <1>3, EnforcedTold
<1>6. p.fields = fields /\ p.errors = errors
  BY <1>1 DEF Shipped
<1>7. /\ (\E f \in DOMAIN fields : fields[f].kind = "stub") => Told("budget")
      /\ lossy => Told("degraded") \/ (Records(p) = {"top"} /\ Told("budget"))
      /\ Told("degraded") => lossy
  BY <1>1, <1>2 DEF PayloadInv, TrimExact, LossTold
<1>8. \A e \in {"degraded", "budget"} :
        Told(e) => \E i \in DOMAIN p.errors : p.errors[i] = e /\ p.errors[i] # "stub"
  BY <1>6 DEF Told
<1>9. \A e \in {"degraded", "budget"} :
        Told(e) => Told(e)' \/ (Records(Shipped') = {"top"} /\ Told("budget")')
  BY <1>5, <1>8
<1>10. (\E f \in DOMAIN fields' : fields'[f].kind = "stub") => Told("budget")'
  BY <1>5, <1>6, <1>7, <1>9
<1>11. lossy' => Told("degraded")' \/ (Records(Shipped') = {"top"} /\ Told("budget")')
  BY <1>2, <1>5, <1>7, <1>9
<1>12. Told("degraded")' => lossy'
  BY <1>2, <1>5, <1>6, <1>7 DEF Told
<1> QED
  BY <1>2, <1>4, <1>5, <1>10, <1>11, <1>12 DEF PayloadInv, TrimExact, LossTold

(* A payload loses no more than it must to fit, whatever of it became a    *)
(* placeholder is told, and no payload without one is called degraded      *)
(* (marshalSpanBody, trimEncodedSpan).                                     *)
THEOREM TrimsAreExact == PayloadSpec => []TrimExact
<1>1. PayloadInit => PayloadInv
  <2> SUFFICES ASSUME PayloadInit PROVE PayloadInv
    OBVIOUS
  <2>1. FieldsOk(fields) /\ \A f \in DOMAIN fields : fields[f].kind # "stub"
    BY PayloadAssumption DEF PayloadInit
  <2>2. PayloadOk(Shipped)
    <3>1. errors \in Seq(Notes)
      BY DEF PayloadInit
    <3> QED
      BY <2>1, <3>1 DEF PayloadOk, Shipped
  <2>3. lossy \in BOOLEAN /\ (lossy <=> \E f \in DOMAIN fields : fields[f].kind = "stray")
    BY DEF PayloadInit
  <2>4. TrimExact
    BY DEF PayloadInit, TrimExact, TrimsLeast, LossTold
  <2> QED
    BY <2>1, <2>2, <2>3, <2>4 DEF PayloadInv, PayloadInit
<1>2. PayloadInv /\ [PayloadNext]_payloadVars => PayloadInv'
  <2> SUFFICES ASSUME PayloadInv, [PayloadNext]_payloadVars PROVE PayloadInv'
    OBVIOUS
  <2>1. CASE Submit
    BY <2>1, SubmitStep
  <2>2. CASE Retrim
    BY <2>2, RetrimStep
  <2>3. CASE UNCHANGED payloadVars
    BY <2>3 DEF payloadVars, PayloadInv, TrimExact, TrimsLeast, LossTold, Shipped, Told, Limit
  <2> QED
    BY <2>1, <2>2, <2>3 DEF PayloadNext
<1>3. PayloadInv => TrimExact
  BY DEF PayloadInv
<1> QED
  BY <1>1, <1>2, <1>3, PTL DEF PayloadSpec
=============================================================================
