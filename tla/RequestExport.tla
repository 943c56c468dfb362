---------------------------- MODULE RequestExport ----------------------------
(***************************************************************************)
(* One export of a batch of spans (otel.go bitfabSpanExporter.ExportSpans):*)
(* the batch is split into requests, a bounded number of workers send      *)
(* them, and a server that answers with Retry-After throttles them all.    *)
(* Each request has a budget of time for its attempts and waits.  Time is  *)
(* counted in ticks and passes only while every goroutine waits.           *)
(***************************************************************************)
EXTENDS Integers

CONSTANTS
  N,            \* requests of the batch, sent in order
  Workers,      \* min(exportConcurrency, N) of them
  MaxAttempts,  \* otelMaxAttempts
  Budget,       \* otelExportTimeout, of the whole export and of a request
  Base,         \* otelRetryBaseDelay
  Ceiling,      \* otelRetryBackoffCeiling
  RetryAfters,  \* waits a server may ask for; 0 is none
  None

Requests == 1..N

ASSUME ExportAssumption ==
  /\ N \in Nat \ {0}
  /\ MaxAttempts \in Nat \ {0} /\ Budget \in Nat \ {0}
  /\ Base \in Nat /\ Base >= 2 /\ Ceiling \in Nat /\ Ceiling >= 2
  /\ RetryAfters \in SUBSET Nat /\ None \notin Requests
  /\ \A a \in 0..(MaxAttempts - 1) : Base * 2^a \in Nat

VARIABLES
  now, expired,               \* the time, and whether ctx is done
  dispatcher, next, answer,   \* the goroutine of ExportSpans
  pc, job, attempt, deadline, wake,   \* the workers
  throttledUntil,
  result                      \* of each request

clockVars == <<now, expired>>
mainVars == <<dispatcher, next, answer>>
jobVars == <<job, attempt, deadline, wake>>
vars == <<clockVars, mainVars, pc, jobVars, throttledUntil, result>>

Working == {"check", "throttled", "sending", "backoff"}

TypeOK ==
  /\ now \in Nat /\ expired \in BOOLEAN
  /\ dispatcher \in {"dispatch", "collect", "done"}
  /\ next \in 1..(N + 1) /\ answer \in {"none", "ok", "error"}
  /\ pc \in [Workers -> Working \cup {"idle"}]
  /\ job \in [Workers -> Requests \cup {None}]
  /\ attempt \in [Workers -> 0..(MaxAttempts - 1)]
  /\ deadline \in [Workers -> Nat] /\ wake \in [Workers -> Nat]
  /\ throttledUntil \in Nat
  /\ result \in [Requests -> {"none", "ok", "error"}]

Init ==
  /\ now = 0 /\ expired = FALSE
  /\ dispatcher = "dispatch" /\ next = 1 /\ answer = "none"
  /\ pc = [w \in Workers |-> "idle"]
  /\ job = [w \in Workers |-> None]
  /\ attempt = [w \in Workers |-> 0]
  /\ deadline = [w \in Workers |-> 0] /\ wake = [w \in Workers |-> 0]
  /\ throttledUntil = 0
  /\ result = [r \in Requests |-> "none"]

-----------------------------------------------------------------------------
(* Time passes while no timer is due, no request is past its deadline and  *)
(* ctx, which the batch processor gave Budget as well, is done in time.    *)
Tick ==
  /\ dispatcher # "done"
  /\ now < Budget \/ expired
  /\ \A w \in Workers :
       /\ pc[w] # "check"
       /\ pc[w] \in {"throttled", "backoff"} => now < wake[w] /\ ~expired
       /\ pc[w] = "sending" => now < deadline[w]
  /\ \E w \in Workers : pc[w] # "idle"
  /\ now' = now + 1
  /\ UNCHANGED <<expired, mainVars, pc, jobVars, throttledUntil, result>>

(* The processor's timeout, or that of the flush that asked for the export.*)
Expire ==
  /\ ~expired /\ expired' = TRUE
  /\ UNCHANGED <<now, mainVars, pc, jobVars, throttledUntil, result>>

-----------------------------------------------------------------------------
(* A worker that is ready receives the next request, which may prove too   *)
(* large even when it is trimmed.                                          *)
Dispatch(w) ==
  /\ dispatcher = "dispatch" /\ next <= N /\ pc[w] = "idle"
  /\ next' = next + 1
  /\ \/ /\ result' = [result EXCEPT ![next] = "error"]
        /\ UNCHANGED <<pc, jobVars>>
     \/ /\ pc' = [pc EXCEPT ![w] = "check"]
        /\ job' = [job EXCEPT ![w] = next]
        /\ deadline' = [deadline EXCEPT ![w] = now + Budget]
        /\ UNCHANGED <<attempt, wake, result>>
  /\ UNCHANGED <<clockVars, dispatcher, answer, throttledUntil>>

CloseNext ==
  /\ dispatcher = "dispatch"
  /\ next > N \/ expired
  /\ dispatcher' = "collect"
  /\ UNCHANGED <<clockVars, next, answer, pc, jobVars, throttledUntil, result>>

(* Wrong: the requests that were never handed to a worker are forgotten. *)
NoDispatchedFailure == \A r \in Requests : result[r] # "error"

NoFailure == next > N /\ \A r \in Requests : result[r] # "error"

(* Wrong: every request is waited for, handed to a worker or not. *)
AllAnswered == \A r \in Requests : result[r] # "none"

AllIdle == \A w \in Workers : pc[w] = "idle"

(* wg.Wait, and the first error. *)
Collect ==
  /\ dispatcher = "collect" /\ AllIdle
  /\ dispatcher' = "done"
  /\ answer' = IF NoFailure THEN "ok" ELSE "error"
  /\ UNCHANGED <<clockVars, next, pc, jobVars, throttledUntil, result>>

-----------------------------------------------------------------------------
Goto(w, label) == pc' = [pc EXCEPT ![w] = label]

Finish(w, outcome) ==
  /\ result' = [result EXCEPT ![job[w]] = outcome]
  /\ job' = [job EXCEPT ![w] = None]
  /\ attempt' = [attempt EXCEPT ![w] = 0]
  /\ deadline' = [deadline EXCEPT ![w] = 0]
  /\ wake' = [wake EXCEPT ![w] = 0]
  /\ Goto(w, "idle")

Sleep(w, label, until) ==
  /\ wake' = [wake EXCEPT ![w] = until]
  /\ Goto(w, label)
  /\ UNCHANGED <<job, attempt, deadline, result>>

(* Wrong: any wait will do. *)
AlwaysAffordable(w, wait) == TRUE

(* A wait is taken when less than half of the budget that is left. *)
Affordable(w, wait) == wait < (deadline[w] - now) \div 2

(* awaitThrottle; a request that is not throttled counts as sent from here. *)
CheckThrottle(w) ==
  LET wait == throttledUntil - now
  IN /\ pc[w] = "check"
     /\ \/ wait <= 0 /\ Goto(w, "sending") /\ UNCHANGED <<jobVars, result>>
        \/ wait > 0 /\ ~Affordable(w, wait) /\ Finish(w, "error")
        \/ wait > 0 /\ Affordable(w, wait) /\ Sleep(w, "throttled", throttledUntil)
     /\ UNCHANGED <<clockVars, mainVars, throttledUntil>>

(* The throttle waited for is over; a new one is not looked for. *)
ThrottleOver(w) ==
  /\ pc[w] = "throttled"
  /\ \/ /\ now >= wake[w]
        /\ Goto(w, "sending")
        /\ wake' = [wake EXCEPT ![w] = 0]
        /\ UNCHANGED <<job, attempt, deadline, result>>
     \/ expired /\ Finish(w, "error")
  /\ UNCHANGED <<clockVars, mainVars, throttledUntil>>

(* The server took the request; it may have rejected some of its spans. *)
Accepted(w) ==
  /\ pc[w] = "sending"
  /\ \E outcome \in {"ok", "error"} : Finish(w, outcome)
  /\ UNCHANGED <<clockVars, mainVars, throttledUntil>>

Least(a, b) == IF a < b THEN a ELSE b

(* The waits the jittered backoff may choose. *)
Backoffs(w) ==
  LET backoff == Least(Base * 2^attempt[w], Ceiling)
  IN backoff \div 2 .. 2 * (backoff \div 2) - 1

(* retryWait: a wait the server asked for is taken as it is. *)
Waits(w, after) == IF after > 0 THEN {after} ELSE Backoffs(w)

Throttle(after) ==
  IF after > 0 /\ now + after > throttledUntil THEN now + after ELSE throttledUntil

LastAttempt(w) == attempt[w] = MaxAttempts - 1

(* No answer, or an error; an answer the request timed out waiting for     *)
(* carries no Retry-After.                                                 *)
Refused(w, after, retryable) ==
  /\ pc[w] = "sending"
  /\ now = deadline[w] => after = 0 /\ retryable
  /\ throttledUntil' = Throttle(after)
  /\ \/ ~retryable /\ Finish(w, "error")
     \/ retryable /\ LastAttempt(w) /\ Finish(w, "error")
     \/ /\ retryable /\ ~LastAttempt(w)
        /\ \E wait \in Waits(w, after) :
             \/ ~Affordable(w, wait) /\ Finish(w, "error")
             \/ Affordable(w, wait) /\ Sleep(w, "backoff", now + wait)
  /\ UNCHANGED <<clockVars, mainVars>>

(* Wrong: a retry does not ask for the throttle. *)
RetryUnchecked == "sending"

Retry == "check"

BackoffOver(w) ==
  /\ pc[w] = "backoff"
  /\ \/ /\ now >= wake[w]
        /\ Goto(w, Retry)
        /\ attempt' = [attempt EXCEPT ![w] = @ + 1]
        /\ wake' = [wake EXCEPT ![w] = 0]
        /\ UNCHANGED <<job, deadline, result>>
     \/ expired /\ Finish(w, "error")
  /\ UNCHANGED <<clockVars, mainVars, throttledUntil>>

Work(w) ==
  \/ CheckThrottle(w) \/ ThrottleOver(w) \/ Accepted(w) \/ BackoffOver(w)
  \/ \E after \in RetryAfters \cup {0}, retryable \in BOOLEAN : Refused(w, after, retryable)

Next ==
  \/ Tick \/ Expire \/ CloseNext \/ Collect
  \/ \E w \in Workers : Dispatch(w) \/ Work(w)

Spec == Init /\ [][Next]_vars

(* Time passes, ctx has a deadline, a request has a timeout, goroutines run.*)
Fairness ==
  /\ WF_vars(Tick) /\ WF_vars(Expire) /\ WF_vars(CloseNext) /\ WF_vars(Collect)
  /\ \A w \in Workers : WF_vars(Work(w)) /\ WF_vars(Dispatch(w))

FairSpec == Spec /\ Fairness

-----------------------------------------------------------------------------
(* An export reports success only when every request of the batch was      *)
(* accepted in full, those that no worker ever received included           *)
(* (otel.go ExportSpans, TestOtel_PartialSuccessFailsTheExport).           *)
SuccessMeansAccepted ==
  answer = "ok" => \A r \in Requests : result[r] = "ok"

Starts(w) == pc[w] # "sending" /\ pc'[w] = "sending"

(* A request is only ever sent with some of its budget left, after any     *)
(* combination of backoffs, Retry-After and the throttles of its siblings: *)
(* a timeout of zero would mean the client's two minutes (http.go          *)
(* sendPreparedMethod).                                                    *)
SentInTime == [][\A w \in Workers : Starts(w) => now < deadline[w]]_vars

(* While a throttle is in force no request is sent but those that were     *)
(* already waiting for an earlier one (otel.go recordThrottle: the         *)
(* requests fanned out alongside respect it too).                          *)
OnlyWaitersOvertake ==
  [][\A w \in Workers : Starts(w) /\ now < throttledUntil => pc[w] = "throttled"]_vars

(* The export returns, whatever the server does: a flush or close that     *)
(* waits for it is not held up for ever (otel.go ExportSpans).             *)
ExportReturns == <>(dispatcher = "done")
=============================================================================
