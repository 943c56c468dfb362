------------------------------ MODULE ReplayRun ------------------------------
(***************************************************************************)
(* One call of Client.Replay: the checks before its first request, the     *)
(* workers that replay the items (each with its database branch, its call  *)
(* of the host's function and its progress events), the delivery records   *)
(* httpClient keeps of every tracked trace while carriers are submitted    *)
(* and acknowledged, the wait until the traces are persisted, and the      *)
(* completion of the experiment.                                           *)
(*                                                                         *)
(* An item is its index in start.Items and stands for its local trace too. *)
(* Process concurrency is one step here; ReplayChildren has its detail.    *)
(***************************************************************************)
EXTENDS FiniteSets, ReplayOptions

CONSTANTS
  Calls,        \* the options a host may call with
  MaxSources,   \* bounds the source traces the server returns
  Items,        \* 1 .. n, the most items a run may have
  Workers,      \* goroutines; MaxConcurrency of them at most run
  Spans         \* spans the function may open in a trace

Closing == "closing"            \* the carrier of a trace's completion
Carriers == Spans \cup {Closing}

(* A given Concurrency is not nil, resolved or not; there is a goroutine   *)
(* for every item, should the host ask for as many.                        *)
ASSUME RunAssumption ==
  /\ \A o \in Calls :
       Passable(o) /\ (o.concurrency # None => ConcurrencyDefaults(o.concurrency) # None)
  /\ IsFiniteSet(Items) /\ Items = 1 .. Cardinality(Items)
  /\ IsFiniteSet(Workers) /\ Cardinality(Items) <= Cardinality(Workers)
  /\ IsFiniteSet(Spans) /\ Closing \notin Spans
  /\ MaxSources \in Nat

VARIABLES
  raw,          \* the options as passed
  options,      \* as resolved
  phase,        \* where the calling goroutine is
  requests,     \* requests of the run itself that were sent
  total,        \* len(start.Items)
  sources,      \* source traces among them
  offered,      \* branch the server put in each item: none, lease or error
  next,         \* next index of the jobs channel
  pc,           \* where each worker is
  job,          \* its index
  lease,        \* each item's branch: none, held or released
  outcome,      \* each item of result.Items
  started, completed, succeeded, errored,    \* replayProgressState
  finished,     \* history: how often each item was reported finished
  carrier,      \* each trace's carriers on their way
  deliveries,   \* httpClient.traceDeliveries
  reports,      \* deliveries taken by waitForReplayPersistence
  readBack,     \* traces whose server id it knows
  deadline,     \* its deadline has passed
  warned,       \* traces it logged as unconfirmed
  cancelled     \* ctx

main == <<raw, options, phase, requests>>
plan == <<total, sources, offered>>
progress == <<started, completed, succeeded, errored, finished>>
delivery == <<carrier, deliveries>>
wait == <<reports, readBack, deadline, warned>>
vars == <<main, plan, next, pc, job, lease, outcome, progress, delivery, wait, cancelled>>

(* baseReplayItem, and what runReplayItem makes of it. *)
BaseItem == [error |-> "none", executed |-> FALSE]

Active == 1 .. total
Executed == {i \in Active : outcome[i].executed}
InProcess == options.concurrency # None /\ options.concurrency.primitive = "process" /\ ~options.dryRun
Branched == options.branch # None /\ ~options.dryRun

Init ==
  /\ raw \in Calls /\ options = raw
  /\ phase = "called" /\ requests = <<>>
  /\ total = 0 /\ sources = 0 /\ offered = [i \in Items |-> "none"]
  /\ next = 1
  /\ pc = [w \in Workers |-> "off"] /\ job = [w \in Workers |-> 0]
  /\ lease = [i \in Items |-> "none"]
  /\ outcome = [i \in Items |-> BaseItem]
  /\ started = 0 /\ completed = 0 /\ succeeded = 0 /\ errored = 0
  /\ finished = [i \in Items |-> 0]
  /\ carrier = [i \in Items |-> [c \in Carriers |-> "none"]]
  /\ deliveries = [i \in Items |-> None]
  /\ reports = [i \in Items |-> None]
  /\ readBack = {} /\ deadline = FALSE /\ warned = {}
  /\ cancelled = FALSE

------------------------------------------------------------------------------
(* The delivery records of httpClient, each operation under deliveryMu.    *)

NoDelivery ==
  [submitted |-> {}, acked |-> {}, closed |-> FALSE, closingAcked |-> FALSE, server |-> FALSE]

(* trackTraceDeliveries *)
Track(ids) ==
  [i \in Items |-> IF i \in ids /\ deliveries[i] = None THEN NoDelivery ELSE deliveries[i]]

(* recordSubmittedCarrier *)
RecordSubmitted(i, c) ==
  LET entry == deliveries[i]
  IN  [deliveries EXCEPT ![i] =
        IF entry = None THEN None
        ELSE IF c = Closing THEN [entry EXCEPT !.closed = TRUE]
        ELSE [entry EXCEPT !.submitted = entry.submitted \cup {c}]]

(* recordServerTraceIDs and recordDeliveredCarriers, for one carrier *)
RecordDelivered(i, c) ==
  LET entry == deliveries[i]
  IN  [deliveries EXCEPT ![i] =
        IF entry = None THEN None
        ELSE IF c = Closing THEN [entry EXCEPT !.closingAcked = TRUE, !.server = TRUE]
        ELSE [entry EXCEPT !.acked = entry.acked \cup {c}, !.server = TRUE]]

ClosingOnly(entry) ==          \* a mutant: forgets the spans
  [spanCount |-> Cardinality(entry.submitted), closed |-> entry.closed,
   delivered |-> entry.closingAcked, server |-> entry.server]

(* takeTraceDeliveries: what it reports of an entry ... *)
Report(entry) ==
  [spanCount |-> Cardinality(entry.submitted),
   closed    |-> entry.closed,
   delivered |-> entry.closingAcked /\ entry.submitted \subseteq entry.acked,
   server    |-> entry.server]

(* ... and that it deletes it. *)
Take(ids) ==
  /\ reports' = [i \in Items |->
       IF i \in ids /\ deliveries[i] # None THEN Report(deliveries[i]) ELSE None]
  /\ deliveries' = [i \in Items |-> IF i \in ids THEN None ELSE deliveries[i]]

HasClosed(ids) == \E i \in ids : deliveries[i] # None /\ deliveries[i].closed

------------------------------------------------------------------------------
(* Carriers on their way, beside whatever the run is doing.  A span that   *)
(* was begun and that the content gate lets through is recorded and then   *)
(* handed to the transport; the completion follows when no span is left.   *)
(* A carrier that stays recorded is one that is queued or lost.            *)

Beside ==
  /\ phase \notin {"failed", "returned"}        \* what happens later is nothing to this call
  /\ UNCHANGED <<main, plan, next, pc, job, lease, outcome, progress, wait, cancelled>>

Submit(i, c) ==
  /\ carrier[i][c] = "begun"
  /\ c = Closing => \A s \in Spans : carrier[i][s] # "begun"
  /\ carrier' = [carrier EXCEPT ![i][c] = "recorded"]
  /\ deliveries' = RecordSubmitted(i, c)
  /\ Beside

(* The server stores the carrier and its answer is lost, or it is read:    *)
(* the ids it tells (sendTransportRequest), then the delivery (send).      *)
Store(i, c) ==
  /\ carrier[i][c] = "recorded"
  /\ \/ /\ carrier' = [carrier EXCEPT ![i][c] = "stored"]
        /\ UNCHANGED deliveries
     \/ /\ carrier' = [carrier EXCEPT ![i][c] = "acked"]
        /\ deliveries' = RecordDelivered(i, c)
  /\ Beside

Stored(i) == {c \in Carriers : carrier[i][c] \in {"stored", "acked"}}

------------------------------------------------------------------------------
(* The calling goroutine, up to the workers. *)

(* Replay refuses the call before any request, or resolves its options. *)
Check ==
  /\ phase = "called"
  /\ IF Accepted(raw)
     THEN options' = Resolved(raw) /\ phase' = "start"
     ELSE options' = options /\ phase' = "refused"
  /\ UNCHANGED <<raw, requests, plan, next, pc, job, lease, outcome, progress, delivery,
                 wait, cancelled>>

(* startReplay, the items of every attempt, and the local traces.  A dry   *)
(* run is the one start the server answers without an experiment.          *)
StartReplay ==
  /\ phase = "start"
  /\ requests' = Append(requests, "start")
  /\ \/ /\ phase' = "failed"
        /\ UNCHANGED <<plan, pc, deliveries>>
     \/ \E n \in 0 .. MaxSources :
          /\ ~cancelled
          /\ n * options.attempts \in Items \cup {0}
          /\ sources' = n /\ total' = n * options.attempts
          /\ offered' \in [Items -> IF Branched THEN {"none", "lease", "error"} ELSE {"none"}]
          /\ \A i \in Items : i > n => offered'[i] = "none"
          /\ deliveries' =
               IF options.dryRun \/ InProcess THEN deliveries ELSE Track(1 .. total')
          /\ phase' = IF total' = 0 THEN "gather" ELSE "running"
          /\ LET count == IF options.maxConcurrency < total' THEN options.maxConcurrency ELSE total'
                 chosen == CHOOSE W \in SUBSET Workers :
                             Cardinality(W) = IF InProcess THEN 0 ELSE count
             IN  pc' = [w \in Workers |-> IF w \in chosen THEN "idle" ELSE "off"]
  /\ UNCHANGED <<raw, options, next, job, lease, outcome, progress, carrier, wait, cancelled>>

(* runReplayProcesses, in one step: the children's results.  A child that  *)
(* was not admitted any more is reported finished without a start, and     *)
(* without a directory for them none of them is reported at all.           *)
RunProcesses ==
  /\ phase = "running" /\ InProcess
  /\ \E done \in SUBSET Active :
       /\ outcome' \in [Items -> [error : {"none", "setup", "trace"}, executed : BOOLEAN]]
       /\ \A i \in Items :
            /\ outcome'[i].executed <=> i \in done
            /\ i \notin done => outcome'[i].error = IF i \in Active THEN "setup" ELSE "none"
       /\ \/ /\ completed' = total
             /\ started' \in IF cancelled THEN Cardinality(done) .. total ELSE {total}
             /\ errored' = Cardinality({i \in Active : outcome'[i].error # "none"})
             /\ succeeded' = total - errored'
             /\ finished' = [i \in Items |-> IF i \in Active THEN 1 ELSE 0]
          \/ done = {} /\ UNCHANGED progress
  /\ phase' = "gather"
  /\ UNCHANGED <<raw, options, requests, plan, next, pc, job, lease, delivery, wait, cancelled>>

Cancel ==
  /\ phase \notin {"called", "refused", "failed", "returned"} /\ ~cancelled
  /\ cancelled' = TRUE
  /\ UNCHANGED <<main, plan, next, pc, job, lease, outcome, progress, delivery, wait>>

------------------------------------------------------------------------------
(* The workers of runReplayItems. *)

Idle == UNCHANGED <<main, plan, wait, cancelled>>
Go(w, there) == pc' = [pc EXCEPT ![w] = there]
SetupError(w) == outcome' = [outcome EXCEPT ![job[w]] = [BaseItem EXCEPT !.error = "setup"]]

HasJob == next <= total

(* An index from the channel, and reportStart; or the channel is closed.   *)
TakeJob(w) ==
  /\ phase = "running" /\ pc[w] = "idle"
  /\ IF HasJob
     THEN /\ job' = [job EXCEPT ![w] = next]
          /\ next' = next + 1
          /\ started' = started + 1
          /\ Go(w, "prepare")
     ELSE /\ Go(w, "off")
          /\ UNCHANGED <<job, next, started>>
  /\ UNCHANGED <<lease, outcome, completed, succeeded, errored, finished, delivery>> /\ Idle

(* runReplayItem up to the host's function: the plan of a selective        *)
(* replay, the branch that was offered or is resolved now, the recorded    *)
(* span, the inputs and the mock tree, each of which may fail with the     *)
(* branch in hand or before.  A dry run ends here.                         *)
Prepare(w) ==
  LET i == job[w]
      Held(l) == lease' = [lease EXCEPT ![i] = l]
      Fail == SetupError(w) /\ Go(w, "release")
      Proceed == ~cancelled /\ UNCHANGED outcome /\ Go(w, IF options.dryRun THEN "release" ELSE "call")
  IN
  /\ pc[w] = "prepare"
  /\ \/ offered[i] = "lease" /\ Held("held") /\ (Fail \/ Proceed)
     \/ offered[i] = "error" /\ Fail /\ UNCHANGED lease
     \/ offered[i] = "none" /\ (Fail \/ Proceed) /\ UNCHANGED lease
     \/ offered[i] = "none" /\ Branched /\ ~cancelled /\ Held("held") /\ (Fail \/ Proceed)
  /\ UNCHANGED <<next, job, progress, delivery>> /\ Idle

(* The host's function inside a managed root span: with capture off there  *)
(* is no trace, else a completion and the spans that will be uploaded.     *)
Call(w) ==
  /\ pc[w] = "call"
  /\ \E begun \in {{}} \cup {spans \cup {Closing} : spans \in SUBSET Spans} :
       carrier' = [carrier EXCEPT ![job[w]] = [c \in Carriers |-> IF c \in begun THEN "begun" ELSE "none"]]
  /\ \E error \in {"none", "trace"} :
       outcome' = [outcome EXCEPT ![job[w]] = [@ EXCEPT !.error = error, !.executed = TRUE]]
  /\ Go(w, "release")
  /\ UNCHANGED <<next, job, lease, progress, deliveries>> /\ Idle

ReleasedIfLive(l) == IF l = "held" /\ ~cancelled THEN "released" ELSE l   \* a mutant: on ctx

Released(l) == IF l = "held" THEN "released" ELSE l

(* The deferred release, on a context that is not cancelled. *)
Release(w) ==
  /\ pc[w] = "release"
  /\ lease' = [lease EXCEPT ![job[w]] = Released(@)]
  /\ Go(w, IF outcome[job[w]].executed THEN "fill" ELSE "report")
  /\ UNCHANGED <<next, job, outcome, progress, delivery>> /\ Idle

(* fillFinishedReplayTraceID: one worker at a time flushes the traces to   *)
(* learn the id the server gave its trace (for the finish event only).     *)
FillTraceID(w) ==
  \/ /\ pc[w] = "fill" /\ \A v \in Workers : pc[v] # "flush"
     /\ Go(w, "flush")
     /\ UNCHANGED <<next, job, lease, outcome, progress, delivery>> /\ Idle
  \/ /\ pc[w] = "flush"
     /\ Go(w, "report")
     /\ UNCHANGED <<next, job, lease, outcome, progress, delivery>> /\ Idle

Succeeded(item) == item.error = "none"

(* reportFinish *)
ReportFinish(w) ==
  /\ pc[w] = "report"
  /\ completed' = completed + 1
  /\ IF Succeeded(outcome[job[w]])
     THEN succeeded' = succeeded + 1 /\ UNCHANGED errored
     ELSE errored' = errored + 1 /\ UNCHANGED succeeded
  /\ finished' = [finished EXCEPT ![job[w]] = @ + 1]
  /\ job' = [job EXCEPT ![w] = 0]
  /\ Go(w, "idle")
  /\ UNCHANGED <<next, lease, outcome, started, delivery>> /\ Idle

WorkerStep(w) ==
  \/ TakeJob(w) \/ Prepare(w) \/ Call(w) \/ Release(w) \/ FillTraceID(w) \/ ReportFinish(w)

------------------------------------------------------------------------------
(* The calling goroutine, after the workers. *)

Rest == UNCHANGED <<raw, options, plan, next, pc, job, lease, progress, carrier, cancelled>>

WorkersDone ==
  /\ phase = "running" /\ ~InProcess /\ \A w \in Workers : pc[w] = "off"
  /\ phase' = "gather"
  /\ UNCHANGED <<requests, outcome, deliveries, wait>> /\ Rest

(* A dry run returns; an older server's experiment is completed first,     *)
(* whatever comes of it.  Else waitForReplayPersistence begins: without a  *)
(* closed trace there is nothing to wait for.                              *)
Gather ==
  /\ phase = "gather"
  /\ IF options.dryRun
     THEN /\ phase' = "returned"
          /\ \E older \in BOOLEAN : requests' = IF older THEN Append(requests, "complete") ELSE requests
          /\ UNCHANGED <<deliveries, wait>>
     ELSE /\ UNCHANGED requests
          /\ IF HasClosed(Executed)
             THEN phase' = "flush" /\ UNCHANGED <<deliveries, wait>>
             ELSE /\ phase' = "complete"
                  /\ Take(Executed) /\ reports' = reports'
                  /\ UNCHANGED <<readBack, deadline, warned>>
  /\ UNCHANGED outcome /\ Rest

(* FlushTraces, then the reports; all delivered means no question asked.   *)
TakeReports ==
  /\ phase = "flush"
  /\ Take(Executed)
  /\ readBack' = {i \in Executed : reports'[i] # None /\ reports'[i].server}
  /\ phase' = IF \A i \in Executed : reports'[i] # None /\ reports'[i].closed => reports'[i].delivered
              THEN "complete" ELSE "poll"
  /\ UNCHANGED <<requests, outcome, deadline, warned>> /\ Rest

Expected == {i \in Items : reports[i] # None /\ reports[i].closed}

(* What the server's status may say: the id of a trace that is closed and  *)
(* has at least the expected spans.                                        *)
Persisted == {i \in Expected : Closing \in Stored(i) /\ Cardinality(Stored(i) \ {Closing}) >= reports[i].spanCount}

(* getReplayStatus answered. *)
Poll ==
  /\ phase = "poll" /\ ~cancelled
  /\ \E known \in SUBSET Persisted :
       LET missing == Expected \ known IN
       /\ readBack' = readBack \cup known
       /\ IF missing = {} THEN phase' = "complete" /\ UNCHANGED warned
          ELSE IF deadline THEN phase' = "complete" /\ warned' = missing
          ELSE UNCHANGED <<phase, warned>>
  /\ UNCHANGED <<requests, outcome, deliveries, reports, deadline>> /\ Rest

GivesUpCancelled == cancelled            \* a mutant: no deadline

GivesUp == deadline \/ cancelled

(* getReplayStatus failed at the deadline, or the context is cancelled.    *)
PollFails ==
  /\ phase = "poll" /\ GivesUp
  /\ phase' = "failed"
  /\ UNCHANGED <<requests, outcome, deliveries, wait>> /\ Rest

DeadlinePasses ==
  /\ phase = "poll" /\ ~deadline
  /\ deadline' = TRUE
  /\ UNCHANGED <<phase, requests, outcome, deliveries, reports, readBack, warned>> /\ Rest

(* completeReplay and enrichReplayItems. *)
Complete ==
  /\ phase = "complete"
  /\ requests' = Append(requests, "complete")
  /\ phase' = "failed" \/ (phase' = "returned" /\ ~cancelled)
  /\ UNCHANGED <<outcome, deliveries, wait>> /\ Rest

------------------------------------------------------------------------------
CarrierStep ==
  \E i \in Items, c \in Carriers :
    Submit(i, c) \/ Store(i, c)

MainStep ==
  \/ Check \/ StartReplay \/ RunProcesses \/ WorkersDone \/ Gather \/ TakeReports
  \/ Poll \/ PollFails \/ DeadlinePasses \/ Complete

Next == MainStep \/ (\E w \in Workers : WorkerStep(w)) \/ CarrierStep \/ Cancel

Spec == Init /\ [][Next]_vars

(* Some goroutine of the run takes its next step as long as one can: the   *)
(* function and the requests return (each has a timeout), the deadline     *)
(* passes.  The server need never answer well, carriers may stay where     *)
(* they are, and nobody need cancel.                                       *)
RunStep ==
  \/ Check \/ StartReplay \/ RunProcesses \/ WorkersDone \/ Gather \/ TakeReports
  \/ DeadlinePasses \/ PollFails \/ Complete
  \/ \E w \in Workers : WorkerStep(w)

FairSpec == Spec /\ WF_vars(RunStep)

------------------------------------------------------------------------------
Final == {"refused", "failed", "returned"}

(* Replay is silent about a trace only if all of it arrived: once the wait *)
(* is over, a trace whose completion had been submitted and of which no    *)
(* warning was logged is at the server, closed and with every span that    *)
(* was counted (waitForReplayPersistence). The delivery records a run      *)
(* leaves behind are those of the items whose function never ran:          *)
(* takeTraceDeliveries is asked for the others only.                       *)
SilenceMeansStored ==
  /\ phase \in {"complete", "returned"} =>
       \A i \in Expected \ warned :
         Closing \in Stored(i) /\ Cardinality(Stored(i) \ {Closing}) >= reports[i].spanCount
  /\ phase \in {"complete", "returned"} /\ ~options.dryRun =>
       \A i \in Items : deliveries[i] # None => i \in Active \ Executed

(* A database branch is held while the function runs that was promised one *)
(* and is given back, whatever failed or was cancelled, by the time its    *)
(* item is reported (the deferred release of runReplayItem).               *)
BranchesReturned ==
  /\ \A i \in Items : lease[i] = "held" =>
       \E w \in Workers : job[w] = i /\ pc[w] \in {"prepare", "call", "release"}
  /\ \A i \in Items : lease[i] = "released" => i < next
  /\ \A w \in Workers : pc[w] = "call" /\ offered[job[w]] = "lease" => lease[job[w]] = "held"

(* The progress events: no item is reported finished twice, the counters   *)
(* count exactly the items that were, and once the workers are done every  *)
(* item was, unless no child process could be prepared ("emitted exactly   *)
(* once after each item settles").                                         *)
ProgressExact ==
  /\ \A i \in Items : finished[i] <= 1
  /\ completed = Cardinality({i \in Items : finished[i] = 1})
  /\ completed = succeeded + errored /\ started <= total /\ (InProcess \/ completed <= started)
  /\ errored = Cardinality({i \in Items : finished[i] = 1 /\ outcome[i].error # "none"})
  /\ phase \in {"gather", "flush", "poll", "complete", "returned"} =>
       completed = total \/ (InProcess /\ completed = 0 /\ Executed = {})

(* What was begun for an item is ended: its branch and its progress, each  *)
(* once (runReplayItem, reportStart, reportFinish).                        *)
ItemsSettled == BranchesReturned /\ ProgressExact

(* A refused call has sent nothing, and what a host asked of an accepted   *)
(* one is never overridden by a default or by another option: its attempts *)
(* and its workers, whichever of the two ways they were given              *)
(* (normalizeReplayOptions, normalizeReplayConcurrency).                   *)
AskedOrRefused ==
  /\ phase = "refused" => requests = <<>> /\ \A i \in Items : deliveries[i] = None
  /\ requests # <<>> =>
       LET asked == IF raw.concurrency # None THEN {raw, raw.concurrency} ELSE {raw}
       IN  /\ \A a \in asked : /\ a.attempts \in {0, options.attempts}
                               /\ a.maxConcurrency \in {0, options.maxConcurrency}
           /\ options.attempts \in 1 .. MaxAttempts
           /\ Cardinality({w \in Workers : pc[w] # "off"}) <= options.maxConcurrency

(* The run asks for exactly the data sets the host selected, by either of  *)
(* the two fields, each once (resolveDatasetIDs).                          *)
DatasetsOnce ==
  requests # <<>> =>
    LET sets == (IF raw.datasetIDs = None THEN {} ELSE Range(raw.datasetIDs)) \cup ({raw.datasetID} \ {None})
    IN  IF sets = {} THEN options.datasetIDs = None
        ELSE Range(options.datasetIDs) = sets /\ IsInjective(options.datasetIDs)

(* A replay that was called returns, fails or is refused. *)
ReplayReturns == [](phase = "called" => <>(phase \in Final))
=============================================================================
