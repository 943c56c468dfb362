# Formal model of the Bitfab Go SDK

Bitfab's Go SDK records *spans* of a host program, groups them in *traces*, and
uploads them to a server through an OpenTelemetry batch pipeline. What is hard
in it is not any one function. A dozen goroutines (the host's own, output
finalizers, the plan reader, the exporter's workers, whoever flushes or closes
the client) share a handful of small state machines, and the server is told how
many spans a trace has before it has seen them all. This directory models those
state machines in TLA+, checks them with TLC on small instances, and proves the
most important facts about them with TLAPS for every instance.

Paths below are relative to the repository root; line numbers are those of the
commit modelled and are repeated per definition in `PROJECT.json` (`map`).

## 1. Inventory

| Part | State it keeps | Operations | Who calls it |
|---|---|---|---|
| Completion tracker, `trace_completion.go` | per trace: counted spans, active spans, a pending completion; a bounded ledger of closed traces | `start open record forget end abort close` | every span's goroutine, the gate's callbacks |
| Content gate, `simulation_plan.go` | the plan (or that none comes), the queue `held`, the traces being drained, `drainMu`, the reader | `sendSpan sendTrace`, `readPlan`, `release flushHeld stop` | every span's goroutine, the reader goroutine, `FlushTraces`, `Close` |
| Span pipeline, `bitfab.go`, `http.go` | the wiring: closures that record, forget, close and submit | `beginSpan`, `Span`/`End`, `sendTraceCompletion`, `sendSpanPayload`, `sendTracePayload` | the host |
| Trace state and finalizers, `span_context.go`, `finalize.go` | a store of trace states (drop flag, metadata, pending finalizers, deferred completion); the client's count of running finalizers | `Drop` and the setters, `beginSpanFinalizer` and its `done`, `waitAutoFinalizers` | the host, one goroutine per finalizer |
| Exporter, `otel.go`, `transport*.go` | a batch queue, workers, the shared throttle, the count of failed exports | `submit`, `ExportSpans`, `sendWithRetries`, `flush`, `shutdown` | the batch processor, `FlushTraces`, `Close` |
| Delivery tracking, `http.go` | per trace: carriers submitted and acknowledged | `trackTraceDeliveries`, `recordSubmittedCarrier`, `recordDeliveredCarriers`, `takeTraceDeliveries` | replay, the exporter |
| Client close, `bitfab.go`, `http.go` | first closer, its result | `Close`, `FlushTraces` | the host, several goroutines |
| Automatic subtree, `subtree.go`, `auto_scope.go`, `auto_node.go` | the open nodes below a root, truncation, once-only completion, the scope of each goroutine | node begin/end, root close, scope set/restore | instrumented code |
| Replay, `replay.go`, `replay_concurrency.go`, `replay_db_branch.go` | options, branch leases, workers, progress counters, the persistence wait | `Replay`, the worker loop, `waitForReplayPersistence` | the host |
| Replay mocks, `replay_mock.go`, `selective_replay.go` | the tree of recorded spans, call counters, a single-flight output cache; the plan and the calls matched with it | `resolveReplayMock`, `selectiveRuntime.enter` | instrumented code under replay |
| Replay in child processes, `replay_process*.go`, `replay_memory.go` | a child, its result file, its deadline, the memory throttle | start, supervise, collect, `admit`, `observe`, `release` | replay |
| Code change, `replay_code_change.go` | none of its own; the repository and the working tree | the commit to compare with, the files attached | replay |
| Payload budget, `payload_budget.go`, `serialize.go`, `serialized_size.go` | the functions that size types, by type | which values and fields are stubbed to fit a limit | the pipeline, the exporter |
| Seeding, configuration, resource clients, registry, cloud replay, build-time instrumentation, adapters | little or none | see the notes in `PROJECT.json` | |

### How they interact

A span's goroutine registers the span with the tracker (`start`), runs the
user's code, and at the end hands the payload to the gate. The gate either lets
it pass at once or holds it until the *simulation plan* has been read. When a
record leaves the gate, a closure runs: it records or forgets the span at the
tracker and submits the payload to the transport. A root span next hands its
trace's completion to the gate, behind whatever spans of the trace the gate
holds; when the completion leaves the gate the tracker's `close` runs, and the
completion is submitted with the count of spans once no span is active. With
output finalizers the span ends on another goroutine, and the completion is
deferred in the trace state until the last pending finalizer takes it. `Close`
waits for finalizers, releases the gate, stops it, and shuts the transport.

Instead of opening spans by hand the host may let `Trace` capture everything
below it: each instrumented call adds a record to every root it is under, ends on
a goroutine of its own, and the last record to leave a closed root sends its
completion. Which roots a call is under follows from the scope its goroutine is
in.

`Replay` runs recorded traces again. Its workers lease a database branch per
item, call the host's function in a root of its own, in the process or in a
child, with recorded outputs in the place of some calls, and report progress;
the transport's carriers are counted per trace, and `Replay` returns when the
server has stored what was counted, or says that it may not have.

### What is hard, and what must hold

* **Counting while everything moves.** The completion's count has to agree with
  what is uploaded although spans are recorded, forgotten, started late and
  ended out of order. The tracker's ledger must be exact, bounded, and forget
  the oldest trace first.
* **Two drainers.** The reader and `Close` both take batches from the gate's
  queue. Each record must be submitted by exactly one of them, and none after a
  completion that was queued behind it.
* **Withheld content.** No path out of the gate (direct, drained, overflowed,
  closed, failed read) may upload content before a plan allowed it.
* **Deferred completion.** It may be neither lost nor sent twice on its way
  between the root's goroutine, the trace state and a finalizer's goroutine.
* **Drop at any time, on any goroutine.**
* **Liveness.** A failed plan read, an overflowing queue or a close in the
  middle of a drain may not leave a record behind or `Close` hanging. `Replay`
  returns whatever its items, its children and the server do.
* **Roots that outlive their calls.** A root closes while calls below it run,
  hang or have finalizers; its completion must come once, after the last span.
* **What was leased or promised.** Branches, memory and progress events of an
  item are each settled once, on every path.
* **Substitution.** A replayed call may get only the output recorded for it, and
  what a replay is meant to exercise may not be hidden behind a substituted call.
* **Sizes that are counted, not measured.** Requests, payloads and captured
  values are all held to limits by estimates; an estimate on the wrong side
  loses data that would have fitted, or ships what does not.

The full list, each at the line where it bites, is `hazards` in `PROJECT.json`.

## 2. Plan

The upload path comes first, because everything else feeds it and its errors
are silent: a wrong count or a lost completion shows up only as a trace the
server never closes. What drives the host's own code (capture and replay) comes
next, and last what only decides about values.

| Order | Module | Code | State |
|---|---|---|---|
| 1 | `TraceCompletion` (proofs with 3) | `trace_completion.go` | done |
| 2 | `SimulationPlan`, `SimulationPlanProofs` | `simulation_plan.go` | done |
| 3 | `TraceUpload` (abstract), `SpanPipeline` (composes 1 and 2, refines it), `SpanPipelineProofs` | `http.go`, `bitfab.go` | done |
| 4 | `TraceLifecycle` (composes 1), `TraceLifecycleProofs` | `span_context.go`, `finalize.go`, `bitfab.go` | done |
| 5 | `RequestExport`, `RequestExportProofs` | `otel.go` `ExportSpans` and below | done |
| 6 | `ClientTransport`, `ClientTransportProofs` | `otel.go`, `http.go`, `bitfab.go` close and flush | done |
| 7 | `ReplayOptions`, `ReplayRun` with the delivery records, `ReplayRunProofs` | `replay.go`, `replay_concurrency.go`, `replay_db_branch.go`, `http.go` | done |
| 8 | `ReplayChildren`, `ReplayItemProofs` | `replay_process.go`, `replay_memory.go` | done |
| 9 | `AutoSubtree`, `AutoScope`, `CaptureProofs` | `subtree.go`, `auto_node.go`, `auto_scope.go` | done |
| 10 | `ReplayMocks`, `SelectiveReplay` (proofs with 8) | `replay_mock.go`, `selective_replay.go` | done |
| 11 | `RequestBatches`, `PayloadBudget`, `SerializedSize`, `SizeCache` (proofs with 5 and 9) | `otel.go`, `payload_budget.go`, `serialize.go`, `serialized_size.go` | done |
| 12 | `CodeChange` | `replay_code_change.go` | done |

Every safety property and action property of modules 1 to 10, and those of
`RequestBatches` and `SizeCache`, is proved. What is left is computed by recursion or by
folds over data, or is liveness, and stays with TLC (section 5). Proofs of several
components share a module where the components share no variable.

## 3. Modules and code

Each action is one critical section of the code, or one step between two of
them, and carries the name of the function it is in.

**`TraceCompletion`.** `traceCompletion` keeps all its state under one mutex, so
each method is one action. The maps `states` and `closed` are the variables
`tracked`, `spanIDs`, `active`, `complete` and `closed`; `closedOrder` is the
slice of the same name. `drain` is an operator used by the three methods that
call it. `called` holds the count passed to the completion callback, for whoever
composes the module. A span id is counted once, as the code's sets do.

**`SimulationPlan`.** `sendSpan` and `sendTrace` take `p.mu` once and then
deliver outside it, so each is an action (`SendSpan`, `SendTrace`) followed by
`Deliver` or, when the queue was full, `Evict`. The reader goroutine is
`ReaderBegin`, `ReaderRead`, `ReaderLock`, `DrainOne`/`DrainMore`, `ReaderExit`;
`httpClient.close` is `CloseBegin`, `FlushHeld`, drain, `Stop`, and the same
again for the records that arrived meanwhile; `httpClient.flush` is
`FlushBegin`, `FlushAnswer`. A batch taken under the lock is in `batch`, one per
drainer, and `drainer` says who holds `drainMu`. A payload is reduced to how it
leaves: `full`, `stripped` or `discarded`. `allowed` and `ahead` are history
variables of the properties.

**`SpanPipeline`.** Extends the tracker's module, takes the gate as the instance `Gate`,
and adds the closures of `sendSpanPayloadWithPlanPolicy` and `sendTracePayload`: when a
record changes its `fate` in the gate, the same step updates the tracker (`ForgetSpan`,
`Wired`) and hands to the transport what is to be uploaded. A span's goroutine
is `phase`: `Begin` registers it, `EndSpan` looks whether its trace is dropped,
`SendPayload` hands over its payload if it was not, a root goes on to
`BuildCompletion` (which reads the flag once more), `SendTraceCompletion` and
`DeleteTraceState`, and `Finish` marks it ended with the tracker (`EndInTracker`).
`CurrentTrace.Drop` is `Drop`, between any two of these. The flag in the trace state is
`dropped`, `flagged` what a completion says, which is what `sendTracePayload` passes to the
tracker's `close`; a span that was not sent is in `Withheld` and counted all the same.
`PipelineInit`, `PipelineNext` and `PipelineSpec` are its own; `Init`, `Next` and `Spec` are
the tracker's. `PipelineAssumption` gives a trace one root, to which the parents of its
other spans lead. `Nested` says whether the host ends every child before its parent.

**`TraceUpload`.** The abstract promise. It has no knowledge of plan, queue or
tracker: spans are begun and settled, and a trace is announced once, after its
spans, with the number of them that were uploaded. Once the host has asked for a drop
spans may be withheld; the number counts them too, and then the announcement says that the
trace is dropped.

**`TraceLifecycle`.** The trace-state store maps each trace to a state that is
an index, so that a finalizer that counted itself in a state still has it after
the store has another (`ref`). `EndFinalized` begins a finalizer on the span's
goroutine; `Finalize`, `CheckDropped`, `SendPayload`, `FinalizerDone` and `LeaveClient` are
its end on a goroutine of its own, `WaitBegin` and `WaitEnd` are `waitAutoFinalizers`. A root's completion is `job` on the
goroutine that carries it and `completion` while it is deferred in a state. Reading the
drop flag and acting on it are two steps, for a span (`CheckDropped`, `SendPayload`) and
for a completion (`BuildCompletion`, `HandOver`), with a drop possible between them;
`lookedLate` and `builtLate` are history variables that say who read it after a drop. The
content gate is open in this module; `SpanPipeline` has the gate and leaves finalizers out.

**`RequestExport`.** One call of `ExportSpans`. The dispatching loop is
`Dispatch`, `CloseNext`, `Collect`; each worker goes through `CheckThrottle`
(`awaitThrottle`), possibly `ThrottleOver`, then `Accepted` or `Refused`, and
`BackoffOver` before the next attempt. The throttle is one variable, as in the
exporter. Time is an integer that passes only while every goroutine waits for
it: code between two waits takes no time, and a request counts as sent from the
check of the throttle. The jitter chooses any wait of its range.

**`ClientTransport`.** `FlushTraces` and `Close` from the client down to the
provider. The batch processor and the provider are the OpenTelemetry SDK's and
are external: a bounded queue, one export at a time, `ForceFlush` that returns
when what was pending is out, `Shutdown` that drains. Waiting for finalizers and
releasing the gate are one Boolean each call chooses, their detail being in
`TraceLifecycle` and `SimulationPlan`.

**`ReplayOptions`.** No state: what `Replay` refuses before its first request
(`Accepted`, the checks in the code's order) and what it fills in (`Resolved`), on
records of options. `Unique` keeps the first of equal data sets by their `FirstPlaces`,
without recursion.

**`ReplayRun`.** One call of `Replay`. The calling goroutine is `phase`, from
`Check` and `StartReplay` over `Gather`, `TakeReports` and `Poll` to `Complete`; a
worker of `runReplayItems` is `pc`, one action per section between two things
others can see: taking an index, preparing the item (plan, branch, span, inputs,
mock tree: any may fail, with the branch in hand or not), the call of the
function, the deferred release, filling the trace id under its mutex, and the
report. `deliveries` is `httpClient.traceDeliveries`; `Track`, `RecordSubmitted`,
`RecordDelivered`, `Take` and `HasClosed` are its five critical sections. A span or
completion on its way is a `carrier`, which is recorded, stored by the server and
acknowledged in any order, or never. Process concurrency is one step.

**`ReplayChildren`.** That step in detail: per item the `stage` of the worker that
has it, the child beside it, the file it renames its result into, and the memory
throttle (`resident`, `peak`). Memory is counted in units, each of some child: what is
available is what remains of a set of pairs. `promised` is a history variable, the child
budget of the last admission that was checked. A child grows, writes, ends or dies at any point, and
is killed at its timeout or with the host's context.

**`AutoSubtree`.** `record[r][c]` is the record call `c` has in root `r` and how far
it is. `Enter` is `Trace` or `enterAutoNode`, which add to one root after the other
(`Check`, `DropDeep`, `CountDrop`, `Add`: `autoRoot.add` before and under its lock), `End` and
`RunFinalizer` are `finishAutoRecords`, `Finish` and `Leave` the two halves of
`autoRecord.finish`, `Close` and `HandOver` end the root, and `TryComplete` is the
common tail that sends the completion.

**`AutoScope`.** `current` is the package's `autoScopes`, by goroutine; `Enter`,
`Go`, `Return` and `EndSpan` push and restore it as `pushAutoScope` does. Its `ScopeInit`,
`ScopeNext` and `ScopeSpec` stand beside those of `AutoSubtree` in the modules that extend both. Contexts
that carry a scope of their own are left out, as is the outer span of a replayed
item.

**`ReplayMocks`.** `Prepare` reads the tree, `Number` and `Resolve` are the two parts
of `resolveReplayMock`, `Ask`, `Fetched` and `Follow` the single flight of
`resolveRecordedReplayOutput`. The leader's error is cached for whoever follows,
as in the code. The walk of the recording, `WalkBelow`, is a recursive function. As in
`SizeCache`, each action has its guard as an operator, so that `MayProceed` says without
`ENABLED` that a step is possible; a wait that only a cancellation would end does not count.

**`SelectiveReplay`.** `Valid` is what `newSelectiveRuntime` demands of a plan, `Enter`
one call of `selectiveRuntime.enter` under its mutex: candidates, match, what is
used up, the decision. The runtime's maps by call are functions. A walk up the callers,
or up the recorded spans, is `Above`, the least set that has the parent of what it is
about and of all it has.

**`PayloadBudget`**, **`RequestBatches`**, **`SerializedSize`**, **`SizeCache`**. A
payload is what its fields weigh, encoded and once more inside an attribute, and of what
kind they are: one that holds a leaf no encoder takes is `stray`, one that is `refused`
although all it holds could be encoded (a map with keys of another kind) is rebuilt without
a loss, and only the first makes `finalizeSpanPayload` add an entry (`Dropped`); a
span of a request is its size plain, compressed and trimmed; a captured value is
a tree or graph of kinds and lengths. `Enforce` is `enforcePayloadBudgetWithLimit`: the
fields are stubbed in the order `Before`, so those stubbed when it comes to one are `Through`
it, and `Enough` are those with which the payload fits;
`Packed` is `buildRequestBatches`, one `Add` after the other, `Bytes` the sum from which the
size of a request is known without packing it, `Size` is the walk of `serializedSizeWalk`, and
`SizeFuncFor` is `sizeFuncFor` with its forward functions, step by step: `Begin` and
`NextPart` ask for a function, `Store` and `Done` are the two ends of a construction, and
`Walk` sizes the parts that a value has. Each has its guard as an operator (`MayBegin`,
...), so that "some goroutine has a step" (`MayStep`) can be said without `ENABLED`; TLC has
found the two to be the same.

**`CodeChange`.** A repository is branches, remote branches and a line of first
parents; git itself is external (`MergeBase`, `NameStatus`). A branch may follow a remote
branch or a local one. `Resolve` takes the files the user gives, in the options or by
`BITFAB_CODE_CHANGE_PATH` (`Given`), or chooses the commit; `List`, `Measure` and `Read` are the loop of `captureCodeChangeFromGit`, and
`Edit` is the user at work meanwhile.

`MCDecisions` checks `ReplayMocks`, `SelectiveReplay` and the last five in one run as a disjoint
sum: a behaviour is of one `part`, and the variables of the others stay idle, or as they
are at first where the module is extended (`ReplayMocks`, `SelectiveReplay`, `SizeCache`,
`RequestBatches`, `PayloadBudget`: a property that a theorem states must be visible under its own name). `MCAutoSubtree` adds `AutoScope` to
`AutoSubtree` in the same way.

## 4. What each run checks

| Run | Instance | Shows |
|---|---|---|
| `tracker` | 3 traces, 2 spans, a ledger of 2 | the ledger is exact and no completion is stranded; counts never change |
| `gate` | two traces: a root sent with the plan ignored and a child, and a child of another; both completions; a queue of 2 | no record lost or duplicated; content only after a plan allows it; a completion, or a flush that answers true, passes over no span but one that overflowed |
| `pipeline` | traces of 3 spans and 1, nested; a ledger of 1; one trace may be dropped | `SpanPipeline` implements `TraceUpload` |
| `pipeline_late` | a root and a child, started, ended and dropped in any order; a queue of 1; fairness | a completion waits for every running span, unless it says dropped, and is sent unless the client closes; every record leaves the gate and `Close` returns |
| `lifecycle` | a root with a finalizer, a child with and a child without one | the completion is conserved, has a taker and waits for finalizers; a settled wait means settled; whoever reads the drop flag after a drop heeds it |
| `export` | 2 requests, 2 workers, 3 attempts, a budget of 10, Retry-After of 1 or 3; fairness | success means every request accepted in full; nothing sent with the budget spent; only a request that already waited passes a newer throttle; the export returns |
| `transport` | 2 carriers, a queue of 1, 1 flush, 2 closes | a failure is told or still counted; success of `Close` leaves nothing behind; a call alone on the transport tells the truth |
| `replay` | one source, two attempts, 2 workers or 1, branches, a dry run, child processes, 21 refused calls; fairness | `Replay` is silent only about traces that are stored; branches and progress of each item are settled once; an option is honoured or refused, a data set asked for once; the call returns |
| `replay_children` | 3 items and workers, memory for 4, children of up to 2; fairness | the floor of free memory is kept and every child counted; a result that was written is never lost; every item is settled |
| `subtree` | two Traces, one inside the other, and two calls; live, replayed and selective; limits that bite; 2 goroutines and 7 calls for scopes; fairness | a completion comes once, last, and tells what was left out; the span limit is exact; scopes match calls; every trace is completed |
| `decisions` | seven parts, each as described in `MCDecisions` | each recorded output goes to its own call and is fetched once; what is required runs; a recording stands for one call; trimming, packing and capping lose nothing that fits; sizing hangs on nobody; the code change is the right one |
| `scope_overlap` | two overlapping spans from `Start` | *violation:* the goroutine is left in the scope of a span that is over |

### Where the code and a promise disagree

One disagreement is a run and a finding in `PROJECT.json`.

`scope_overlap`: `pushAutoScope` restores the scope a span found, though that span may be over by
then. Two spans from `Start` that overlap, the first ended first, leave their
goroutine in an explicit scope with no span open, and every later `Trace` on it
answers `MixedTracingError`.

The others were found while the properties were written. Each shows as a
condition in a property that holds:

1. *What was pushed out of the full queue is in nobody's books* (`FlushMissesOnlyEvicted`).
   `holdAndRelease` takes it out under the lock and submits it after unlocking, and
   neither the queue nor `draining` names it meanwhile: spans whose calls returned long
   ago may be on their way when a drain has emptied the queue, and a flush that comes
   then answers true. The completion of their trace can pass them
   (`CompletionFollowsSpans`). Since `draining` names the traces of spans only, a flush
   can also answer true while a batch that was left with completions alone is being
   submitted; one of the trace's spans was pushed out then.
2. *A skipped span can be counted.* `drain` submits in order, so a completion
   queued ahead of a child that outlived its root is counted before the child is
   discarded. `KeepsPromise` is checked where children end before their parents.
   Likewise a span started after its trace was closed is uploaded and not
   counted, and one started after the ledger has forgotten the trace leaves a
   tracker state behind.
3. *A dropped trace is not counted exactly, and a drop is only as good as the moment
   its flag is read.* A completion that says dropped waits for no span: `close` clears
   the active ones, so that it leaves while spans still run, and its count includes spans
   that were withheld (`CompletionWaitsForSpans` and `TraceUpload` say so; the server
   scrubs such a trace). Each span and the completion read the flag once and act on it
   later (`DropHonoured` is about what was read): a span that looked before the drop is
   uploaded after it, and a drop that comes when the completion has been built is not told
   by it, though a child that looks before the completion has left is withheld all the
   same. The flag lives in the trace state, which the completion deletes: a span that
   completes later is uploaded, and a drop that comes later makes a new state, which
   tells nobody and is never deleted.
4. *A lengthened throttle is not seen by a request that is already waiting*
   (`OnlyWaitersOvertake`): `awaitThrottle` reads `throttledUntil` once.
5. *Concurrent flushes share one failure count* (`FailureTold`, `TruthfulAlone`): one of
   the callers hears of a failed export, the other may answer true. A `FlushTraces`
   that begins when `Close` has taken the transport answers true while `Close` still
   drains; a submission that races with `Close` and fails in the final drain is in
   nobody's answer.
6. *A trimmed payload may exceed its limit* by the entry that says it was trimmed
   (`TrimExact` allows for a `Note`): `markPayloadTrimmed` adds it after the check.
   And fields are ordered by their encoded size, while what counts is the size
   inside the attribute. A value that `json.Marshal` refuses as a whole, such as a map
   with keys that are not strings, is rebuilt with its keys as text and nothing in the
   payload says so: `TrimExact` claims an entry for placeholders only
   (`finalizeSpanPayload` adds one if `len(dropped) > 0`).
7. *`Replay` is silent about a trace whose completion was not submitted* by the time it
   takes the reports: such a trace is neither waited for nor warned about
   (`SilenceMeansStored` is about the closed ones). The delivery records of items
   that never ran stay.
8. *A child killed before it releases its lease, or an item whose admission fails
   after the server leased a branch in its start response, leaves the branch to the
   server's expiry.* An item whose admission fails is also reported finished
   without a start, and if no directory for results can be made none is reported at
   all, though `replay.go:173` says "emitted exactly once after each item settles"
   (`ProgressExact` says when).
9. *A git command that fails looks like a file that is empty or a tree without
   change* (`CodeChangeExact` claims the content only where all commands succeeded). A
   path that was removed from the index and is still there is attached twice, as
   removed and as new (`Changes`). Text is left out as binary if one of its runes
   happens to be split at the 8000th byte, where `looksLikeBinary` cuts before it asks
   whether the text is UTF-8. Files handed over by `BITFAB_CODE_CHANGE_PATH` are attached
   whatever their number and size. With `"last-branch"` on a branch that was just cut,
   HEAD's own commit is passed over, and the change is compared with the default branch;
   and so it is if the branch follows the local branch it was cut from, as `git checkout
   --track` makes it, unless a remote copy of that ends there too, since `ownBranchRefs` takes an upstream for a copy of the branch
   (`Elsewhere` leaves it out), although `replay_code_change.go:31` says "the branch this
   one was cut from, such as the branch below it in a stack".
10. *A call that is too deep may be missing from the number of dropped spans.* `drop` looks
   at `closed` without the lock and counts afterwards; the root may be closed and
   its completion sent in between (`CompletionLast` allows for these calls only).

### Bounds, and why they are enough

* Traces and spans: a property here relates one trace's completion to its own
  spans, so one trace with a root and one or two further spans
  has every order of begin, end, hold, drop and completion. A second trace is there
  where traces meet: in the gate's queue and in the ledger.
* In `pipeline` the constraint `MCDrops` leaves the second trace undropped and cuts drops
  that come when the root has deleted the trace state: all spans have ended then, and
  nobody reads the flag again. `pipeline_late` has no constraint. The theorems hold
  without either.
* `MaxHeld` (1000 in the code) is 1 or 2, so that a queue of records overflows, in the gate
  up to three times, or at least the number of records, so that it does not. Only
  full or not full is told apart.
* `MaxClosed` (1024) is 1 or 2, so that traces are forgotten.
* `MaxStates` in `TraceLifecycle` bounds how often a trace state is created
  again. Two has a fresh state beside one that a finalizer still counts in.
* `RequestExport`: a budget of 10 ticks has backoffs, two kinds of Retry-After
  and waits that are too long to be affordable; two requests on two workers have
  all interference, which goes through the throttle alone; a request may prove
  too large instead of reaching a worker.
* `ClientTransport`: a queue of one and two carriers have a full queue, an
  export in flight beside it, and a submission between any two steps of a close.
  The theorems hold for every size.
* `ReplayRun`: two items meet on one worker or run on two; `MaxSources` is 1 and two
  attempts double it; one span beside the completion has every order of the two.
* `ReplayChildren`: the throttle reserves for the others and admits one more, so that
  three children on memory for fewer have all its cases; a child outgrows its
  budget of 1 by reaching 2.
* `AutoSubtree`: nested roots need two Traces, a call below both and one below the
  outer only; a depth limit of 1 or 2 and a span limit of 0 or 1 both refuse calls,
  the same call in the selective mode.
* `MCDecisions`: limits are small numbers that the enumerated sizes straddle, so that
  one more byte decides; four sizing goroutines start in types that contain each
  other.

Deadlock is checked for the tracker, which accepts calls for ever, and for
`ReplayChildren`, whose `Done` is the only rest. In the other instances the host
makes finitely many calls and the system then rests, so `CHECK_DEADLOCK FALSE` is
set; where a part could hang meanwhile a property says that it does not.

### Fairness

`SpanPipeline` (and `SimulationPlan`): the reader, whoever drains, the closing
goroutine and each `deliver` are runnable goroutines without conditions of their
own, so weakly fair. `drainMu` is a mutex its holder always gives up. The clock
is weakly fair, since a retry of the plan read waits for a time. The host ends
the spans it began, but nothing obliges it to begin, flush or close.
`RequestExport`: goroutines run, time passes, the processor's context has a
deadline and every request has a timeout, after which `Refused` is enabled.
`ReplayRun`: the calling goroutine and the workers go on, since the host's function
returns and each request has a timeout, and the deadline of the wait passes;
carriers, good answers and cancellation are not fair. `ReplayChildren`: the workers
go on, the child's timeout being one of their steps; a child need do nothing.
`AutoSubtree`: the SDK's own steps, finalizers, and the return of the functions
given to `Trace`; a call below a `Trace` may hang for ever. In these three every
step brings an item or a call nearer to its end and none recurs, so that one weak
condition on their disjunction is as much as one on each. There is no strong
fairness and none on the server's good will.

`SizingEnds` and the settling part of `MocksExact`, both proved, are stated as "as long as one is
not done, a step is possible": every step of those modules is progress, so this
is termination, without a temporal formula over the whole sum.

## 5. What is proved

The theorems hold for every value of the constants under the named assumptions
of the modules.

**`SpanPipelineProofs`** (assuming `TrackerAssumption` and `PipelineAssumption`). First the
tracker by itself. `TrackerTypeCorrect`.
`LedgerExact`: `ClosedLedger` and `PendingWaits` always. Together with `TypeOK`
they are inductive as they stand; neither is without the other, since `drain`
may append to the ledger only a trace that is live, and a live trace is not in
it. `drain` is the only place where the ledger changes, so its effect is a lemma
(`RememberLedger`, `DrainGood`) used by `end`, `abort` and `close` alike. What an
operation does to the ledger is collected in `StepGood`, from which
`CountNeverChanges` and `OnlyOldestForgotten` follow as action properties.

Then the pipeline. `PipelineTypeCorrect`: a step of the pipeline is a step of the gate or
none (`GateProofs` carries over what is proved of it) and at most one call of the tracker.
`CompletionWaits` (`CompletionWaitsForSpans`) holds for nested and other spans, with
overflow, a failed plan, a close and drops at any time; its one exemption is a completion
that says dropped, which the theorem allows only where the host called `Drop`. Its invariant
`Awaited` says that, until the completion of
a trace has left the gate and as long as it is pending after that, the tracker's active
spans are exactly those that run and the trace is not in the ledger. Afterwards the tracker
may know nothing of a late span, and need not: the completion was sent.
`PromiseKept`: the pipeline implements `TraceUpload`, under two hypotheses. `Nested` says that
children end before their parents: without it a completion can count a span that is
discarded later (section 4, number 2), so the promise is false. `NothingPushedOut` says
that the full queue has pushed nothing out: a record that is pushed out can be overtaken by
the completion (number 1). Both are met by states of the run `pipeline`, the second by all
of them. The invariant has four parts more: `Handed` ties a span's phase to how far
its payload has come, `RootLast` says that a completion is handed over behind every other
span that began and was not withheld (`ahead`), `ToldOf` that it says dropped if one was,
and `Counted` that until the completion leaves the gate the
tracker's ids are the spans that began and were not discarded, and the wire is what was
uploaded. With the order of the queue (`CompletionFollowsSpans`, from the gate) all spans
have left when the completion does (`AllOut`), so the count it carries is the number
uploaded or withheld; `StepMaps` then maps each step to one of `TraceUpload` or to none.

**`SimulationPlanProofs`** (assuming `PlanAssumption`). `TypeCorrect`.
`ContentWaitsForPlan`: `ContentNeedsPlan` speaks of records that have left, and
its strengthening `Gated` of those about to leave. Whoever holds `drainMu`, and
whoever is about to deliver a child's span, does so after the plan is decided (it
was loaded, or none will come), a decision is never taken back, and a loaded plan
allows what it does not turn off. `NothingLeftAfterClose`: the strengthening
`Emptied` follows `close` through its two rounds: a batch belongs to the holder
of `drainMu`, and once the plan is stopped and flushed again nobody adds to the
queue.
`NoRecordLost`: `Conserved` says that a record is at one of six stations, at one
position of it. It needs `Emptied`: taking the queue as a batch loses nothing only
because the batch it replaces is empty. `CompletionInOrder`: `Queued` says that a
completion stands behind the spans handed over before it, in the same batch, or in the
queue, which is submitted after every batch. Since an overflow takes a record out of
the front, the order could be lost if a completion overflowed; `Settled` says why it
does not: once a batch is being drained, nothing but completions of traces with a span
in that batch is queued, of which there are at most as many as the queue had records.
`FlushTruthful`: what a waiting completion waits for is in the queue, in `draining`, or
was pushed out (`Caused`), and records a flush answers for stay handed over
(`Answered`).

**`RequestExportProofs`**, of `RequestExport` (assuming `ExportAssumption`). `TypeCorrect`.
`SuccessIsAcceptance`: `Handed` says that a request that was given out has a
result or a worker that works on it, so that when all workers are idle a request
without a result was never dispatched, which `ExportSpans` counts separately.
`NeverSentLate`: `Timed` relates each worker's wake-up time to the deadline of
its request. A wait is taken only below half of what is left, hence ends before
the deadline, and so do a throttle's wait and a backoff in sequence.
`ThrottleIsShared`: a request that is sent has just looked at the throttle, or comes
from waiting for one, whose end it had read before.

Of `RequestBatches` (assuming `BatchesAssumption`: an export has spans, each with its sizes,
a request may have at least one span, and may be at least as large before compression as
after). `BatchesAreExact`: `Packs` says of the first spans that the closed requests and the
one under construction hold them all in order, that each has the size counted for it
(`Fair`) and that a closed one had no room for its successor (`Filled`). `Packed` and `Bytes`
are recursive functions over the spans of one export. That such a function exists, and equals
its definition, is `Iterates`; both that and the induction over the spans are instances of
`Inductive`, which is stated for a set instead of a predicate and follows from the least
number that is not in it. `BatchesInv` adds that a request is refused only if it could not
go; since the limit before compression is the larger, only one that is over the other limit,
hence alone, can be.

Of `PayloadBudget` (assuming `PayloadAssumption`: fields are finitely many, none of them is a
placeholder before it is submitted, and no value has more to escape than bytes).
`TrimsAreExact`: `FitsIsCarrier` shows that the cheap bounds decide as measuring would;
`FirstAndLast`, that the candidates are totally ordered, so that the loop has a last
candidate, with which all are stubbed (`NotEnough`), and the one it stops at a predecessor
that was not enough (`FirstNeeded`); `MarkCosts`, that the entry written afterwards costs one
entry at most. `PayloadInv` adds what holds before the submission. That a placeholder is told after
both trims, and nothing else is called degraded (`EnforcedTold`), follows from the entries only ever being added to, unless they
are stubbed themselves, which happens to a payload without span data only.

**`ClientTransportProofs`** (assuming `TransportAssumption`: finitely many
carriers, any number of calls). `TypeCorrect`, with the bound of the queue.
`FailuresAreTold`: the strengthening `Told` says that a call is told once, before
it answers, and that whoever is told does not report success, so that resetting
the shared count loses nothing. `ClosedIsEmpty`: `Drained` says that a result
exists only once the processor is stopped, and a stopped processor accepts
nothing, so what is pending can only shrink. `AloneIsTruthful`: the calls that share
the transport with a call only ever grow in number, so that one which has none at the
end had none before; then nobody else takes a failure from the shared count, and
`Faithful` follows what it covers from the queue through `ForceFlush` to its answer.
That a later `Close` only waits for the first is part of it (`OneCloses`).

**`CaptureProofs`**, of `AutoSubtree` (assuming `SubtreeAssumption`: finitely many calls, none
below itself, and limits that are numbers; roots, nesting and limits are
arbitrary). `CompletionComesLast` and `LimitIsExact`: `CountGood` ties the
three counters to the records: what was captured, what was left out and what was
reported are each the size of a set of calls (`CapturedBy`, `LeftOut`). It is not
inductive alone. A call counted for its depth must not be counted for the span
limit again, which in a selective replay holds only because it is
`interceptionOnly` when it comes to the lock, and a refused call must not try
again (`RecordGood`); a root that is completed must be closed, with no record in it
(`RootGood`), so that nothing but a call too deep adds to its count afterwards.
That a call refused for its depth is below more calls than the limit, whatever
its roots have admitted, is `DepthBound`.

Of `AutoScope` (assuming `ScopeAssumption`: finitely many calls, each of one kind).
`ScopesAreExact`: `Puts` says what the call at each place of a goroutine's stack will
restore: the scope of the call around it, as far as either records for a trace that is open.
Scopes that record for nothing may be mixed up, and are, when spans from `Client.Start`
overlap; a span cannot be entered in a scope that records, which is why the mixture does
not reach those (`Inherits`). `Exact` is then the property for the innermost call.

Of `SizeCache` (assuming `SizeCacheAssumption`: parts are lists of types; types may contain
each other in any way). `SizingIsSound`: while a goroutine is not done, some goroutine has a
step, because whoever builds never waits (`BuilderSteps`) and whoever waits does so for a
type that somebody builds (`TypeOk`). That needs every type to be under construction once at
most (`Owned`) and a stack in which each frame waits for the part the next one builds
(`FrameOk`). That a goroutine ends with a size exactly when its type contains, at no depth,
one that cannot be sized is `RunOk` with `DependsOnFailing`, said by sets of types that are
closed under parts, without recursion. That there always is a step is what is proved;
that every step brings a goroutine nearer to its end is seen from the actions.

**`ReplayItemProofs`**, of `ReplayChildren` (assuming `ChildrenAssumption`: finitely many
items, amounts of memory that are numbers, a budget and a floor that are positive, and a
mark of an item that is not in the map that is no amount).
`ResultIsFinal`: `Settled` says that a child lives only while its worker waits for
it or kills it, so that the file cannot change once it has been read.
`MemoryIsGuarded`: `Reserved` says that the throttle has an entry exactly from the admission
of an item to its release (`EveryChildCounted`), `Measured` that an entry never exceeds what
the child has, and `Backed` that the last admission that was checked left the floor free even
if every slot, started or about to be, grows to the child budget of that moment. The
headroom subtracts, for each entry, what is missing to that budget; since memory is a set of
units the sums are cardinalities of disjoint sets, and no induction is needed.

Of `SelectiveReplay` (assuming `SelectiveAssumption`: every recorded span but the root has a
recorded parent, and a plan requires recorded spans to run). `SelectiveIsExact`: `InScopes`, that the
required and asserted scopes follow the calls whatever becomes of them, so that nothing
replaced is in either; `Through`, that between a call and the one its own calls are matched
under there are only hidden calls that were not recorded; `UsedOnce`, that the span a call
stands for is used up for the call that stands for its parent, which makes the matching
injective.

Of `ReplayMocks` (assuming `MocksAssumption`: overrides are functions of keys, outputs come
with spans of the recording, and its walk, which is finite because the recording is a tree,
yields spans of it; that it visits each in its order is left to the instance).
`MocksAreExact`: `NumberedInTurn` ties each call's number to its place among the calls of its
key, `FetchedByOne` an entry of the cache that is being fetched to the one request that
fetches it, and `ToldTrue` what a request has been told to the tree or the entry, which does
not change once it has an answer. Then whoever waits waits for a fetch that is under way,
so that some step is always possible until every call has ended.

**`ReplayRunProofs`** (assuming `RunAssumption`: items are numbered from one, there are
enough workers for them, finitely many, and a call is a record of options with integers
in it; options, items and workers are otherwise arbitrary). `ItemsAreSettled`: `Jobs` says that a
worker has its item to itself, with no outcome before the call, and `Reported` that an
item handed out is either in the hands of a worker and not reported, or in nobody's and
reported once; `Staged` bounds what there can be at each stage of the call, so that
when no goroutine is left no item is either. `SilenceIsEarned`: `Ledger` ties the
delivery records to the carriers they count, and only for items whose function ran;
`Awaited` says that what was stored stays stored while `Replay` waits, and that no
warning is lost. `AskedIsKept`: `Staged` says that the options of an accepted call are
those `Resolved` made of what was asked, and never change. `DatasetsAreOnce`: what is asked for are
the data sets of both fields, each once; the first places of a list are in bijection with
its members (`PlacesOnce`), by the least place of each.

**`TraceLifecycleProofs`** (assuming `LifecycleAssumption`: finitely many spans, one root
to a trace, children in the trace of their parent). While a completion is owed, its
trace keeps one state and every finalizer of the trace counts in it (`Current`), by a
count that is the number of finalizers that have not decremented it (`Counted`). That
gives `CompletionIsConserved` its inductive form `OneStation`: the completion is with one
goroutine or deferred in that state, whose count is positive, or was sent.
`FinalizersComeFirst` is an action property that follows from
`Ready`: who hands a completion over has the state of the trace as its snapshot, and
no finalizer that preceded it is pending. `DropIsHonoured`: the strengthening `Heeded` says
that a drop asked for while the completion is owed is in that state (`DropKnown`), which is
the one in the store and the one in the snapshot, so that whoever looks afterwards finds it,
and that a span which found it has left the way to the upload. `FinalizersAreSettled`: `Waits` says that the
channel a waiter holds is the current one, or all it waited for are gone. A second
root of the same trace breaks `Current`: the first completion deletes the state the
second is owed from, which is why the assumption excludes it and section 6 says so.

`TypeCorrect`, `TrackerTypeCorrect` and `PipelineTypeCorrect`, `OnlyOldestForgotten` (`EvictsOldest`) and
`NothingLeftAfterClose` (`NothingHeldAfterClose`) are proved for every instance and no
run repeats them. Every inductive invariant was checked by TLC on its module's
instance before it was proved.

Model-checked only:

* Liveness (`CompletionSent`, `DrainsEnd`, `ExportReturns`, `ReplayReturns`, `AllSettle`,
  `SubtreesComplete`), which the provers do not reach.
* `CapExact`, whose `Size` walks a value by a `RECURSIVE` operator, which the provers do not
  take.
* `CodeChangeExact`: what a fold sums up over the files of a change, the order in which
  sorting puts them, and what the recursion over commits and over git's output yields, are
  left to the instances.

## 6. What is not modelled

* In the gate: `awaitFirstRead`, a bounded wait before the first root; the
  environment variable that disables the gate and the reader that is delayed
  because of it; and the questions `withholdsContent`, `isContentOff` and
  `dropsSpan`, which read state and change none.
* In `CodeChange`: git failing while the commit is looked for, merges, an unborn branch,
  the description. `traceCompletion.abort`, an action of the tracker, is called by tests
  only and is in no module that composes it.
* Recovery from panics, in the host's code and in the SDK's own, but for the
  construction of size functions and an override's matcher.
* What a payload contains. A span has content, is stripped of it, or is
  discarded; an error or recorded usage is membership in `Kept`. What
  `encoding/json` writes is external to `SerializedSize`, `omitzero` is left out.
* Two roots that share one trace, as a replay may produce.
* The package-level flush and shutdown of all transports in a process, which
  call the modelled ones in turn.
* In a replay: what a progress callback does; the evaluation of results and the
  summary; the registry of replayable functions; process groups and the two
  operating systems' ways to kill them; the report of a selective replay and what
  its fingerprints compare.
* `detached_trace.go`, `span_enrichment.go` and `approval.go`, which edit the payload of
  one span.
* Seeding, which is sequential and runs one span in a trace state of its own; the
  resource clients, which are one request each; configuration, which is lookups
  and subprocesses; the build-time instrumentation, the embedded Python command
  and the framework adapters, which end in the modelled pipeline.
