---------------------------- MODULE SimulationPlan ----------------------------
(***************************************************************************)
(* The content gate of simulation_plan.go.  The server's simulation plan   *)
(* says which child spans must not upload their inputs and outputs.  Until *)
(* it has been read, spans are held back, and a trace's completion queues  *)
(* up behind its held spans.  One goroutine per call, one for the reader   *)
(* and one that closes the client share the gate: p.mu protects each       *)
(* action, drainMu lets one of them at a time submit a batch of held       *)
(* records.                                                                *)
(*                                                                         *)
(* A record is a span or a trace's completion, handed to the gate once.    *)
(***************************************************************************)
EXTENDS Integers, Sequences, FiniteSets

CONSTANTS
  Spans, Traces,
  TraceOf,     \* the trace of each span
  Roots,       \* spans without a parent: their content is never discarded
  Kept,        \* children with an error or recorded usage: stripped at most
  Unplanned,   \* spans of a framework, or without a key: the gate ignores them
  Ignored,     \* spans sent with simulationPlanIgnored
  Plans,       \* what a read may return: sets of spans with content off
  MaxHeld,     \* simulationPlanMaxHeld
  None

Records == Spans \cup Traces
Drainers == {"reader", "closer"}

ASSUME PlanAssumption ==
  /\ Spans \cap Traces = {}
  /\ TraceOf \in [Spans -> Traces]
  /\ Roots \cup Kept \cup Unplanned \cup Ignored \in SUBSET Spans
  /\ Plans \in SUBSET SUBSET Spans
  /\ MaxHeld \in Nat \ {0}
  /\ None \notin Records \cup Drainers

VARIABLES
  loaded, contentOff,             \* contentOff # nil, and its spans
  unavailable, closing, stopped,
  due,                            \* refreshAfter has passed
  held,                           \* records waiting for the plan
  draining,                       \* traces with spans in the batch
  drainer,                        \* holder of drainMu
  batch,                          \* records each drainer has taken
  reader, skipped, outcome,       \* readPlan: control, skipped, parsed
  closer,                         \* httpClient.close
  flush, owed,                    \* httpClient.flush, records it answers for
  call,                           \* sendSpan and sendTrace, per record
  evicted,                        \* the record each pushed out of the queue
  fate,                           \* how a record left the gate
  allowed,                        \* history: spans some loaded plan kept on
  ahead                           \* history: spans sent before a completion

planVars == <<loaded, contentOff, unavailable, closing, stopped, due>>
queueVars == <<held, draining, drainer, batch>>
readerVars == <<reader, skipped, outcome>>
callVars == <<call, evicted, ahead>>
flushVars == <<flush, owed>>
vars == <<planVars, queueVars, readerVars, closer, flushVars, callVars, fate, allowed>>

TypeOK ==
  /\ loaded \in BOOLEAN /\ unavailable \in BOOLEAN /\ closing \in BOOLEAN
  /\ stopped \in BOOLEAN /\ due \in BOOLEAN /\ skipped \in BOOLEAN
  /\ contentOff \in SUBSET Spans
  /\ held \in Seq(Records) /\ Len(held) <= MaxHeld
  /\ draining \in SUBSET Traces
  /\ drainer \in Drainers \cup {None}
  /\ batch \in [Drainers -> Seq(Records)]
  /\ reader \in {"off", "begin", "reading", "lock", "drain", "exit"}
  /\ outcome \in SUBSET Plans
  /\ closer \in {"open", "flush", "drain", "stop", "reflush", "redrain", "shut"}
  /\ flush \in {"idle", "waiting", "true", "false"}
  /\ owed \in SUBSET Records
  /\ call \in [Records -> {"idle", "deliver", "evict", "done"}]
  /\ evicted \in [Records -> Records \cup {None}]
  /\ fate \in [Records -> {"none", "full", "stripped", "discarded"}]
  /\ allowed \in SUBSET Spans
  /\ ahead \in [Traces -> SUBSET Spans]

Init ==
  /\ loaded = FALSE /\ contentOff = {}
  /\ unavailable = FALSE /\ closing = FALSE /\ stopped = FALSE
  /\ due = TRUE
  /\ held = <<>> /\ draining = {} /\ drainer = None
  /\ batch = [p \in Drainers |-> <<>>]
  /\ reader = "off" /\ skipped = FALSE /\ outcome = {}
  /\ closer = "open"
  /\ flush = "idle" /\ owed = {}
  /\ call = [r \in Records |-> "idle"]
  /\ evicted = [r \in Records |-> None]
  /\ fate = [r \in Records |-> "none"]
  /\ allowed = {} /\ ahead = [t \in Traces |-> {}]

-----------------------------------------------------------------------------
(* withoutPlanContent: only children lose their content. *)
WithoutPlan(r) ==
  IF r \in Spans \ (Roots \cup Unplanned) THEN "stripped" ELSE "full"

(* Wrong: a closing client still expects a plan. *)
NoPlanComesOpen == unavailable \/ stopped

NoPlanComes == unavailable \/ closing \/ stopped

(* deliver, prepare and apply. *)
Form(r) ==
  CASE r \in Traces \cup Unplanned \cup Ignored -> "full"
    [] r \in Spans \ (Unplanned \cup Ignored) /\ loaded ->
         IF r \notin contentOff THEN "full"
         ELSE IF r \in Roots \cup Kept THEN "stripped" ELSE "discarded"
    [] r \in Spans \ (Unplanned \cup Ignored) /\ ~loaded ->
         IF NoPlanComes THEN WithoutPlan(r) ELSE "full"

(* submitWithoutPlan. *)
FormWithoutPlan(r) == IF r \in Ignored THEN "full" ELSE WithoutPlan(r)

(* refresh, which every call makes first: it starts a reader that is due.  *)
Refreshed == IF reader = "off" /\ due /\ ~stopped THEN "begin" ELSE reader

Refresh ==
  /\ reader # Refreshed
  /\ reader' = Refreshed
  /\ UNCHANGED <<planVars, queueVars, skipped, outcome, closer, flushVars, callVars, fate, allowed>>

(* refreshAfter passes. *)
Tick ==
  /\ ~due /\ due' = TRUE
  /\ UNCHANGED <<loaded, contentOff, unavailable, closing, stopped, queueVars,
                 readerVars, closer, flushVars, callVars, fate, allowed>>

Fits(queue) == Len(queue) <= MaxHeld

(* hold: the record joins the queue; beyond MaxHeld its goroutine takes    *)
(* the oldest record away, to submit once it has released the lock.        *)
(* (hold starts a delayed reader when none runs and none is due: there is  *)
(* nothing to hold then, so refresh has always started it.)                *)
Hold(r) ==
  LET queue == Append(held, r)
  IN /\ \/ /\ Fits(queue)
           /\ held' = queue
           /\ call' = [call EXCEPT ![r] = "done"]
           /\ UNCHANGED evicted
        \/ /\ ~Fits(queue)
           /\ held' = Tail(queue)
           /\ call' = [call EXCEPT ![r] = "evict"]
           /\ evicted' = [evicted EXCEPT ![r] = Head(queue)]
     /\ reader' = Refreshed

Pass(r) ==
  /\ call' = [call EXCEPT ![r] = "deliver"]
  /\ reader' = Refreshed
  /\ UNCHANGED <<held, evicted>>

HoldsSpan(s) ==
  s \notin Unplanned /\ ~stopped /\ ~loaded /\ ~unavailable /\ ~closing

SendSpan(s) ==
  /\ call[s] = "idle"
  /\ \/ HoldsSpan(s) /\ Hold(s)
     \/ ~HoldsSpan(s) /\ Pass(s)
  /\ UNCHANGED <<planVars, draining, drainer, batch, skipped, outcome, closer,
                 flushVars, ahead, fate, allowed>>

SpanHeld(t) == \E i \in 1..Len(held) : held[i] \in Spans /\ TraceOf[held[i]] = t

(* Wrong: a completion looks for its spans in the queue only. *)
HoldsTraceQueued(t) == ~stopped /\ SpanHeld(t)

HoldsTrace(t) == ~stopped /\ (t \in draining \/ SpanHeld(t))

SendTrace(t) ==
  /\ call[t] = "idle"
  /\ \/ HoldsTrace(t) /\ Hold(t)
     \/ ~HoldsTrace(t) /\ Pass(t)
  /\ ahead' = [ahead EXCEPT ![t] = {s \in Spans : TraceOf[s] = t /\ call[s] = "done"}]
  /\ UNCHANGED <<planVars, draining, drainer, batch, skipped, outcome, closer,
                 flushVars, fate, allowed>>

Deliver(r) ==
  /\ call[r] = "deliver"
  /\ fate' = [fate EXCEPT ![r] = Form(r)]
  /\ call' = [call EXCEPT ![r] = "done"]
  /\ UNCHANGED <<planVars, queueVars, readerVars, closer, flushVars, evicted, ahead, allowed>>

Evict(r) ==
  /\ call[r] = "evict"
  /\ fate' = [fate EXCEPT ![evicted[r]] = FormWithoutPlan(evicted[r])]
  /\ call' = [call EXCEPT ![r] = "done"]
  /\ UNCHANGED <<planVars, queueVars, readerVars, closer, flushVars, evicted, ahead, allowed>>

-----------------------------------------------------------------------------
(* Wrong: the records taken stay in the queue. *)
KeepHeld == UNCHANGED held

ClearHeld == held' = <<>>

(* takeHeld by p, which holds drainMu only while it has records to submit. *)
TakeHeld(p) ==
  /\ drainer = None
  /\ ClearHeld
  /\ batch' = [batch EXCEPT ![p] = held]
  /\ \/ held = <<>> /\ UNCHANGED <<draining, drainer>>
     \/ /\ held # <<>>
        /\ drainer' = p
        /\ draining' = {TraceOf[s] : s \in {held[i] : i \in 1..Len(held)} \cap Spans}

(* drain submits the batch in order, *)
DrainOne(p) ==
  /\ drainer = p /\ batch[p] # <<>>
  /\ fate' = [fate EXCEPT ![Head(batch[p])] = Form(Head(batch[p]))]
  /\ batch' = [batch EXCEPT ![p] = Tail(@)]
  /\ UNCHANGED <<planVars, held, draining, drainer, readerVars, closer,
                 flushVars, callVars, allowed>>

HeldMeanwhile == held # <<>>

(* Wrong: a drain returns with drainMu locked. *)
KeepDrainMu == UNCHANGED drainer

UnlockDrainMu == drainer' = None

(* then takes what was held meanwhile, until there is nothing left. *)
DrainMore(p) ==
  /\ drainer = p /\ batch[p] = <<>>
  /\ UNCHANGED <<planVars, skipped, outcome, flushVars, callVars, fate, allowed>>
  /\ \/ /\ HeldMeanwhile
        /\ batch' = [batch EXCEPT ![p] = held]
        /\ ClearHeld
        /\ UNCHANGED <<draining, drainer, reader, closer>>
     \/ /\ ~HeldMeanwhile
        /\ draining' = {}
        /\ UnlockDrainMu
        /\ UNCHANGED <<held, batch>>
        /\ reader' = IF p = "reader" THEN "exit" ELSE reader
        /\ closer' = CASE p = "closer" /\ closer = "drain" -> "stop"
                       [] p = "closer" /\ closer = "redrain" -> "shut"
                       [] OTHER -> closer

-----------------------------------------------------------------------------
(* readPlan *)
ReaderBegin ==
  /\ reader = "begin"
  /\ skipped' = stopped
  /\ outcome' = {}
  /\ reader' = IF stopped THEN "lock" ELSE "reading"
  /\ UNCHANGED <<planVars, queueVars, closer, flushVars, callVars, fate, allowed>>

ReaderRead ==
  /\ reader = "reading"
  /\ outcome' \in {{}} \cup {{plan} : plan \in Plans}
  /\ reader' = "lock"
  /\ UNCHANGED <<planVars, queueVars, skipped, closer, flushVars, callVars, fate, allowed>>

ReaderLock ==
  /\ reader = "lock"
  /\ TakeHeld("reader")
  /\ due' = FALSE
  /\ \/ \E plan \in outcome :
          /\ loaded' = TRUE /\ contentOff' = plan /\ unavailable' = FALSE
          /\ allowed' = allowed \cup (Spans \ plan)
     \/ /\ outcome = {}
        /\ unavailable' = (unavailable \/ (~skipped /\ ~loaded))
        /\ UNCHANGED <<loaded, contentOff, allowed>>
  /\ reader' = IF held = <<>> THEN "exit" ELSE "drain"
  /\ skipped' = FALSE /\ outcome' = {}
  /\ UNCHANGED <<closing, stopped, closer, flushVars, callVars, fate>>

ReaderExit ==
  /\ reader = "exit"
  /\ draining' = {}
  /\ reader' = "off"
  /\ UNCHANGED <<planVars, held, drainer, batch, skipped, outcome, closer,
                 flushVars, callVars, fate, allowed>>

-----------------------------------------------------------------------------
(* close: release(final), stop, then the transport is shut down.  The wait *)
(* of release for the reader may time out at any moment.                   *)
CloseBegin ==
  /\ closer = "open" /\ closer' = "flush"
  /\ reader' = Refreshed
  /\ UNCHANGED <<planVars, queueVars, skipped, outcome, flushVars, callVars, fate, allowed>>

FlushHeld ==
  /\ closer \in {"flush", "reflush"}
  /\ TakeHeld("closer")
  /\ closing' = TRUE
  /\ closer' = IF held = <<>> THEN IF closer = "flush" THEN "stop" ELSE "shut"
               ELSE IF closer = "flush" THEN "drain" ELSE "redrain"
  /\ UNCHANGED <<loaded, contentOff, unavailable, stopped, due, readerVars,
                 flushVars, callVars, fate, allowed>>

Stop ==
  /\ closer = "stop" /\ closer' = "reflush"
  /\ stopped' = TRUE
  /\ UNCHANGED <<loaded, contentOff, unavailable, closing, due, queueVars, readerVars,
                 flushVars, callVars, fate, allowed>>

(* Wrong: what is being drained counts as submitted. *)
QueueEmpty == held = <<>>

Released == held = <<>> /\ draining = {}

(* flush: release answers whether anything is still held or being drained. *)
FlushBegin ==
  /\ flush = "idle" /\ flush' = "waiting"
  /\ owed' = {r \in Records : call[r] = "done"}
  /\ reader' = Refreshed
  /\ UNCHANGED <<planVars, queueVars, skipped, outcome, closer, callVars, fate, allowed>>

FlushAnswer ==
  /\ flush = "waiting"
  /\ flush' = IF Released THEN "true" ELSE "false"
  /\ UNCHANGED <<planVars, queueVars, readerVars, closer, owed, callVars, fate, allowed>>

-----------------------------------------------------------------------------
Reader == ReaderBegin \/ ReaderRead \/ ReaderLock \/ ReaderExit
Closer == FlushHeld \/ Stop
Drain(p) == DrainOne(p) \/ DrainMore(p)

Next ==
  \/ \E s \in Spans : SendSpan(s)
  \/ \E t \in Traces : SendTrace(t)
  \/ \E r \in Records : Deliver(r) \/ Evict(r)
  \/ \E p \in Drainers : Drain(p)
  \/ Refresh \/ Tick \/ Reader
  \/ CloseBegin \/ Closer \/ FlushBegin \/ FlushAnswer

Spec == Init /\ [][Next]_vars

(* A goroutine that can run does, and time passes.  Nothing obliges the    *)
(* host to send, to flush or to close.                                     *)
Fairness ==
  /\ WF_vars(Tick) /\ WF_vars(Reader) /\ WF_vars(Closer)
  /\ \A p \in Drainers : WF_vars(Drain(p))
  /\ \A r \in Records : WF_vars(Deliver(r)) /\ WF_vars(Evict(r))

FairSpec == Spec /\ Fairness

-----------------------------------------------------------------------------
PushedOut(r) == \E q \in Records : evicted[q] = r

Carries(q, r) == call[q] = "evict" /\ evicted[q] = r

Overflowing(r) == \E q \in Records : Carries(q, r)

Places(r) ==
  LET At(name, queue) == {<<name, i>> : i \in {j \in 1..Len(queue) : queue[j] = r}}
      Carried == {<<"evicted", q>> : q \in {p \in Records : Carries(p, r)}}
      Own(name, here) == {<<name, q>> : q \in {p \in {r} : here}}
  IN At("held", held) \cup (UNION {At(p, batch[p]) : p \in Drainers})
       \cup Carried \cup Own("deliver", call[r] = "deliver")
       \cup Own("left", fate[r] # "none")

(* No record is lost or duplicated between the queue, the two batches, the *)
(* goroutines that carry one and the transport, whoever drains whatever    *)
(* when (TestSimulationPlan_CloseNeverDropsHeldRecords).                   *)
RecordsConserved ==
  \A r \in Records : Cardinality(Places(r)) = IF call[r] = "idle" THEN 0 ELSE 1

(* A child span subject to the plan uploads its content only after a plan  *)
(* that leaves it on has been loaded, on every path out of the gate: sent  *)
(* directly, drained by the reader, drained by close, or pushed out.       *)
ContentNeedsPlan ==
  \A s \in Spans \ (Roots \cup Unplanned \cup Ignored) :
    fate[s] = "full" => s \in allowed

(* A completion is submitted after every span of its trace that was handed *)
(* over before it (TestSimulationPlan_CompletionWaitsForSubmission), but   *)
(* for one that was pushed out of the full queue and is on its way.        *)
CompletionFollowsSpans ==
  \A t \in Traces : fate[t] # "none" =>
    \A s \in ahead[t] : fate[s] # "none" \/ Overflowing(s)

(* When release answers that nothing is left, every record whose call had  *)
(* returned before the flush began has left the gate, but for one that was *)
(* pushed out of the full queue and is on its way, and for the completion  *)
(* of a trace one of whose spans was pushed out: draining names the traces *)
(* of the spans in a batch only (bitfab.go FlushTraces).                   *)
FlushMissesOnlyEvicted ==
  flush = "true" =>
    \A r \in owed :
      \/ fate[r] # "none" \/ Overflowing(r)
      \/ r \in Traces /\ \E s \in Spans : TraceOf[s] = r /\ PushedOut(s)

(* Once close has stopped the plan, nothing is left behind in the gate.    *)
NothingHeldAfterClose ==
  closer = "shut" =>
    /\ held = <<>>
    /\ \A p \in Drainers : batch[p] = <<>>

(* Every record handed over leaves the gate, whether the plan is ever read *)
(* or not: time and again none is left in it.                              *)
EveryRecordLeaves ==
  []<>(\A r \in Records : call[r] # "idle" => fate[r] # "none")

(* close returns: neither drainMu nor a drain that is fed more records can *)
(* block it for ever.                                                      *)
CloseReturns == closer = "flush" ~> closer = "shut"
=============================================================================
