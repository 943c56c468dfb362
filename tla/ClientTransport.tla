--------------------------- MODULE ClientTransport ---------------------------
(***************************************************************************)
(* FlushTraces and Close of a client (bitfab.go), down to its OpenTelemetry*)
(* transport (http.go flush and close, otel.go otelTransport).  Carriers   *)
(* are handed to a batch processor, which exports them one batch at a time *)
(* and drops those it has no room for; it is external, as is the           *)
(* provider's ForceFlush and Shutdown.  An export that fails is counted,   *)
(* and the caller of a flush takes the count.                              *)
(***************************************************************************)
EXTENDS Integers, FiniteSets

CONSTANTS
  Carriers,    \* spans and completions
  Flushers,    \* calls of FlushTraces
  Closers,     \* calls of Close
  MaxQueue,    \* otelMaxQueueSize
  MaxBatch,    \* otelDirectMaxExportBatch
  None

Callers == Flushers \cup Closers

ASSUME TransportAssumption ==
  /\ IsFiniteSet(Carriers) /\ Flushers \cap Closers = {}
  /\ MaxQueue \in Nat \ {0} /\ MaxBatch \in Nat \ {0}
  /\ None \notin Callers

VARIABLES
  fate,           \* how far each carrier has come
  closed,         \* httpClient.closed, its transport taken away
  shut, gone,     \* otelTransport.closed, and its provider gone
  stopped,        \* the processor was shut down
  exporter,       \* a caller that exports for itself, None for the worker
  failedExports,  \* deliveryTrackingExporter
  first, closeResult,   \* Client.closeDone and closeResult
  pc, ok, answer,       \* of each caller; ok is what it has so far
  due,            \* carriers its ForceFlush waits for
  covered, told   \* history: carriers at its start, failures it took

transportVars == <<closed, shut, gone, stopped>>
exportVars == <<exporter, failedExports>>
closeVars == <<first, closeResult>>
callVars == <<pc, ok, answer, due>>
vars == <<fate, transportVars, exportVars, closeVars, callVars, covered, told>>

Outcome == {"none", "true", "false"}

Queued == {c \in Carriers : fate[c] = "queued"}
Exporting == {c \in Carriers : fate[c] = "exporting"}
Pending == Queued \cup Exporting

Typed ==
  /\ fate \in [Carriers -> {"new", "accepted", "tracing", "queued", "exporting",
                            "exported", "failed", "dropped"}]
  /\ closed \in BOOLEAN /\ shut \in BOOLEAN /\ gone \in BOOLEAN /\ stopped \in BOOLEAN
  /\ exporter \in Callers \cup {None} /\ failedExports \in Nat
  /\ first \in Closers \cup {None} /\ closeResult \in Outcome
  /\ pc \in [Callers -> {"idle", "wait", "reach", "force", "take", "stop",
                         "drain", "second", "done"}]
  /\ ok \in [Callers -> BOOLEAN] /\ answer \in [Callers -> Outcome]
  /\ due \in [Callers -> SUBSET Carriers]
  /\ covered \in [Callers -> SUBSET Carriers] /\ told \in [Callers -> SUBSET Carriers]

TypeOK == Typed /\ Cardinality(Queued) <= MaxQueue

Init ==
  /\ fate = [c \in Carriers |-> "new"]
  /\ closed = FALSE /\ shut = FALSE /\ gone = FALSE /\ stopped = FALSE
  /\ exporter = None /\ failedExports = 0
  /\ first = None /\ closeResult = "none"
  /\ pc = [p \in Callers |-> "idle"] /\ ok = [p \in Callers |-> TRUE]
  /\ answer = [p \in Callers |-> "none"]
  /\ due = [p \in Callers |-> {}]
  /\ covered = [p \in Callers |-> {}] /\ told = [p \in Callers |-> {}]

-----------------------------------------------------------------------------
Put(c, f) == fate' = [fate EXCEPT ![c] = f]

(* submit: the client gives out its transport unless it is closed, *)
GetTransport(c) ==
  /\ fate[c] = "new"
  /\ Put(c, IF closed THEN "dropped" ELSE "accepted")
  /\ UNCHANGED <<transportVars, exportVars, closeVars, callVars, covered, told>>

(* the transport gives out its tracer unless it is shut down, *)
GetTracer(c) ==
  /\ fate[c] = "accepted"
  /\ Put(c, IF shut THEN "dropped" ELSE "tracing")
  /\ UNCHANGED <<transportVars, exportVars, closeVars, callVars, covered, told>>

(* and the processor has room for the carrier or drops it. *)
Enqueue(c) ==
  /\ fate[c] = "tracing"
  /\ Put(c, IF stopped \/ Cardinality(Queued) >= MaxQueue THEN "dropped" ELSE "queued")
  /\ UNCHANGED <<transportVars, exportVars, closeVars, callVars, covered, told>>

(* An export, of the processor's worker or of a caller of ForceFlush. *)
ExportBegin(p) ==
  /\ Exporting = {}
  /\ p # None => pc[p] = "force" /\ ~stopped
  /\ exporter' = p
  /\ \E some \in SUBSET Queued :
       /\ some # {} /\ Cardinality(some) <= MaxBatch
       /\ fate' = [c \in Carriers |-> IF c \in some THEN "exporting" ELSE fate[c]]
  /\ UNCHANGED <<transportVars, failedExports, closeVars, callVars, covered, told>>

Settle(f) == fate' = [c \in Carriers |-> IF c \in Exporting THEN f ELSE fate[c]]

(* Wrong: an export that fails is not counted. *)
Uncounted == failedExports

Counted == failedExports + 1

(* deliveryTrackingExporter.ExportSpans *)
ExportEnd(success) ==
  /\ Exporting # {}
  /\ Settle(IF success THEN "exported" ELSE "failed")
  /\ failedExports' = IF success THEN failedExports ELSE Counted
  /\ ok' = [p \in Callers |-> ok[p] /\ (p = exporter => success \/ pc[p] # "force")]
  /\ exporter' = None
  /\ UNCHANGED <<transportVars, closeVars, pc, answer, due, covered, told>>

-----------------------------------------------------------------------------
Goto(p, label) == pc' = [pc EXCEPT ![p] = label]

Answer(p, value) ==
  /\ answer' = [answer EXCEPT ![p] = IF value THEN "true" ELSE "false"]
  /\ Goto(p, "done")

(* FlushTraces, and the first Close, wait for finalizers and release the   *)
(* content gate, either of which may take too long.                        *)
FlushBegin(p) ==
  /\ p \in Flushers /\ pc[p] = "idle"
  /\ Goto(p, "wait")
  /\ covered' = [covered EXCEPT ![p] = Pending]
  /\ UNCHANGED <<fate, transportVars, exportVars, closeVars, ok, answer, due, told>>

CloseBegin(p) ==
  /\ p \in Closers /\ pc[p] = "idle"
  /\ \/ first = None /\ first' = p /\ Goto(p, "wait")
     \/ first # None /\ UNCHANGED first /\ Goto(p, "second")
  /\ covered' = [covered EXCEPT ![p] = Pending]
  /\ UNCHANGED <<fate, transportVars, exportVars, closeResult, ok, answer, due, told>>

(* A later Close has the first one's result, or times out. *)
CloseSecond(p) ==
  /\ pc[p] = "second"
  /\ \/ closeResult # "none" /\ Answer(p, closeResult = "true")
     \/ Answer(p, FALSE)
  /\ UNCHANGED <<fate, transportVars, exportVars, closeVars, ok, due, covered, told>>

(* httpClient.flush reads the transport, close takes it away.              *)
Release(p) ==
  /\ pc[p] = "wait"
  /\ \E released \in BOOLEAN :
       /\ ok' = [ok EXCEPT ![p] = released]
       /\ \/ p \in Flushers /\ closed /\ Answer(p, released)
          \/ (p \in Closers \/ ~closed) /\ Goto(p, "reach") /\ UNCHANGED answer
  /\ closed' = (closed \/ p \in Closers)
  /\ UNCHANGED <<fate, shut, gone, stopped, exportVars, closeVars, due, covered, told>>

(* otelTransport.flush, which shutdown calls once it has closed the        *)
(* transport; without a provider there is nothing to flush.                *)
Reach(p) ==
  /\ pc[p] = "reach"
  /\ shut' = (shut \/ p \in Closers)
  /\ \/ gone /\ Answer(p, ok[p]) /\ UNCHANGED due
     \/ ~gone /\ Goto(p, "force") /\ due' = [due EXCEPT ![p] = Pending] /\ UNCHANGED answer
  /\ UNCHANGED <<fate, closed, gone, stopped, exportVars, closeVars, ok, covered, told>>

Flushed(p) == due[p] \cap Pending = {}

(* ForceFlush returns, or times out. *)
ForceFlush(p) ==
  /\ pc[p] = "force" /\ exporter # p
  /\ \/ (Flushed(p) \/ stopped) /\ UNCHANGED ok
     \/ ok' = [ok EXCEPT ![p] = FALSE]
  /\ Goto(p, "take")
  /\ due' = [due EXCEPT ![p] = {}]
  /\ UNCHANGED <<fate, transportVars, exportVars, closeVars, answer, covered, told>>

(* Wrong: the count is taken and not looked at. *)
IgnoresFailures(p) == ok[p]

NoneFailed(p) == ok[p] /\ failedExports = 0

AllTaken == 0

(* takeFailedExports *)
Take(p) ==
  /\ pc[p] = "take"
  /\ failedExports' = AllTaken
  /\ ok' = [ok EXCEPT ![p] = NoneFailed(p)]
  /\ told' = [told EXCEPT ![p] =
       {c \in Carriers : fate[c] = "failed"} \ UNION {told[q] : q \in Callers}]
  /\ \/ p \in Flushers /\ Answer(p, NoneFailed(p))
     \/ p \in Closers /\ Goto(p, "stop") /\ UNCHANGED answer
  /\ UNCHANGED <<fate, transportVars, exporter, closeVars, due, covered>>

(* shutdown goes on to the provider's Shutdown, which drains the queue, *)
Stop(p) ==
  /\ pc[p] = "stop"
  /\ stopped' = TRUE
  /\ Goto(p, "drain")
  /\ UNCHANGED <<fate, closed, shut, gone, exportVars, closeVars, ok, answer, due, covered, told>>

(* Wrong: whether the provider stopped in time does not matter. *)
FlushedOnly(p, inTime) == ok[p]

FlushedAndStopped(p, inTime) == ok[p] /\ inTime

(* or times out; then the first Close has its result.                      *)
Finish(p) ==
  /\ pc[p] = "drain"
  /\ \E inTime \in {FALSE} \cup {Pending = {}} :
       /\ Answer(p, FlushedAndStopped(p, inTime))
       /\ closeResult' = IF FlushedAndStopped(p, inTime) THEN "true" ELSE "false"
  /\ gone' = TRUE
  /\ UNCHANGED <<fate, closed, shut, stopped, exportVars, first, ok, due, covered, told>>

Next ==
  \/ \E c \in Carriers : GetTransport(c) \/ GetTracer(c) \/ Enqueue(c)
  \/ \E p \in Callers \cup {None} : ExportBegin(p)
  \/ \E success \in BOOLEAN : ExportEnd(success)
  \/ \E p \in Callers :
       \/ FlushBegin(p) \/ CloseBegin(p) \/ CloseSecond(p) \/ Release(p)
       \/ Reach(p) \/ ForceFlush(p) \/ Take(p) \/ Stop(p) \/ Finish(p)

Spec == Init /\ [][Next]_vars

-----------------------------------------------------------------------------
(* What a call had to deliver: the carriers queued when it began. *)
Delivered(p) == \A c \in covered[p] : fate[c] = "exported"

(* A later Close only waits for the first. *)
Rivals(p) == {q \in Callers \ {p} : pc[q] # "idle" /\ (q \in Closers => q = first)}

(* A FlushTraces, or the first Close, that answers true has delivered all  *)
(* of that while no other call shares the transport with it, whatever is   *)
(* submitted meanwhile and however many later calls of Close wait for it   *)
(* (bitfab.go FlushTraces: "It reports false when an export failed or the  *)
(* deadline expired").                                                     *)
TruthfulAlone ==
  \A p \in Callers : answer[p] = "true" /\ Rivals(p) = {} => Delivered(p)

(* A failed export is never passed over: it is still counted, or the call  *)
(* that took its count does not report success (otel.go takeFailedExports).*)
FailureTold ==
  \A c \in Carriers : fate[c] = "failed" =>
    failedExports > 0 \/ \E p \in Callers : c \in told[p] /\ answer[p] # "true"

(* A client that reports having closed has left nothing in the queue or in *)
(* flight, of the carriers whose submission raced with it included         *)
(* (otel.go shutdown).                                                     *)
NothingLeftBehind == closeResult = "true" => Pending = {}
=============================================================================
