---------------------------- MODULE ReplayOptions ----------------------------
(***************************************************************************)
(* What Client.Replay makes of its options before it does anything: the    *)
(* checks it refuses a call by, in the order of the code, and the values   *)
(* it fills in.  Options are records; a list the checks only count is its  *)
(* length, a text is whether it is there, and None is a nil slice, a nil   *)
(* pointer or an option that is not given.  Neon's compute units are       *)
(* counted in quarters, so that 0.25 is 1 and 16 is 64.                    *)
(***************************************************************************)
EXTENDS Integers, FiniteSets, SequencesExt

CONSTANT None

MaxAttempts == 100
MaxLimit == 5000
MaxTraceIDs == 100

(* The zero value of ReplayOptions, but for the code change it must name.  *)
ZeroOptions ==
  [callable |-> TRUE, apiKey |-> TRUE,
   codeChange |-> "skip", files |-> FALSE, base |-> "", description |-> FALSE,
   attempts |-> 0, limit |-> 0, maxConcurrency |-> 0,
   concurrency |-> None, processCommand |-> FALSE, dryRun |-> FALSE,
   groupID |-> FALSE, groupName |-> FALSE,
   mock |-> "", overrides |-> <<>>, branch |-> None, selective |-> None,
   datasetID |-> None, datasetIDs |-> None, categoryIDs |-> None, traceIDs |-> None]

ZeroConcurrency ==
  [primitive |-> "", attempts |-> 0, maxConcurrency |-> 0, memoryThrottle |-> None,
   childTimeout |-> 0, childDeliveryTimeout |-> 0, childHook |-> FALSE]

(* What a host can pass: the fields of the two structs, any integers and   *)
(* any list.                                                               *)
Passable(o) ==
  /\ DOMAIN o = DOMAIN ZeroOptions
  /\ o.attempts \in Int /\ o.maxConcurrency \in Int
  /\ o.datasetIDs # None => o.datasetIDs \in Seq(Range(o.datasetIDs))
  /\ o.concurrency # None =>
       /\ DOMAIN o.concurrency = DOMAIN ZeroConcurrency
       /\ o.concurrency.attempts \in Int /\ o.concurrency.maxConcurrency \in Int

------------------------------------------------------------------------------
(* validateCodeChange *)
CodeChangeValid(o) ==
  /\ o.codeChange \in {"working-tree", "last-branch", "default-branch", "ref", "skip", "manual"}
  /\ o.files <=> o.codeChange = "manual"
  /\ o.codeChange = "ref" => o.base \notin {"", "-flag"}
  /\ o.codeChange # "ref" => o.base = ""
  /\ ~(o.codeChange = "skip" /\ o.description)

(* normalizeReplayConcurrency: defaults of a given Concurrency ... *)
ConcurrencyDefaults(c) ==
  LET primitive == IF c.primitive = "" THEN "goroutine" ELSE c.primitive
      process == primitive = "process"
  IN  [c EXCEPT
        !.primitive = primitive,
        !.attempts = IF @ = 0 THEN 1 ELSE @,
        !.maxConcurrency = IF @ # 0 THEN @ ELSE IF process THEN 4 ELSE 10,
        !.childTimeout = IF @ = 0 THEN 40 ELSE @,
        !.childDeliveryTimeout = IF @ = 0 /\ process THEN 1 ELSE @,
        !.memoryThrottle = IF @ = None THEN process ELSE @]

ConcurrencyAlone(o, c) ==      \* a mutant: the scalar options are overridden
  c.primitive \in {"goroutine", "process"} /\ c.attempts >= 1 /\ c.maxConcurrency >= 1

(* ... and what is refused of it. *)
ConcurrencyValid(o, c) ==
  /\ o.attempts = 0 /\ o.maxConcurrency = 0
  /\ c.primitive \in {"goroutine", "process"}
  /\ c.attempts \in 1 .. MaxAttempts /\ c.maxConcurrency >= 1
  /\ c.childTimeout >= 0 /\ c.childDeliveryTimeout >= 0
  /\ c.primitive = "goroutine" =>
       c.childDeliveryTimeout = 0 /\ ~c.memoryThrottle /\ ~c.childHook
  /\ c.primitive = "process" => o.processCommand

(* validateComputeUnits, validateComputeRange *)
ComputeUnitsValid(cu) ==
  \/ cu \in {0, 1, 2}
  \/ cu \in 4 .. 64 /\ cu % 4 = 0
  \/ cu \in 72 .. 224 /\ cu % 8 = 0

ComputeRangeValid(lo, hi) ==
  IF lo > 0 /\ hi > 0
  THEN lo = hi \/ (hi <= 64 /\ hi - lo <= 32)
  ELSE lo <= 64 /\ hi <= 64

(* normalizeDBBranchOptions *)
BranchValid(b) ==
  b # None =>
    /\ ComputeUnitsValid(b.minCU) /\ ComputeUnitsValid(b.maxCU)
    /\ ~(b.minCU > 0 /\ b.maxCU > 0 /\ b.minCU > b.maxCU)
    /\ b.warmupSQL <= 10000
    /\ ComputeRangeValid(b.minCU, b.maxCU)

AsListed(ids) == ids           \* a mutant: a data set may be listed twice

(* resolveDatasetIDs: one selector, each data set once, in the order of    *)
(* the first places.                                                       *)
FirstPlaces(ids) == {i \in DOMAIN ids : \A j \in 1 .. i - 1 : ids[j] # ids[i]}
Place(ids, i) == Cardinality({j \in FirstPlaces(ids) : j <= i})
Unique(ids) ==
  [n \in 1 .. Cardinality(FirstPlaces(ids)) |->
    ids[CHOOSE i \in FirstPlaces(ids) : Place(ids, i) = n]]

DatasetsValid(o) ==
  /\ ~(o.datasetID # None /\ o.datasetIDs # None /\ o.datasetIDs # <<>>)
  /\ o.datasetID = None => o.datasetIDs # <<>>

Datasets(o) ==
  IF o.datasetID # None THEN <<o.datasetID>>
  ELSE IF o.datasetIDs = None THEN None ELSE Unique(o.datasetIDs)

(* validateSelectiveOptions, and what Replay asks of a selective run. *)
SelectiveValid(o, c) ==
  o.selective # None =>
    /\ o.selective \in 1 .. 100
    /\ o.mock = "marked" /\ o.overrides = <<>>
    /\ ~o.processCommand /\ (c # None => c.primitive # "process")

------------------------------------------------------------------------------
(* The options as normalizeReplayOptions resolves them. *)
Resolved(o) ==
  LET c == IF o.concurrency = None THEN None ELSE ConcurrencyDefaults(o.concurrency)
      attempts == IF c = None THEN o.attempts ELSE c.attempts
      workers == IF c = None THEN o.maxConcurrency ELSE c.maxConcurrency
  IN  [o EXCEPT
        !.concurrency = c,
        !.attempts = IF attempts = 0 THEN 1 ELSE attempts,
        !.limit = IF @ = 0 THEN 5 ELSE @,
        !.maxConcurrency = IF workers = 0 THEN 10 ELSE workers,
        !.mock = IF @ = "" THEN "marked" ELSE @,
        !.datasetIDs = Datasets(o),
        !.datasetID = None]

(* Whether Replay goes on with them to its first request. *)
Accepted(o) ==
  LET r == Resolved(o)
  IN  /\ CodeChangeValid(o) /\ o.callable /\ o.apiKey
      /\ o.concurrency # None => ConcurrencyValid(o, r.concurrency)
      /\ r.attempts \in 1 .. MaxAttempts
      /\ r.limit \in 1 .. MaxLimit
      /\ r.maxConcurrency >= 1
      /\ o.groupName => o.groupID
      /\ r.mock \in {"none", "all", "marked"}
      /\ \A i \in DOMAIN o.overrides : o.overrides[i] # None
      /\ BranchValid(o.branch)
      /\ DatasetsValid(o)
      /\ o.categoryIDs # None =>
           o.categoryIDs > 0 /\ (o.traceIDs # None \/ r.datasetIDs # None)
      /\ o.traceIDs # None => o.traceIDs \in 1 .. MaxTraceIDs
      /\ SelectiveValid(r, r.concurrency)
=============================================================================
