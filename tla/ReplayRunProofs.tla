--------------------------- MODULE ReplayRunProofs ---------------------------
(***************************************************************************)
(* For any options a host can pass, items, goroutines and spans: a replay  *)
(* overrides nothing it was asked for, asks for each data set once, gives  *)
(* each item's branch back and reports it finished once, and is silent     *)
(* only about traces the server has.  IInv is inductive: the stage of the  *)
(* call bounds what there can be of it, a goroutine has the item it works  *)
(* on to itself, an item handed out is being worked on or reported, and a  *)
(* delivery record says nothing of a carrier that did not happen to it.    *)
(***************************************************************************)
EXTENDS ReplayRun, FiniteSetTheorems, SequenceTheorems, WellFoundedInduction, TLAPS

Phases == {"called", "refused", "start", "running", "gather", "flush", "poll",
           "complete", "failed", "returned"}
Busy == {"prepare", "call", "release", "fill", "flush", "report"}
Requests == {"start", "complete"}
Outcomes == [error : {"none", "setup", "trace"}, executed : BOOLEAN]
Deliveries == [submitted : SUBSET Spans, acked : SUBSET Spans, closed : BOOLEAN,
               closingAcked : BOOLEAN, server : BOOLEAN]

Typed ==
  /\ raw \in Calls /\ phase \in Phases /\ requests \in Seq(Requests)
  /\ total \in Items \cup {0} /\ next \in Nat \ {0}
  /\ offered \in [Items -> {"none", "lease", "error"}]
  /\ pc \in [Workers -> Busy \cup {"off", "idle"}] /\ job \in [Workers -> Items \cup {0}]
  /\ lease \in [Items -> {"none", "held", "released"}]
  /\ outcome \in [Items -> Outcomes]
  /\ started \in Nat /\ completed \in Nat /\ succeeded \in Nat /\ errored \in Nat
  /\ finished \in [Items -> Nat]
  /\ carrier \in [Items -> [Carriers -> {"none", "begun", "recorded", "stored", "acked"}]]
  /\ deliveries \in [Items -> Deliveries \cup {None}]

(* Nothing has been done for any item yet. *)
Untouched ==
  /\ next = 1 /\ started = 0 /\ completed = 0 /\ succeeded = 0 /\ errored = 0
  /\ \A i \in Items : /\ finished[i] = 0 /\ lease[i] = "none" /\ outcome[i] = BaseItem
                      /\ \A c \in Carriers : carrier[i][c] = "none"

On == {w \in Workers : pc[w] # "off"}

(* Where the call is says what there is of it: the options of an accepted  *)
(* call, goroutines only while the items run and only without processes,   *)
(* no more of them than were asked for, and some as long as there are      *)
(* items to hand out.                                                      *)
Staged ==
  /\ phase \notin {"called", "refused"} => Accepted(raw) /\ options = Resolved(raw)
  /\ phase \in {"called", "refused", "start"} =>
       requests = <<>> /\ total = 0 /\ \A i \in Items : deliveries[i] = None
  /\ phase \in {"called", "refused", "start"} \/ (InProcess /\ phase = "running") => Untouched
  /\ phase # "running" \/ InProcess => On = {}
  /\ phase \notin {"called", "refused"} => Cardinality(On) <= options.maxConcurrency
  /\ phase = "running" => next > total \/ InProcess \/ On # {}

(* A goroutine that works on an item has it to itself. *)
Jobs ==
  /\ next <= total + 1
  /\ \A w \in Workers : pc[w] \in Busy => job[w] \in 1 .. next - 1
  /\ \A v, w \in Workers : pc[v] \in Busy /\ pc[w] \in Busy /\ job[v] = job[w] => v = w
  /\ \A w \in Workers : pc[w] \in {"prepare", "call"} => outcome[job[w]] = BaseItem
  /\ ~InProcess => \A i \in Items : i >= next => outcome[i] = BaseItem

(* An item handed out is being worked on or was reported finished. *)
Reported ==
  ~InProcess =>
    /\ started = next - 1
    /\ \A i \in Items : \/ finished[i] = 0 /\ (i >= next \/ \E w \in Workers : pc[w] \in Busy /\ job[w] = i)
                        \/ finished[i] = 1 /\ i < next /\ \A w \in Workers : pc[w] \in Busy => job[w] # i

(* What the delivery records say has happened to the carriers. *)
Ledger ==
  /\ \A i \in Items : (\E c \in Carriers : carrier[i][c] # "none") => outcome[i].executed
  /\ \A i \in Items : deliveries[i] # None =>
       /\ i \in Active
       /\ \A s \in deliveries[i].submitted : carrier[i][s] \in {"recorded", "stored", "acked"}
       /\ \A s \in deliveries[i].acked : carrier[i][s] = "acked"
       /\ deliveries[i].closingAcked => carrier[i][Closing] = "acked"

Arrived(i) == Closing \in Stored(i) /\ Cardinality(Stored(i) \ {Closing}) >= reports[i].spanCount

(* What has been taken of them is final. *)
Awaited ==
  /\ phase \notin {"poll", "complete", "failed", "returned"} =>
       warned = {} /\ \A i \in Items : reports[i] = None
  /\ \A i \in Items : reports[i] # None => reports[i].spanCount \in Nat
  /\ phase = "poll" => warned = {}
  /\ phase \in {"complete", "returned"} => \A i \in Expected \ warned : Arrived(i)
  /\ phase \in {"poll", "complete", "returned"} /\ ~options.dryRun =>
       \A i \in Executed : deliveries[i] = None

IInv == Typed /\ Staged /\ Jobs /\ Reported /\ BranchesReturned /\ ProgressExact /\ Ledger /\ Awaited

-----------------------------------------------------------------------------
(* Options.  A text field of a record the host filled in keeps its place.  *)
LEMMA ResolvedFields ==
  ASSUME NEW o \in Calls
  PROVE  LET c == IF o.concurrency = None THEN None ELSE ConcurrencyDefaults(o.concurrency)
             attempts == IF c = None THEN o.attempts ELSE c.attempts
             workers == IF c = None THEN o.maxConcurrency ELSE c.maxConcurrency
         IN  /\ Resolved(o).concurrency = c
             /\ Resolved(o).attempts = IF attempts = 0 THEN 1 ELSE attempts
             /\ Resolved(o).maxConcurrency = IF workers = 0 THEN 10 ELSE workers
<1>1. {"maxConcurrency", "attempts", "concurrency"} \subseteq DOMAIN o
  BY RunAssumption DEF Passable, ZeroOptions
<1> QED
  BY <1>1 DEF Resolved

LEMMA DefaultFields ==
  ASSUME NEW o \in Calls, o.concurrency # None
  PROVE  LET c == o.concurrency
         IN  /\ ConcurrencyDefaults(c).attempts = IF c.attempts = 0 THEN 1 ELSE c.attempts
             /\ c.maxConcurrency # 0 =>
                  ConcurrencyDefaults(c).maxConcurrency = c.maxConcurrency
             /\ c.maxConcurrency = 0 => ConcurrencyDefaults(c).maxConcurrency \in {4, 10}
<1>1. {"maxConcurrency", "attempts"} \subseteq DOMAIN o.concurrency
  BY RunAssumption DEF Passable, ZeroConcurrency
<1> QED
  BY <1>1 DEF ConcurrencyDefaults

LEMMA ResolvedDatasets ==
  ASSUME NEW o \in Calls
  PROVE  Resolved(o).datasetIDs = Datasets(o)
<1>1. {"datasetIDs", "datasetID"} \subseteq DOMAIN o
  BY RunAssumption DEF Passable, ZeroOptions
<1> QED
  BY <1>1 DEF Resolved

LEMMA AcceptedAsAsked ==
  ASSUME NEW o \in Calls, Accepted(o)
  PROVE  /\ Resolved(o).maxConcurrency \in Int /\ Resolved(o).maxConcurrency >= 1
         /\ Resolved(o).attempts \in 1 .. MaxAttempts
         /\ o.attempts \in {0, Resolved(o).attempts}
         /\ o.maxConcurrency \in {0, Resolved(o).maxConcurrency}
         /\ o.concurrency # None =>
              /\ o.concurrency.attempts \in {0, Resolved(o).attempts}
              /\ o.concurrency.maxConcurrency \in {0, Resolved(o).maxConcurrency}
<1>1. /\ o.attempts \in Int /\ o.maxConcurrency \in Int
      /\ o.concurrency # None =>
           o.concurrency.attempts \in Int /\ o.concurrency.maxConcurrency \in Int
  BY RunAssumption DEF Passable
<1>2. /\ Resolved(o).maxConcurrency >= 1
      /\ Resolved(o).attempts \in 1 .. MaxAttempts
      /\ o.concurrency # None => o.attempts = 0 /\ o.maxConcurrency = 0
  BY DEF Accepted, ConcurrencyValid
<1>3. CASE o.concurrency = None
  <2>1. /\ Resolved(o).attempts = IF o.attempts = 0 THEN 1 ELSE o.attempts
        /\ Resolved(o).maxConcurrency = IF o.maxConcurrency = 0 THEN 10 ELSE o.maxConcurrency
    BY <1>3, ResolvedFields
  <2> QED
    BY <1>1, <1>2, <1>3, <2>1
<1>4. CASE o.concurrency # None
  <2> DEFINE c == o.concurrency
  <2>1. ConcurrencyDefaults(c) # None
    BY <1>4, RunAssumption
  <2>2. /\ Resolved(o).attempts =
             IF ConcurrencyDefaults(c).attempts = 0 THEN 1 ELSE ConcurrencyDefaults(c).attempts
        /\ Resolved(o).maxConcurrency =
             IF ConcurrencyDefaults(c).maxConcurrency = 0 THEN 10
             ELSE ConcurrencyDefaults(c).maxConcurrency
    BY <1>4, <2>1, ResolvedFields
  <2>3. /\ ConcurrencyDefaults(c).attempts = IF c.attempts = 0 THEN 1 ELSE c.attempts
        /\ c.maxConcurrency # 0 => ConcurrencyDefaults(c).maxConcurrency = c.maxConcurrency
        /\ c.maxConcurrency = 0 => ConcurrencyDefaults(c).maxConcurrency \in {4, 10}
    BY <1>4, DefaultFields
  <2> HIDE DEF c
  <2>4. c.attempts \in Int /\ c.maxConcurrency \in Int
    BY <1>1, <1>4 DEF c
  <2>5. c.attempts \in {0, Resolved(o).attempts}
    BY <2>2, <2>3, <2>4
  <2>6. c.maxConcurrency \in {0, Resolved(o).maxConcurrency} /\ Resolved(o).maxConcurrency \in Int
    BY <2>2, <2>3, <2>4
  <2> QED
    BY <1>1, <1>2, <1>4, <2>5, <2>6 DEF c
<1> QED
  BY <1>3, <1>4

-----------------------------------------------------------------------------
(* Data sets. Each that is listed has a first place, ...                   *)
LEMMA FirstPlaceOf ==
  ASSUME NEW ids, ids \in Seq(Range(ids)), NEW k \in DOMAIN ids
  PROVE  \E i \in FirstPlaces(ids) : ids[i] = ids[k]
<1> DEFINE R == OpToRel(<, Nat)
<1> DEFINE T == {i \in DOMAIN ids : ids[i] = ids[k]}
<1>1. DOMAIN ids = 1 .. Len(ids) /\ Len(ids) \in Nat
  OBVIOUS
<1>2. T \subseteq Nat /\ T # {}
  BY <1>1
<1>3. \E i \in T : \A j \in T : <<j, i>> \notin R
  <2> HIDE DEF R, T
  <2> QED
    BY <1>2, NatLessThanWellFounded, WFMin DEF R
<1>4. PICK i \in T : \A j \in T : <<j, i>> \notin R
  BY <1>3
<1>5. \A j \in T : ~ (j < i)
  BY <1>2, <1>4 DEF OpToRel
<1>6. \A j \in 1 .. i - 1 : ids[j] # ids[i]
  <2> SUFFICES ASSUME NEW j \in 1 .. i - 1, ids[j] = ids[i] PROVE FALSE
    OBVIOUS
  <2>1. j \in DOMAIN ids /\ j < i
    <3>1. i \in 1 .. Len(ids)
      BY <1>1, <1>4
    <3>2. j \in 1 .. Len(ids) /\ j < i
      BY <1>1, <3>1
    <3> QED
      BY <1>1, <3>2
  <2> QED
    BY <1>4, <1>5, <2>1
<1> QED
  BY <1>4, <1>6 DEF FirstPlaces

(* ... each first place a place of its own in what is resolved, ...        *)
LEMMA PlacesOnce ==
  ASSUME NEW ids, ids \in Seq(Range(ids))
  PROVE  LET count == Cardinality(FirstPlaces(ids))
         IN  /\ count \in Nat
             /\ \A n \in 1 .. count : \E i \in FirstPlaces(ids) : Place(ids, i) = n
             /\ \A i \in FirstPlaces(ids) : Place(ids, i) \in 1 .. count
             /\ \A i, j \in FirstPlaces(ids) : Place(ids, i) = Place(ids, j) => i = j
<1> DEFINE F == FirstPlaces(ids)
<1> DEFINE Upto(i) == {j \in F : j <= i}
<1>1. DOMAIN ids = 1 .. Len(ids) /\ Len(ids) \in Nat
  OBVIOUS
<1>2. F \subseteq 1 .. Len(ids)
  BY <1>1 DEF FirstPlaces
<1>3. IsFiniteSet(F) /\ Cardinality(F) \in Nat
  <2>1. 1 \in Int /\ Len(ids) \in Int
    BY <1>1
  <2>2. IsFiniteSet(1 .. Len(ids))
    BY <2>1, FS_Interval
  <2>3. IsFiniteSet(F)
    BY <1>2, <2>2, FS_Subset
  <2> QED
    BY <2>3, FS_CardinalityType
<1>4. \A i \in F : Place(ids, i) = Cardinality(Upto(i))
  BY DEF Place
<1> HIDE DEF F
<1>5. \A i \in F : /\ IsFiniteSet(Upto(i)) /\ Cardinality(Upto(i)) \in Nat
                   /\ Cardinality(Upto(i)) \in 1 .. Cardinality(F)
  <2> TAKE i \in F
  <2>1. Upto(i) \in SUBSET F /\ i \in Upto(i)
    BY <1>2
  <2> HIDE DEF Upto
  <2>2. IsFiniteSet(Upto(i)) /\ Cardinality(Upto(i)) <= Cardinality(F)
    BY <1>3, <2>1, FS_Subset
  <2>3. Cardinality(Upto(i)) \in Nat /\ (Cardinality(Upto(i)) = 0 <=> Upto(i) = {})
    BY <2>2, FS_CardinalityType, FS_EmptySet
  <2>4. Cardinality(Upto(i)) # 0
    BY <2>1, <2>3
  <2> QED
    BY <1>3, <2>2, <2>3, <2>4
<1>6. ASSUME NEW i \in F, NEW j \in F, i < j PROVE Cardinality(Upto(i)) < Cardinality(Upto(j))
  <2>1. Upto(i) \in SUBSET Upto(j) /\ Upto(i) # Upto(j)
    <3>1. \A k \in F : k <= i => k <= j
      BY <1>2, <1>6
    <3>2. j \in Upto(j) /\ j \notin Upto(i)
      BY <1>2, <1>6
    <3> QED
      BY <3>1, <3>2
  <2>2. IsFiniteSet(Upto(j)) /\ Cardinality(Upto(i)) \in Nat /\ Cardinality(Upto(j)) \in Nat
    BY <1>5, Zenon
  <2> HIDE DEF Upto
  <2>3. Cardinality(Upto(i)) <= Cardinality(Upto(j)) /\ Cardinality(Upto(i)) # Cardinality(Upto(j))
    BY <2>1, <2>2, FS_Subset
  <2> QED
    BY <2>2, <2>3
<1>7. \A i, j \in F : Cardinality(Upto(i)) = Cardinality(Upto(j)) => i = j
  <2> SUFFICES ASSUME NEW i \in F, NEW j \in F, Cardinality(Upto(i)) = Cardinality(Upto(j)), i # j
               PROVE  FALSE
    OBVIOUS
  <2>1. i < j \/ j < i
    BY <1>2
  <2>2. Cardinality(Upto(i)) \in Nat /\ Cardinality(Upto(j)) \in Nat
    BY <1>5, Zenon
  <2> HIDE DEF Upto
  <2> QED
    BY <1>6, <2>1, <2>2
<1> DEFINE f == [i \in F |-> Cardinality(Upto(i))]
<1>8. f \in Injection(F, 1 .. Cardinality(F))
  <2> HIDE DEF Upto
  <2> QED
    BY <1>5, <1>7, Zenon DEF Injection, IsInjective
<1>9. IsFiniteSet(1 .. Cardinality(F)) /\ Cardinality(1 .. Cardinality(F)) = Cardinality(F)
  <2>1. 1 \in Int /\ Cardinality(F) \in Int
    BY <1>3
  <2>2. /\ IsFiniteSet(1 .. Cardinality(F))
        /\ Cardinality(1 .. Cardinality(F)) = IF 1 > Cardinality(F) THEN 0 ELSE Cardinality(F) - 1 + 1
    BY <2>1, FS_Interval
  <2> QED
    BY <1>3, <2>2
<1>10. f \in Surjection(F, 1 .. Cardinality(F))
  <2> HIDE DEF f
  <2> QED
    BY <1>8, <1>9, FS_Injection
<1>11. \A n \in 1 .. Cardinality(F) : \E i \in F : Cardinality(Upto(i)) = n
  <2> HIDE DEF Upto
  <2> QED
    BY <1>10, Zenon DEF Surjection
<1> HIDE DEF Upto
<1> QED
  BY <1>3, <1>4, <1>5, <1>7, <1>11 DEF F

(* ... so that what is resolved has each data set that is listed, once.    *)
LEMMA UniqueOnce ==
  ASSUME NEW ids, ids \in Seq(Range(ids))
  PROVE  Range(Unique(ids)) = Range(ids) /\ IsInjective(Unique(ids))
<1>1. PICK F : F = FirstPlaces(ids)
  OBVIOUS
<1>2. PICK count : count = Cardinality(F)
  OBVIOUS
<1>3. /\ \A n \in 1 .. count : \E i \in F : Place(ids, i) = n
      /\ \A i \in F : Place(ids, i) \in 1 .. count
      /\ \A i, j \in F : Place(ids, i) = Place(ids, j) => i = j
  BY <1>1, <1>2, PlacesOnce
<1> DEFINE at(n) == CHOOSE i \in F : Place(ids, i) = n
<1>4. \A n \in 1 .. count : at(n) \in F /\ Place(ids, at(n)) = n
  BY <1>3
<1>5. \A i \in F : at(Place(ids, i)) = i
  BY <1>3, <1>4
<1>6. PICK u : u = Unique(ids)
  OBVIOUS
<1>7. DOMAIN u = 1 .. count /\ \A n \in 1 .. count : u[n] = ids[at(n)]
  BY <1>1, <1>2, <1>6 DEF Unique
<1> HIDE DEF at
<1>8. F \subseteq DOMAIN ids
  BY <1>1 DEF FirstPlaces
<1>9. \A i, j \in F : ids[i] = ids[j] => i = j
  <2> SUFFICES ASSUME NEW i \in F, NEW j \in F, ids[i] = ids[j], i # j PROVE FALSE
    OBVIOUS
  <2>1. i \in 1 .. Len(ids) /\ j \in 1 .. Len(ids) /\ Len(ids) \in Nat
    BY <1>8
  <2>2. i \in 1 .. j - 1 \/ j \in 1 .. i - 1
    BY <2>1
  <2> QED
    BY <1>1, <2>2 DEF FirstPlaces
<1>10. IsInjective(u)
  <2> SUFFICES ASSUME NEW m \in DOMAIN u, NEW n \in DOMAIN u, u[m] = u[n] PROVE m = n
    BY Zenon DEF IsInjective
  <2>1. at(m) \in F /\ at(n) \in F /\ ids[at(m)] = ids[at(n)]
    BY <1>4, <1>7
  <2>2. at(m) = at(n)
    BY <1>9, <2>1
  <2> QED
    BY <1>4, <1>7, <2>2
<1>11. Range(u) \subseteq Range(ids)
  BY <1>4, <1>7, <1>8, Zenon DEF Range
<1>12. Range(ids) \subseteq Range(u)
  <2> SUFFICES ASSUME NEW k \in DOMAIN ids PROVE ids[k] \in Range(u)
    BY Zenon DEF Range
  <2>1. PICK i \in F : ids[i] = ids[k]
    BY <1>1, FirstPlaceOf
  <2>2. Place(ids, i) \in DOMAIN u /\ u[Place(ids, i)] = ids[i]
    BY <1>3, <1>5, <1>7
  <2> QED
    BY <2>1, <2>2, Zenon DEF Range
<1> QED
  BY <1>6, <1>10, <1>11, <1>12

-----------------------------------------------------------------------------
(* Small facts every step needs. *)
LEMMA Sizes ==
  /\ \A S \in SUBSET Items : IsFiniteSet(S) /\ Cardinality(S) \in Nat
  /\ \A S \in SUBSET Workers : IsFiniteSet(S) /\ Cardinality(S) \in Nat
  /\ \A S \in SUBSET Spans : IsFiniteSet(S) /\ Cardinality(S) \in Nat
  BY FS_Subset, FS_CardinalityType, RunAssumption

LEMMA ItemsCount == \A i \in Items : i \in Nat /\ i >= 1
<1>1. Items = 1 .. Cardinality(Items) /\ Cardinality(Items) \in Nat
  BY RunAssumption, FS_CardinalityType
<1> QED
  BY <1>1

LEMMA ActiveItems ==
  ASSUME total \in Items \cup {0}
  PROVE  /\ total \in Nat /\ Active \subseteq Items
         /\ IsFiniteSet(Active) /\ Cardinality(Active) = total
<1>1. Cardinality(Items) \in Nat /\ Items = 1 .. Cardinality(Items)
  BY RunAssumption, FS_CardinalityType
<1>2. total \in Nat /\ total <= Cardinality(Items)
  BY <1>1
<1>3. Active \subseteq Items
  BY <1>1, <1>2 DEF Active
<1>4. Cardinality(1 .. total) = total /\ IsFiniteSet(1 .. total)
  <2>1. CASE total = 0
    <3>1. 1 .. total = {}
      BY <2>1
    <3> QED
      BY <2>1, <3>1, FS_EmptySet
  <2>2. CASE total # 0
    BY <1>2, <2>2, FS_Interval
  <2> QED
    BY <2>1, <2>2
<1> QED
  BY <1>2, <1>3, <1>4 DEF Active

LEMMA FewerOn ==
  ASSUME On' \subseteq On
  PROVE  Cardinality(On') <= Cardinality(On) /\ Cardinality(On') \in Nat /\ Cardinality(On) \in Nat
<1>1. IsFiniteSet(On) /\ On \subseteq Workers
  BY Sizes DEF On
<1> QED
  BY <1>1, FS_Subset, FS_CardinalityType

LEMMA LimitIsInt ==
  ASSUME IInv, phase \notin {"called", "refused"}
  PROVE  options.maxConcurrency \in Int /\ options.maxConcurrency >= 1
  BY AcceptedAsAsked DEF IInv, Typed, Staged

(* The goroutines run only in one place. *)
LEMMA Running ==
  ASSUME IInv, NEW w \in Workers, pc[w] # "off"
  PROVE  /\ phase = "running" /\ ~InProcess /\ w \in On
         /\ started = next - 1 /\ Accepted(raw) /\ options = Resolved(raw)
         /\ Cardinality(On) <= options.maxConcurrency
<1>1. w \in On
  BY DEF On
<1> QED
  BY <1>1 DEF IInv, Staged, Reported

LEMMA RunningStaged ==
  ASSUME IInv, NEW w \in Workers, pc[w] # "off", UNCHANGED <<main, plan>>,
         \A v \in Workers : v # w => pc'[v] = pc[v],
         pc'[w] = "off" => next' > total
  PROVE  Staged'
<1>1. phase = "running" /\ ~InProcess /\ Accepted(raw) /\ options = Resolved(raw)
      /\ Cardinality(On) <= options.maxConcurrency
  BY Running
<1>2. phase' = phase /\ raw' = raw /\ options' = options /\ total' = total /\ InProcess' = InProcess
  BY DEF main, plan, InProcess
<1>3. On' \subseteq On
  BY DEF On
<1>4. Cardinality(On') <= options.maxConcurrency
  BY <1>1, <1>3, FewerOn, LimitIsInt
<1>5. next' > total \/ On' # {}
  BY DEF On
<1> QED
  BY <1>1, <1>2, <1>4, <1>5 DEF Staged

(* What no goroutine touches. *)
LEMMA RunningAwaited ==
  ASSUME Awaited, phase = "running", UNCHANGED <<main, wait>>
  PROVE  Awaited'
  BY DEF Awaited, main, wait

LEMMA SameLedger ==
  ASSUME Ledger, UNCHANGED <<total, carrier, deliveries>>,
         \A i \in Items : outcome[i].executed => outcome'[i].executed
  PROVE  Ledger'
<1>1. Active' = Active
  BY DEF Active
<1> QED
  BY <1>1 DEF Ledger

(* The counters count what was reported, as long as nothing else changes.  *)
LEMMA SameCounts ==
  ASSUME IInv, phase' = "running", InProcess' = InProcess,
         UNCHANGED <<total, completed, succeeded, errored, finished>>,
         started' <= total, InProcess \/ completed <= started',
         \A i \in Items : finished[i] = 1 => outcome'[i] = outcome[i]
  PROVE  ProgressExact'
<1>1. {i \in Items : finished'[i] = 1 /\ outcome'[i].error # "none"}
        = {i \in Items : finished[i] = 1 /\ outcome[i].error # "none"}
  OBVIOUS
<1> QED
  BY <1>1 DEF IInv, ProgressExact

-----------------------------------------------------------------------------
(* A goroutine takes an item or finds there is none. *)
LEMMA TakeJobKeeps == ASSUME IInv, NEW w \in Workers, TakeJob(w) PROVE IInv'
<1>1. /\ pc[w] = "idle" /\ phase = "running"
      /\ UNCHANGED <<lease, outcome, completed, succeeded, errored, finished, delivery,
                     main, plan, wait, cancelled>>
  BY DEF TakeJob, Idle
<1>2. /\ ~InProcess /\ started = next - 1 /\ InProcess' = InProcess
      /\ total \in Nat /\ Active' = Active
  BY <1>1, Running, ActiveItems DEF IInv, Typed, main, plan, InProcess, Active
<1> USE DEF IInv
<1>3. Ledger' /\ Awaited'
  BY <1>1, SameLedger, RunningAwaited DEF plan, delivery
<1>4. CASE next <= total
  <2>1. /\ job' = [job EXCEPT ![w] = next] /\ next' = next + 1 /\ started' = started + 1
        /\ pc' = [pc EXCEPT ![w] = "prepare"]
    BY <1>4 DEF TakeJob, HasJob, Go
  <2>2. next \in Items /\ next \in Nat \ {0}
    BY <1>2, <1>4, ActiveItems DEF Typed, Active
  <2>3. Typed'
    BY <1>1, <2>1, <2>2 DEF Typed, main, plan, delivery, Busy
  <2>4. /\ pc'[w] = "prepare" /\ job'[w] = next
        /\ \A v \in Workers : v # w => pc'[v] = pc[v] /\ job'[v] = job[v]
    BY <2>1 DEF Typed
  <2>5. Staged'
    BY <1>1, <2>4, RunningStaged
  <2>6. Jobs'
    <3>1. \A v \in Workers : v # w /\ pc[v] \in Busy => job[v] \in 1 .. next - 1 /\ job[v] # next
      BY <2>2 DEF Jobs
    <3>2. \A v \in Workers : pc'[v] \in Busy => job'[v] \in 1 .. next' - 1
      BY <2>1, <2>2, <2>4, <3>1
    <3>3. \A u, v \in Workers : pc'[u] \in Busy /\ pc'[v] \in Busy /\ job'[u] = job'[v] => u = v
      BY <2>4, <3>1 DEF Jobs
    <3>4. \A v \in Workers : pc'[v] \in {"prepare", "call"} => outcome'[job'[v]] = BaseItem
      BY <1>1, <1>2, <2>2, <2>4 DEF Jobs
    <3>5. \A i \in Items : i >= next' => outcome'[i] = BaseItem
      BY <1>1, <1>2, <2>1, <2>2, ItemsCount DEF Jobs
    <3>6. next' <= total' + 1
      BY <1>1, <1>2, <1>4, <2>1, <2>2 DEF plan
    <3> QED
      BY <3>2, <3>3, <3>4, <3>5, <3>6 DEF Jobs
  <2>7. Reported'
    <3>1. started' = next' - 1
      BY <1>2, <2>1, <2>2
    <3>2. ASSUME NEW i \in Items
          PROVE  \/ finished'[i] = 0 /\ (i >= next' \/ \E v \in Workers : pc'[v] \in Busy /\ job'[v] = i)
                 \/ finished'[i] = 1 /\ i < next' /\ \A v \in Workers : pc'[v] \in Busy => job'[v] # i
      <4>0. i \in Nat /\ finished' = finished
        BY <1>1, ItemsCount
      <4>1. CASE i = next
        BY <1>2, <2>4, <4>0, <4>1 DEF Reported, Busy
      <4>2. CASE i > next
        BY <1>2, <2>1, <2>2, <4>0, <4>2 DEF Reported
      <4>3. CASE i < next
        <5>1. \A v \in Workers : pc'[v] \in Busy /\ job'[v] = i <=> pc[v] \in Busy /\ job[v] = i
          BY <1>1, <2>2, <2>4, <4>0, <4>3 DEF Busy
        <5> QED
          BY <1>2, <2>1, <2>2, <4>0, <4>3, <5>1 DEF Reported
      <4> QED
        BY <2>2, <4>0, <4>1, <4>2, <4>3
    <3> QED
      BY <3>1, <3>2 DEF Reported
  <2>8. BranchesReturned'
    <3>1. \A i \in Items : lease[i] = "held" =>
            \E v \in Workers : job'[v] = i /\ pc'[v] \in {"prepare", "call", "release"}
      BY <1>1, <2>4 DEF BranchesReturned
    <3>2. \A i \in Items : lease[i] = "released" => i < next'
      BY <2>1, <2>2, ItemsCount DEF BranchesReturned
    <3>3. \A v \in Workers : pc'[v] = "call" /\ offered[job'[v]] = "lease" => lease[job'[v]] = "held"
      BY <2>4 DEF BranchesReturned
    <3> QED
      BY <1>1, <3>1, <3>2, <3>3 DEF BranchesReturned, plan
  <2>9. ProgressExact'
    <3>1. started' <= total /\ completed <= started'
      BY <1>2, <1>4, <2>1, <2>2 DEF ProgressExact, Typed
    <3> QED
      BY <1>1, <1>2, <3>1, SameCounts DEF main, plan
  <2> QED
    BY <1>3, <2>3, <2>5, <2>6, <2>7, <2>8, <2>9
<1>5. CASE ~(next <= total)
  <2>1. pc' = [pc EXCEPT ![w] = "off"] /\ UNCHANGED <<job, next, started>>
    BY <1>5 DEF TakeJob, HasJob, Go
  <2>3. Typed'
    BY <1>1, <2>1 DEF Typed, main, plan, delivery
  <2>4. /\ pc'[w] = "off"
        /\ \A v \in Workers : v # w => pc'[v] = pc[v]
        /\ \A v \in Workers : \A l \in Busy : pc'[v] = l <=> pc[v] = l
    BY <1>1, <2>1 DEF Typed, Busy
  <2>5. Staged'
    BY <1>1, <1>2, <1>5, <2>1, <2>4, RunningStaged DEF Typed
  <2>6. Jobs' /\ Reported' /\ BranchesReturned'
    <3>1. \A v \in Workers : pc'[v] \in Busy <=> pc[v] \in Busy
      BY <2>4
    <3>2. \A v \in Workers : \A l \in {"prepare", "call", "release"} : pc'[v] = l <=> pc[v] = l
      BY <2>4 DEF Busy
    <3>3. Jobs'
      BY <1>1, <1>2, <2>1, <3>1, <3>2 DEF Jobs, plan
    <3>4. Reported'
      BY <1>1, <1>2, <2>1, <3>1 DEF Reported
    <3>5. BranchesReturned'
      BY <1>1, <2>1, <3>2 DEF BranchesReturned, plan
    <3> QED
      BY <3>3, <3>4, <3>5
  <2>9. ProgressExact'
    BY <1>1, <1>2, <2>1, SameCounts DEF main, plan, ProgressExact
  <2> QED
    BY <1>3, <2>3, <2>5, <2>6, <2>9
<1> QED
  BY <1>4, <1>5

(* What the goroutine of an item does with it: the steps between taking    *)
(* and reporting leave the counters, and every other item, alone.          *)
LEMMA ItemStepKeeps ==
  ASSUME IInv, NEW w \in Workers, pc[w] \in Busy, pc'[w] \in Busy,
         UNCHANGED <<next, job, progress, main, plan, wait>>,
         \A v \in Workers : v # w => pc'[v] = pc[v],
         pc[w] \notin {"prepare", "call"} => pc'[w] \notin {"prepare", "call"},
         \A i \in Items : i # job[w] => outcome'[i] = outcome[i] /\ lease'[i] = lease[i],
         pc'[w] \in {"prepare", "call"} => outcome'[job[w]] = BaseItem,
         lease'[job[w]] = "held" => pc'[w] \in {"prepare", "call", "release"},
         pc'[w] = "call" /\ offered[job[w]] = "lease" => lease'[job[w]] = "held",
         Typed', Ledger'
  PROVE  IInv'
<1> USE DEF IInv
<1>1. /\ phase = "running" /\ ~InProcess /\ InProcess' = InProcess /\ phase' = phase
      /\ started' = started /\ finished' = finished /\ total' = total /\ offered' = offered
      /\ completed' = completed /\ succeeded' = succeeded /\ errored' = errored
      /\ next' = next /\ job' = job
  BY Running DEF Busy, main, plan, progress, InProcess
<1>2. \A v \in Workers : pc'[v] \in Busy <=> pc[v] \in Busy
  OBVIOUS
<1>3. /\ job[w] \in Items /\ job[w] < next
      /\ \A v \in Workers : v # w /\ pc[v] \in Busy => job[v] # job[w]
  <2>1. job[w] \in 1 .. next - 1 /\ job[w] \in Items \cup {0}
    BY DEF Jobs, Typed
  <2> QED
    BY <2>1, ItemsCount DEF Jobs, Typed
<1>4. Staged'
  BY RunningStaged DEF Busy
<1>5. Jobs'
  <2>1. \A v \in Workers : pc'[v] \in {"prepare", "call"} => outcome'[job'[v]] = BaseItem
    <3> SUFFICES ASSUME NEW v \in Workers, pc'[v] \in {"prepare", "call"}, v # w
                 PROVE  outcome'[job[v]] = BaseItem
      BY <1>1
    <3>1. pc[v] \in {"prepare", "call"} /\ pc[v] \in Busy
      BY DEF Busy
    <3>2. job[v] # job[w] /\ job[v] \in Items
      BY <1>3, <3>1, ItemsCount DEF Jobs, Typed
    <3> QED
      BY <3>1, <3>2 DEF Jobs
  <2>2. \A i \in Items : i >= next => outcome'[i] = BaseItem
    BY <1>1, <1>3, ItemsCount DEF Jobs, Typed
  <2> QED
    BY <1>1, <1>2, <2>1, <2>2 DEF Jobs
<1>6. Reported'
  BY <1>1, <1>2 DEF Reported
<1>7. BranchesReturned'
  <2>1. ASSUME NEW i \in Items, lease'[i] = "held"
        PROVE  \E v \in Workers : job'[v] = i /\ pc'[v] \in {"prepare", "call", "release"}
    <3>1. CASE i = job[w]
      BY <1>1, <2>1, <3>1
    <3>2. CASE i # job[w]
      <4>1. PICK v \in Workers : job[v] = i /\ pc[v] \in {"prepare", "call", "release"}
        BY <2>1, <3>2 DEF BranchesReturned
      <4> QED
        BY <1>1, <3>2, <4>1
    <3> QED
      BY <3>1, <3>2
  <2>2. \A i \in Items : lease'[i] = "released" => i < next'
    BY <1>1, <1>3 DEF BranchesReturned
  <2>3. ASSUME NEW v \in Workers, pc'[v] = "call", offered'[job'[v]] = "lease"
        PROVE  lease'[job'[v]] = "held"
    <3>1. CASE v = w
      BY <1>1, <2>3, <3>1
    <3>2. CASE v # w
      <4>1. pc[v] = "call" /\ pc[v] \in Busy
        BY <2>3, <3>2 DEF Busy
      <4>2. job[v] # job[w] /\ job[v] \in Items
        BY <1>3, <3>2, <4>1, ItemsCount DEF Jobs, Typed
      <4> QED
        BY <1>1, <2>3, <4>1, <4>2 DEF BranchesReturned
    <3> QED
      BY <3>1, <3>2
  <2> QED
    BY <2>1, <2>2, <2>3 DEF BranchesReturned
<1>8. ProgressExact'
  <2>1. \A i \in Items : finished[i] = 1 => outcome'[i] = outcome[i]
    BY <1>1, <1>3 DEF Reported
  <2> QED
    BY <1>1, <2>1, SameCounts DEF ProgressExact
<1>9. Awaited'
  BY <1>1, RunningAwaited
<1> QED
  BY <1>4, <1>5, <1>6, <1>7, <1>8, <1>9

LEMMA JobOfBusy ==
  ASSUME IInv, NEW w \in Workers, pc[w] \in Busy
  PROVE  job[w] \in Items
  BY ItemsCount DEF IInv, Jobs, Typed

LEMMA PrepareKeeps == ASSUME IInv, NEW w \in Workers, Prepare(w) PROVE IInv'
<1> DEFINE i == job[w]
<1>1. /\ pc[w] = "prepare" /\ pc[w] \in Busy /\ i \in Items
      /\ UNCHANGED <<next, job, progress, delivery, main, plan, wait, cancelled>>
  BY JobOfBusy DEF Prepare, Idle, Busy
<1>2. /\ \/ pc' = [pc EXCEPT ![w] = "release"]
         \/ pc' = [pc EXCEPT ![w] = "call"] /\ outcome' = outcome
      /\ \/ outcome' = outcome
         \/ outcome' = [outcome EXCEPT ![i] = [BaseItem EXCEPT !.error = "setup"]]
      /\ \/ lease' = lease
         \/ lease' = [lease EXCEPT ![i] = "held"]
      /\ pc' = [pc EXCEPT ![w] = "call"] /\ offered[i] = "lease" => lease' = [lease EXCEPT ![i] = "held"]
  BY DEF Prepare, SetupError, Go, IInv, Typed
<1>3. outcome[i] = BaseItem
  BY <1>1 DEF IInv, Jobs
<1>4. Typed'
  <2>1. [BaseItem EXCEPT !.error = "setup"] \in Outcomes
    BY DEF BaseItem, Outcomes
  <2>2. outcome' \in [Items -> Outcomes]
    BY <1>1, <1>2, <2>1 DEF IInv, Typed
  <2>3. lease' \in [Items -> {"none", "held", "released"}]
    BY <1>1, <1>2 DEF IInv, Typed
  <2>4. pc' \in [Workers -> Busy \cup {"off", "idle"}]
    BY <1>1, <1>2 DEF IInv, Typed, Busy
  <2> QED
    BY <1>1, <2>2, <2>3, <2>4 DEF IInv, Typed, main, plan, progress, delivery
<1>5. \A j \in Items : outcome[j].executed => outcome'[j].executed
  <2>1. ~outcome[i].executed
    BY <1>3 DEF BaseItem
  <2>2. \A j \in Items : j # i => outcome'[j] = outcome[j]
    BY <1>1, <1>2 DEF IInv, Typed
  <2> QED
    BY <2>1, <2>2
<1>6. Ledger'
  BY <1>1, <1>5, SameLedger DEF IInv, plan, delivery
<1>7. /\ pc'[w] \in {"release", "call"} /\ pc'[w] \in Busy
      /\ \A v \in Workers : v # w => pc'[v] = pc[v]
      /\ \A j \in Items : j # i => outcome'[j] = outcome[j] /\ lease'[j] = lease[j]
      /\ pc'[w] = "call" => outcome'[i] = BaseItem
      /\ pc'[w] = "call" /\ offered[i] = "lease" => lease'[i] = "held"
  BY <1>1, <1>2, <1>3 DEF IInv, Typed, Busy
<1> QED
  BY <1>1, <1>4, <1>6, <1>7, ItemStepKeeps

(* The host's function: its trace starts with nothing on its way. *)
LEMMA CallKeeps == ASSUME IInv, NEW w \in Workers, Call(w) PROVE IInv'
<1> DEFINE i == job[w]
<1>1. /\ pc[w] = "call" /\ pc[w] \in Busy /\ i \in Items
      /\ UNCHANGED <<next, job, lease, progress, deliveries, main, plan, wait, cancelled>>
      /\ pc' = [pc EXCEPT ![w] = "release"]
  BY JobOfBusy DEF Call, Idle, Go, Busy
<1>2. PICK error \in {"none", "trace"} :
        outcome' = [outcome EXCEPT ![i] = [@ EXCEPT !.error = error, !.executed = TRUE]]
  BY DEF Call
<1>3. outcome[i] = BaseItem
  BY <1>1 DEF IInv, Jobs
<1>4. PICK begun \in SUBSET Carriers :
        carrier' = [carrier EXCEPT ![i] = [c \in Carriers |-> IF c \in begun THEN "begun" ELSE "none"]]
  <2>1. \A begun \in {{}} \cup {spans \cup {Closing} : spans \in SUBSET Spans} : begun \in SUBSET Carriers
    BY DEF Carriers
  <2> QED
    BY <2>1 DEF Call
<1>5. outcome'[i].executed /\ outcome'[i] \in Outcomes /\ \A j \in Items : j # i => outcome'[j] = outcome[j]
  BY <1>1, <1>2, <1>3 DEF BaseItem, Outcomes, IInv, Typed
<1>6. outcome' \in [Items -> Outcomes]
  BY <1>1, <1>2, <1>5 DEF IInv, Typed
<1>7. /\ carrier' \in [Items -> [Carriers -> {"none", "begun", "recorded", "stored", "acked"}]]
      /\ \A j \in Items : j # i => carrier'[j] = carrier[j]
  BY <1>1, <1>4 DEF IInv, Typed
<1>8. Typed'
  BY <1>1, <1>6, <1>7 DEF IInv, Typed, main, plan, progress, Busy
<1>9. Ledger'
  <2>1. \A c \in Carriers : carrier[i][c] = "none"
    BY <1>1, <1>3 DEF IInv, Ledger, BaseItem
  <2>2. \A j \in Items : (\E c \in Carriers : carrier'[j][c] # "none") => outcome'[j].executed
    BY <1>5, <1>7 DEF IInv, Ledger
  <2>3. ASSUME NEW j \in Items, deliveries[j] # None
        PROVE  /\ j \in Active
               /\ \A s \in deliveries[j].submitted : carrier'[j][s] \in {"recorded", "stored", "acked"}
               /\ \A s \in deliveries[j].acked : carrier'[j][s] = "acked"
               /\ deliveries[j].closingAcked => carrier'[j][Closing] = "acked"
    <3>0. deliveries[j].submitted \subseteq Spans /\ deliveries[j].acked \subseteq Spans
      BY <2>3 DEF IInv, Typed, Deliveries
    <3>1. CASE j # i
      BY <1>7, <2>3, <3>1 DEF IInv, Ledger
    <3>2. CASE j = i
      BY <2>1, <2>3, <3>0, <3>2 DEF IInv, Ledger, Carriers
    <3> QED
      BY <3>1, <3>2
  <2>4. Active' = Active /\ deliveries' = deliveries
    BY <1>1 DEF Active, plan
  <2> QED
    BY <2>2, <2>3, <2>4 DEF Ledger
<1>10. /\ pc'[w] = "release" /\ pc'[w] \in Busy
       /\ \A v \in Workers : v # w => pc'[v] = pc[v]
  BY <1>1 DEF IInv, Typed, Busy
<1> QED
  BY <1>1, <1>5, <1>8, <1>9, <1>10, ItemStepKeeps

LEMMA ReleaseKeeps == ASSUME IInv, NEW w \in Workers, Release(w) PROVE IInv'
<1> DEFINE i == job[w]
<1>1. /\ pc[w] = "release" /\ pc[w] \in Busy /\ i \in Items
      /\ UNCHANGED <<next, job, outcome, progress, delivery, main, plan, wait, cancelled>>
      /\ lease' = [lease EXCEPT ![i] = Released(lease[i])]
      /\ pc' = [pc EXCEPT ![w] = "fill"] \/ pc' = [pc EXCEPT ![w] = "report"]
  BY JobOfBusy DEF Release, Idle, Go, Busy
<1>2. /\ lease'[i] \in {"none", "released"}
      /\ \A j \in Items : j # i => lease'[j] = lease[j]
      /\ lease' \in [Items -> {"none", "held", "released"}]
  BY <1>1 DEF Released, IInv, Typed
<1>3. Typed' /\ Ledger'
  <2>1. Typed'
    BY <1>1, <1>2 DEF IInv, Typed, main, plan, progress, delivery, Busy
  <2> QED
    BY <1>1, <2>1, SameLedger DEF IInv, plan, delivery
<1>4. /\ pc'[w] \in {"fill", "report"} /\ pc'[w] \in Busy
      /\ \A v \in Workers : v # w => pc'[v] = pc[v]
  BY <1>1 DEF IInv, Typed, Busy
<1> QED
  BY <1>1, <1>2, <1>3, <1>4, ItemStepKeeps

LEMMA FillKeeps == ASSUME IInv, NEW w \in Workers, FillTraceID(w) PROVE IInv'
<1>1. /\ pc[w] \in {"fill", "flush"} /\ pc[w] \in Busy /\ job[w] \in Items
      /\ UNCHANGED <<next, job, lease, outcome, progress, delivery, main, plan, wait, cancelled>>
      /\ pc' = [pc EXCEPT ![w] = "flush"] \/ pc' = [pc EXCEPT ![w] = "report"]
  BY JobOfBusy DEF FillTraceID, Idle, Go, Busy
<1>2. Typed' /\ Ledger'
  <2>1. Typed'
    BY <1>1 DEF IInv, Typed, main, plan, progress, delivery, Busy
  <2> QED
    BY <1>1, <2>1, SameLedger DEF IInv, plan, delivery
<1>3. /\ pc'[w] \in {"flush", "report"} /\ pc'[w] \in Busy
      /\ \A v \in Workers : v # w => pc'[v] = pc[v]
  BY <1>1 DEF IInv, Typed, Busy
<1>4. lease[job[w]] # "held"
  <2>1. \A v \in Workers : pc[v] \in {"prepare", "call", "release"} /\ job[v] = job[w] => FALSE
    BY <1>1 DEF IInv, Jobs, Busy
  <2> QED
    BY <1>1, <2>1 DEF IInv, BranchesReturned
<1> QED
  BY <1>1, <1>2, <1>3, <1>4, ItemStepKeeps

(* An item is reported finished, once, and its goroutine is free.          *)
LEMMA ReportKeeps == ASSUME IInv, NEW w \in Workers, ReportFinish(w) PROVE IInv'
<1> DEFINE i == job[w]
<1>1. /\ pc[w] = "report" /\ pc[w] \in Busy /\ i \in Items /\ i \in Nat /\ i < next
      /\ UNCHANGED <<next, lease, outcome, started, delivery, main, plan, wait, cancelled>>
      /\ completed' = completed + 1
      /\ IF outcome[i].error = "none" THEN succeeded' = succeeded + 1 /\ errored' = errored
         ELSE errored' = errored + 1 /\ succeeded' = succeeded
      /\ finished' = [finished EXCEPT ![i] = finished[i] + 1]
      /\ job' = [job EXCEPT ![w] = 0]
      /\ pc' = [pc EXCEPT ![w] = "idle"]
  <2>1. pc[w] = "report" /\ pc[w] \in Busy
    BY DEF ReportFinish, Busy
  <2>2. i \in Items /\ i \in Nat /\ i < next
    BY <2>1, JobOfBusy, ItemsCount DEF IInv, Jobs, Typed
  <2> QED
    BY <2>1, <2>2 DEF ReportFinish, Idle, Go, Succeeded
<1>2. /\ phase = "running" /\ ~InProcess /\ InProcess' = InProcess /\ phase' = phase
      /\ started = next - 1 /\ total' = total /\ offered' = offered /\ total \in Nat
      /\ next \in Nat
  BY <1>1, Running, ActiveItems DEF Busy, main, plan, InProcess, IInv, Typed
<1>3. /\ pc'[w] = "idle" /\ \A v \in Workers : v # w => pc'[v] = pc[v] /\ job'[v] = job[v]
      /\ \A v \in Workers : v # w /\ pc[v] \in Busy => job[v] # i
  BY <1>1 DEF IInv, Typed, Jobs
<1>4. /\ finished[i] = 0 /\ finished'[i] = 1
      /\ \A j \in Items : j # i => finished'[j] = finished[j]
  BY <1>1, <1>2 DEF IInv, Typed, Reported
<1>5. Typed'
  <2>1. succeeded' \in Nat /\ errored' \in Nat /\ completed' \in Nat
    BY <1>1 DEF IInv, Typed
  <2>2. finished' \in [Items -> Nat] /\ pc' \in [Workers -> Busy \cup {"off", "idle"}]
        /\ job' \in [Workers -> Items \cup {0}]
    BY <1>1 DEF IInv, Typed
  <2> QED
    BY <1>1, <2>1, <2>2 DEF IInv, Typed, main, plan, delivery
<1>6. Ledger' /\ Awaited'
  BY <1>1, <1>2, SameLedger, RunningAwaited DEF IInv, plan, delivery
<1>7. Staged'
  BY <1>1, <1>3, RunningStaged DEF Busy
<1>8. \A v \in Workers : pc'[v] \in Busy <=> v # w /\ pc[v] \in Busy
  BY <1>3 DEF Busy
<1>9. Jobs'
  <2>1. \A v \in Workers : pc'[v] \in {"prepare", "call"} => pc[v] \in {"prepare", "call"} /\ v # w
    BY <1>3
  <2> QED
    BY <1>1, <1>2, <1>3, <1>8, <2>1 DEF IInv, Jobs
<1>10. Reported'
  <2>1. ASSUME NEW j \in Items
        PROVE  \/ finished'[j] = 0 /\ (j >= next' \/ \E v \in Workers : pc'[v] \in Busy /\ job'[v] = j)
               \/ finished'[j] = 1 /\ j < next' /\ \A v \in Workers : pc'[v] \in Busy => job'[v] # j
    <3>1. CASE j = i
      BY <1>1, <1>3, <1>4, <1>8, <3>1
    <3>2. CASE j # i
      <4>1. \A v \in Workers : pc'[v] \in Busy /\ job'[v] = j <=> pc[v] \in Busy /\ job[v] = j
        BY <1>3, <1>8, <3>2
      <4> QED
        BY <1>1, <1>2, <1>4, <3>2, <4>1 DEF IInv, Reported
    <3> QED
      BY <3>1, <3>2
  <2> QED
    BY <1>1, <1>2, <2>1 DEF Reported
<1>11. BranchesReturned'
  <2>1. lease[i] # "held"
    <3>1. \A v \in Workers : pc[v] \in {"prepare", "call", "release"} /\ job[v] = i => FALSE
      BY <1>1 DEF IInv, Jobs, Busy
    <3> QED
      BY <1>1, <3>1 DEF IInv, BranchesReturned
  <2>2. ASSUME NEW j \in Items, lease[j] = "held"
        PROVE  \E v \in Workers : job'[v] = j /\ pc'[v] \in {"prepare", "call", "release"}
    <3>1. PICK v \in Workers : job[v] = j /\ pc[v] \in {"prepare", "call", "release"}
      BY <2>2 DEF IInv, BranchesReturned
    <3> QED
      BY <1>1, <1>3, <3>1
  <2>3. \A v \in Workers : pc'[v] = "call" => v # w /\ pc[v] = "call"
    BY <1>3
  <2> QED
    BY <1>1, <1>2, <1>3, <2>2, <2>3 DEF IInv, BranchesReturned
<1>12. ProgressExact'
  <2> DEFINE done == {j \in Items : finished[j] = 1}
             bad == {j \in Items : finished[j] = 1 /\ outcome[j].error # "none"}
  <2>1. /\ {j \in Items : finished'[j] = 1} = done \cup {i} /\ i \notin done
        /\ IsFiniteSet(done) /\ IsFiniteSet(bad)
    BY <1>1, <1>4, Sizes
  <2>2. completed' = Cardinality({j \in Items : finished'[j] = 1})
    <3>1. Cardinality(done \cup {i}) = Cardinality(done) + 1
      BY <2>1, FS_AddElement
    <3> QED
      BY <1>1, <2>1, <3>1 DEF IInv, ProgressExact
  <2>3. errored' = Cardinality({j \in Items : finished'[j] = 1 /\ outcome'[j].error # "none"})
    <3>1. CASE outcome[i].error = "none"
      <4>1. {j \in Items : finished'[j] = 1 /\ outcome'[j].error # "none"} = bad
        BY <1>1, <1>4, <3>1
      <4> QED
        BY <1>1, <3>1, <4>1 DEF IInv, ProgressExact
    <3>2. CASE outcome[i].error # "none"
      <4>1. {j \in Items : finished'[j] = 1 /\ outcome'[j].error # "none"} = bad \cup {i} /\ i \notin bad
        BY <1>1, <1>4, <3>2
      <4>2. Cardinality(bad \cup {i}) = Cardinality(bad) + 1
        BY <2>1, <4>1, FS_AddElement
      <4> QED
        BY <1>1, <3>2, <4>1, <4>2 DEF IInv, ProgressExact
    <3> QED
      BY <3>1, <3>2
  <2>4. completed' <= started'
    (* The finished items and this one are all below next. *)
    <3>1. \A j \in done \cup {i} : j \in 1 .. next - 1
      BY <1>1, <1>2, ItemsCount DEF IInv, Reported
    <3>2. IsFiniteSet(1 .. next - 1) /\ Cardinality(1 .. next - 1) = next - 1
      <4>1. next - 1 \in Int /\ 1 <= next - 1
        BY <1>1, <1>2, ItemsCount
      <4> QED
        BY <4>1, FS_Interval
    <3>3. Cardinality(done \cup {i}) <= next - 1
      BY <3>1, <3>2, FS_Subset
    <3> QED
      BY <1>1, <1>2, <2>1, <2>2, <3>3
  <2>5. completed' = succeeded' + errored'
    BY <1>1 DEF IInv, ProgressExact, Typed
  <2>6. \A j \in Items : finished'[j] <= 1
    BY <1>4 DEF IInv, ProgressExact
  <2>7. started' <= total'
    BY <1>1, <1>2 DEF IInv, ProgressExact
  <2> QED
    BY <1>2, <2>2, <2>3, <2>4, <2>5, <2>6, <2>7 DEF ProgressExact
<1> QED
  BY <1>5, <1>6, <1>7, <1>9, <1>10, <1>11, <1>12 DEF IInv

LEMMA WorkerKeeps == ASSUME IInv, NEW w \in Workers, WorkerStep(w) PROVE IInv'
  BY TakeJobKeeps, PrepareKeeps, CallKeeps, ReleaseKeeps, FillKeeps, ReportKeeps DEF WorkerStep

-----------------------------------------------------------------------------
(* Carriers on their way change nothing but the records and what arrived.  *)
LEMMA BesideKeeps ==
  ASSUME IInv, UNCHANGED <<main, plan, next, pc, job, lease, outcome, progress, wait>>,
         phase \notin {"called", "refused", "start"},
         \/ phase # "running" \/ ~InProcess \/ carrier' = carrier,
         Typed', Ledger',
         \A i \in Items : deliveries[i] = None => deliveries'[i] = None,
         \A i \in Items : Stored(i) \subseteq Stored(i)'
  PROVE  IInv'
<1> USE DEF IInv
<1>1. /\ phase' = phase /\ options' = options /\ raw' = raw /\ requests' = requests
      /\ total' = total /\ offered' = offered /\ reports' = reports /\ warned' = warned
      /\ started' = started /\ completed' = completed /\ succeeded' = succeeded
      /\ errored' = errored /\ finished' = finished
      /\ InProcess' = InProcess /\ Executed' = Executed /\ On' = On
      /\ UNCHANGED <<next, pc, job, lease, outcome>>
  BY DEF main, plan, wait, progress, InProcess, Executed, Active, On
<1>2. Staged'
  BY <1>1 DEF Staged, Untouched
<1>3. Jobs' /\ Reported' /\ BranchesReturned'
  BY <1>1 DEF Jobs, Reported, BranchesReturned
<1>4. ProgressExact'
  BY <1>1 DEF ProgressExact
<1>5. Awaited'
  <2>1. ASSUME NEW i \in Items, Arrived(i), reports[i] # None PROVE Arrived(i)'
    <3>1. Stored(i)' \subseteq Carriers /\ IsFiniteSet(Stored(i)' \ {Closing})
      BY Sizes DEF Stored, Carriers
    <3>2. Cardinality(Stored(i) \ {Closing}) <= Cardinality(Stored(i)' \ {Closing})
          /\ Cardinality(Stored(i) \ {Closing}) \in Nat /\ Cardinality(Stored(i)' \ {Closing}) \in Nat
      BY <3>1, FS_Subset, FS_CardinalityType
    <3> QED
      BY <1>1, <2>1, <3>2 DEF Arrived, Awaited
  <2>2. Expected' = Expected /\ \A i \in Expected : i \in Items /\ reports[i] # None
    BY <1>1 DEF Expected
  <2>3. phase \in {"complete", "returned"} => \A i \in Expected \ warned : Arrived(i)'
    BY <2>1, <2>2 DEF Awaited
  <2>4. Executed \subseteq Items
    BY ActiveItems DEF Executed, Typed
  <2> QED
    BY <1>1, <2>2, <2>3, <2>4 DEF Awaited
<1> QED
  BY <1>2, <1>3, <1>4, <1>5

LEMMA SubmitKeeps ==
  ASSUME IInv, NEW i \in Items, NEW c \in Carriers, Submit(i, c)
  PROVE  IInv'
<1> USE DEF IInv
<1> DEFINE d == deliveries[i]
<1>1. /\ carrier[i][c] = "begun" /\ carrier' = [carrier EXCEPT ![i][c] = "recorded"]
      /\ deliveries' = RecordSubmitted(i, c)
      /\ UNCHANGED <<main, plan, next, pc, job, lease, outcome, progress, wait, cancelled>>
  BY DEF Submit, Beside
<1>2. phase \notin {"called", "refused", "start"} /\ (phase # "running" \/ ~InProcess)
  BY <1>1 DEF Staged, Untouched
<1>3. /\ \A j \in Items : j # i => deliveries'[j] = deliveries[j] /\ carrier'[j] = carrier[j]
      /\ \A b \in Carriers : b # c => carrier'[i][b] = carrier[i][b]
      /\ carrier'[i][c] = "recorded"
      /\ carrier' \in [Items -> [Carriers -> {"none", "begun", "recorded", "stored", "acked"}]]
  BY <1>1 DEF RecordSubmitted, Typed
<1>4. /\ deliveries' \in [Items -> Deliveries \cup {None}]
      /\ (d = None => deliveries'[i] = None)
      /\ d # None => /\ deliveries'[i].submitted \subseteq d.submitted \cup {c}
                     /\ deliveries'[i].acked = d.acked
                     /\ deliveries'[i].closingAcked = d.closingAcked
  <2>1. CASE d = None
    BY <1>1, <2>1 DEF RecordSubmitted, Typed
  <2>2. CASE d # None
    <3>1. d \in Deliveries
      BY <2>2 DEF Typed
    <3>2. CASE c = Closing
      <4>1. deliveries' = [deliveries EXCEPT ![i] = [d EXCEPT !.closed = TRUE]]
        BY <1>1, <2>2, <3>2 DEF RecordSubmitted
      <4> QED
        BY <2>2, <3>1, <4>1 DEF Typed, Deliveries
    <3>3. CASE c # Closing
      <4>1. deliveries' = [deliveries EXCEPT ![i] = [d EXCEPT !.submitted = d.submitted \cup {c}]]
        BY <1>1, <2>2, <3>3 DEF RecordSubmitted
      <4>2. c \in Spans
        BY <3>3 DEF Carriers
      <4> QED
        BY <2>2, <3>1, <4>1, <4>2 DEF Typed, Deliveries
    <3> QED
      BY <3>2, <3>3
  <2> QED
    BY <2>1, <2>2
<1>5. Typed'
  BY <1>1, <1>3, <1>4 DEF Typed, main, plan, progress
<1>6. Ledger'
  <2>1. \A j \in Items : (\E b \in Carriers : carrier'[j][b] # "none") => outcome'[j].executed
    BY <1>1, <1>3 DEF Ledger
  <2>2. ASSUME NEW j \in Items, deliveries'[j] # None
        PROVE  /\ j \in Active'
               /\ \A s \in deliveries'[j].submitted : carrier'[j][s] \in {"recorded", "stored", "acked"}
               /\ \A s \in deliveries'[j].acked : carrier'[j][s] = "acked"
               /\ deliveries'[j].closingAcked => carrier'[j][Closing] = "acked"
    <3>1. Active' = Active
      BY <1>1 DEF Active, plan
    <3>2. CASE j # i
      BY <1>3, <2>2, <3>1, <3>2 DEF Ledger
    <3>3. CASE j = i
      <4>1. d # None /\ d.submitted \subseteq Spans /\ d.acked \subseteq Spans
        BY <1>4, <2>2, <3>3 DEF Typed, Deliveries
      <4>2. /\ i \in Active
            /\ \A s \in d.submitted : s # c /\ carrier[i][s] \in {"recorded", "stored", "acked"}
            /\ \A s \in d.acked : s # c /\ carrier[i][s] = "acked"
            /\ d.closingAcked => c # Closing /\ carrier[i][Closing] = "acked"
        BY <1>1, <4>1 DEF Ledger
      <4>3. Closing \in Carriers /\ Spans \subseteq Carriers
        BY DEF Carriers
      <4> HIDE DEF d
      <4> QED
        BY <1>3, <1>4, <3>1, <3>3, <4>1, <4>2, <4>3
    <3> QED
      BY <3>2, <3>3
  <2> QED
    BY <2>1, <2>2 DEF Ledger
<1>7. \A j \in Items : deliveries[j] = None => deliveries'[j] = None
  BY <1>3, <1>4
<1>8. \A j \in Items : Stored(j) \subseteq Stored(j)'
  BY <1>1, <1>3 DEF Stored
<1> QED
  BY <1>1, <1>2, <1>5, <1>6, <1>7, <1>8, BesideKeeps

LEMMA StoreKeeps ==
  ASSUME IInv, NEW i \in Items, NEW c \in Carriers, Store(i, c)
  PROVE  IInv'
<1> USE DEF IInv
<1> DEFINE d == deliveries[i]
<1>1. /\ carrier[i][c] = "recorded"
      /\ UNCHANGED <<main, plan, next, pc, job, lease, outcome, progress, wait, cancelled>>
      /\ \/ carrier' = [carrier EXCEPT ![i][c] = "stored"] /\ deliveries' = deliveries
         \/ carrier' = [carrier EXCEPT ![i][c] = "acked"] /\ deliveries' = RecordDelivered(i, c)
  BY DEF Store, Beside
<1>2. phase \notin {"called", "refused", "start"} /\ (phase # "running" \/ ~InProcess)
  BY <1>1 DEF Staged, Untouched
<1>3. /\ \A j \in Items : j # i => deliveries'[j] = deliveries[j] /\ carrier'[j] = carrier[j]
      /\ \A b \in Carriers : b # c => carrier'[i][b] = carrier[i][b]
      /\ carrier'[i][c] \in {"stored", "acked"}
      /\ carrier'[i][c] = "stored" => deliveries' = deliveries
      /\ carrier'[i][c] = "acked" => deliveries' = RecordDelivered(i, c)
      /\ carrier' \in [Items -> [Carriers -> {"none", "begun", "recorded", "stored", "acked"}]]
  <2>1. \A j \in Items : j # i => deliveries'[j] = deliveries[j]
    BY <1>1 DEF RecordDelivered, Typed
  <2>2. \E label \in {"stored", "acked"} :
          /\ carrier' = [carrier EXCEPT ![i][c] = label]
          /\ label = "stored" => deliveries' = deliveries
          /\ label = "acked" => deliveries' = RecordDelivered(i, c)
    BY <1>1
  <2> QED
    BY <2>1, <2>2 DEF Typed
<1>4. /\ deliveries' \in [Items -> Deliveries \cup {None}]
      /\ (d = None => deliveries'[i] = None)
      /\ d # None => /\ deliveries'[i].submitted = d.submitted
                     /\ \A s \in deliveries'[i].acked :
                          s \in d.acked \/ (s = c /\ carrier'[i][c] = "acked")
                     /\ deliveries'[i].closingAcked =>
                          d.closingAcked \/ (c = Closing /\ carrier'[i][c] = "acked")
  <2>1. CASE carrier'[i][c] = "stored"
    BY <1>3, <2>1 DEF Typed
  <2>2. CASE carrier'[i][c] = "acked" /\ d = None
    BY <1>3, <2>2 DEF RecordDelivered, Typed
  <2>3. CASE carrier'[i][c] = "acked" /\ d # None
    <3>1. d \in Deliveries
      BY <2>3 DEF Typed
    <3>2. CASE c = Closing
      <4>1. deliveries' = [deliveries EXCEPT ![i] = [d EXCEPT !.closingAcked = TRUE, !.server = TRUE]]
        BY <1>3, <2>3, <3>2 DEF RecordDelivered
      <4> QED
        BY <2>3, <3>1, <3>2, <4>1 DEF Typed, Deliveries
    <3>3. CASE c # Closing
      <4>1. deliveries' =
              [deliveries EXCEPT ![i] = [d EXCEPT !.acked = d.acked \cup {c}, !.server = TRUE]]
        BY <1>3, <2>3, <3>3 DEF RecordDelivered
      <4>2. c \in Spans
        BY <3>3 DEF Carriers
      <4> QED
        BY <2>3, <3>1, <4>1, <4>2 DEF Typed, Deliveries
    <3> QED
      BY <3>2, <3>3
  <2> QED
    BY <1>3, <2>1, <2>2, <2>3
<1>5. Typed'
  BY <1>1, <1>3, <1>4 DEF Typed, main, plan, progress
<1>6. Ledger'
  <2>1. \A j \in Items : (\E b \in Carriers : carrier'[j][b] # "none") => outcome'[j].executed
    BY <1>1, <1>3 DEF Ledger
  <2>2. ASSUME NEW j \in Items, deliveries'[j] # None
        PROVE  /\ j \in Active'
               /\ \A s \in deliveries'[j].submitted : carrier'[j][s] \in {"recorded", "stored", "acked"}
               /\ \A s \in deliveries'[j].acked : carrier'[j][s] = "acked"
               /\ deliveries'[j].closingAcked => carrier'[j][Closing] = "acked"
    <3>1. Active' = Active
      BY <1>1 DEF Active, plan
    <3>2. CASE j # i
      BY <1>3, <2>2, <3>1, <3>2 DEF Ledger
    <3>3. CASE j = i
      <4>1. d # None /\ d.submitted \subseteq Spans /\ d.acked \subseteq Spans
        BY <1>4, <2>2, <3>3 DEF Typed, Deliveries
      <4>2. /\ i \in Active
            /\ \A s \in d.submitted : carrier[i][s] \in {"recorded", "stored", "acked"}
            /\ \A s \in d.acked : s # c /\ carrier[i][s] = "acked"
            /\ d.closingAcked => c # Closing /\ carrier[i][Closing] = "acked"
        BY <1>1, <4>1 DEF Ledger
      <4>3. Closing \in Carriers /\ Spans \subseteq Carriers
        BY DEF Carriers
      <4> HIDE DEF d
      <4> QED
        BY <1>3, <1>4, <3>1, <3>3, <4>1, <4>2, <4>3
    <3> QED
      BY <3>2, <3>3
  <2> QED
    BY <2>1, <2>2 DEF Ledger
<1>7. \A j \in Items : deliveries[j] = None => deliveries'[j] = None
  BY <1>3, <1>4
<1>8. \A j \in Items : Stored(j) \subseteq Stored(j)'
  BY <1>1, <1>3 DEF Stored
<1> QED
  BY <1>1, <1>2, <1>5, <1>6, <1>7, <1>8, BesideKeeps

LEMMA CancelKeeps == ASSUME IInv, Cancel PROVE IInv'
<1>1. /\ UNCHANGED <<main, plan, next, pc, job, lease, outcome, progress, delivery, wait>>
      /\ phase \notin {"called", "refused"}
  BY DEF Cancel
<1>2. Typed' /\ Ledger'
  BY <1>1, SameLedger DEF IInv, Typed, main, plan, progress, delivery
<1>3. UNCHANGED <<carrier, deliveries, next, pc, job, lease, outcome, started, completed, succeeded,
                  errored, finished, phase, raw, options, requests, total, sources, offered,
                  reports, warned>>
  BY <1>1 DEF main, plan, progress, delivery, wait
<1>4. /\ InProcess' = InProcess /\ Executed' = Executed /\ On' = On /\ Expected' = Expected
      /\ \A i \in Items : Arrived(i)' = Arrived(i)
  BY <1>3 DEF InProcess, Executed, Active, On, Expected, Arrived, Stored
<1>5. Staged' /\ Jobs' /\ Reported'
  BY <1>3, <1>4 DEF IInv, Staged, Untouched, Jobs, Reported
<1>6. BranchesReturned' /\ ProgressExact'
  BY <1>3, <1>4 DEF IInv, BranchesReturned, ProgressExact
<1>7. Awaited'
  <2>1. Expected \subseteq Items
    BY DEF Expected
  <2> QED
    BY <1>3, <1>4, <2>1 DEF IInv, Awaited
<1> QED
  BY <1>2, <1>5, <1>6, <1>7 DEF IInv

-----------------------------------------------------------------------------
(* The calling goroutine after the workers: items and counters stay.       *)
LEMMA LateKeeps ==
  ASSUME IInv,
         UNCHANGED <<raw, options, plan, next, pc, job, lease, outcome, progress, carrier, cancelled>>,
         phase \in {"running", "gather", "flush", "poll", "complete"}, On = {},
         phase' \in {"gather", "flush", "poll", "complete", "failed", "returned"},
         phase = "running" => completed = total \/ (InProcess /\ completed = 0 /\ Executed = {}),
         requests' \in Seq(Requests),
         deliveries' = deliveries \/ deliveries' = [i \in Items |-> IF i \in Executed THEN None ELSE deliveries[i]],
         Awaited'
  PROVE  IInv'
<1> USE DEF IInv
<1>1. /\ total' = total /\ offered' = offered /\ started' = started /\ completed' = completed
      /\ succeeded' = succeeded /\ errored' = errored /\ finished' = finished
      /\ InProcess' = InProcess /\ Executed' = Executed /\ Active' = Active /\ On' = On
      /\ UNCHANGED <<next, pc, job, lease, outcome, raw, options, carrier>>
  BY DEF plan, progress, InProcess, Executed, Active, On
<1>2. /\ deliveries' \in [Items -> Deliveries \cup {None}]
      /\ \A i \in Items : deliveries'[i] # None => deliveries'[i] = deliveries[i]
  BY DEF Typed
<1>3. Typed'
  BY <1>1, <1>2 DEF Typed, Phases
<1>4. Staged'
  BY <1>1 DEF Staged
<1>5. Jobs' /\ Reported' /\ BranchesReturned'
  BY <1>1 DEF Jobs, Reported, BranchesReturned
<1>6. ProgressExact'
  BY <1>1 DEF ProgressExact
<1>7. Ledger'
  BY <1>1, <1>2 DEF Ledger
<1> QED
  BY <1>3, <1>4, <1>5, <1>6, <1>7

LEMMA WorkersDoneKeeps == ASSUME IInv, WorkersDone PROVE IInv'
<1>1. /\ phase = "running" /\ ~InProcess /\ phase' = "gather" /\ On = {}
      /\ UNCHANGED <<raw, options, plan, next, pc, job, lease, outcome, progress, carrier, cancelled>>
      /\ UNCHANGED <<requests, deliveries, wait>>
  BY DEF WorkersDone, Rest, On
<1>2. completed = total
  <2>1. next = total + 1 /\ total \in Nat /\ next \in Nat /\ Active \subseteq Items
    BY <1>1, ActiveItems DEF IInv, Staged, Jobs, Typed
  <2>2. \A w \in Workers : pc[w] \notin Busy
    BY <1>1 DEF On, Busy
  <2>3. {i \in Items : finished[i] = 1} = Active
    BY <1>1, <2>1, <2>2, ItemsCount DEF IInv, Reported, Active
  <2> QED
    BY <2>1, <2>3, ActiveItems DEF IInv, ProgressExact, Typed
<1>3. Awaited'
  BY <1>1 DEF IInv, Awaited, wait
<1>4. requests' \in Seq(Requests)
  BY <1>1 DEF IInv, Typed
<1> QED
  BY <1>1, <1>2, <1>3, <1>4, LateKeeps

(* The steps after that begin where there is no goroutine left. *)
LEMMA NoneOn ==
  ASSUME IInv, phase \in {"gather", "flush", "poll", "complete"}
  PROVE  On = {} /\ total \in Nat /\ Active \subseteq Items /\ Executed \subseteq Items
  BY ActiveItems DEF IInv, Staged, Typed, Executed

(* What Take leaves and what it reports. *)
LEMMA TakeReport ==
  ASSUME IInv, phase \in {"gather", "flush"}, Take(Executed)
  PROVE  /\ deliveries' = [i \in Items |-> IF i \in Executed THEN None ELSE deliveries[i]]
         /\ \A i \in Items : reports'[i] # None =>
              /\ i \in Executed /\ deliveries[i] # None /\ reports'[i] = Report(deliveries[i])
              /\ reports'[i].spanCount = Cardinality(deliveries[i].submitted)
              /\ reports'[i].spanCount \in Nat
              /\ reports'[i].closed = deliveries[i].closed
              /\ reports'[i].delivered =>
                   /\ Closing \in Stored(i)
                   /\ Cardinality(Stored(i) \ {Closing}) >= reports'[i].spanCount
<1>1. deliveries' = [i \in Items |-> IF i \in Executed THEN None ELSE deliveries[i]]
  BY DEF Take
<1>2. ASSUME NEW i \in Items, reports'[i] # None
      PROVE  i \in Executed /\ deliveries[i] # None /\ reports'[i] = Report(deliveries[i])
  BY <1>2 DEF Take
<1>3. ASSUME NEW i \in Items, reports'[i] # None
      PROVE  /\ reports'[i].spanCount = Cardinality(deliveries[i].submitted)
             /\ reports'[i].spanCount \in Nat
             /\ reports'[i].closed = deliveries[i].closed
             /\ reports'[i].delivered =>
                  /\ Closing \in Stored(i)
                  /\ Cardinality(Stored(i) \ {Closing}) >= reports'[i].spanCount
  <2>1. deliveries[i] # None /\ reports'[i] = Report(deliveries[i])
    BY <1>2, <1>3
  <2>2. deliveries[i].submitted \subseteq Spans /\ deliveries[i].acked \subseteq Spans
    BY <2>1 DEF IInv, Typed, Deliveries
  <2>3. Cardinality(deliveries[i].submitted) \in Nat
    BY <2>2, Sizes
  <2>4. /\ reports'[i].spanCount = Cardinality(deliveries[i].submitted)
        /\ reports'[i].closed = deliveries[i].closed
        /\ reports'[i].delivered = (deliveries[i].closingAcked
                                      /\ deliveries[i].submitted \subseteq deliveries[i].acked)
    BY <2>1 DEF Report
  <2>5. ASSUME deliveries[i].closingAcked, deliveries[i].submitted \subseteq deliveries[i].acked
        PROVE  /\ Closing \in Stored(i)
               /\ Cardinality(Stored(i) \ {Closing}) >= Cardinality(deliveries[i].submitted)
    <3>1. Closing \in Stored(i)
      BY <2>1, <2>5 DEF IInv, Ledger, Stored, Carriers
    <3>2. deliveries[i].submitted \subseteq Stored(i) \ {Closing}
      BY <2>1, <2>2, <2>5, RunAssumption DEF IInv, Ledger, Stored, Carriers
    <3>3. Stored(i) \ {Closing} \subseteq Spans
      BY DEF Stored, Carriers
    <3>4. IsFiniteSet(Stored(i) \ {Closing}) /\ Cardinality(Stored(i) \ {Closing}) \in Nat
      BY <3>3, Sizes
    <3> QED
      BY <2>3, <3>1, <3>2, <3>4, FS_Subset
  <2> QED
    BY <2>3, <2>4, <2>5
<1> QED
  BY <1>1, <1>2, <1>3

LEMMA OneMore ==
  ASSUME IInv, NEW r \in Requests
  PROVE  requests \in Seq(Requests) /\ Append(requests, r) \in Seq(Requests)
<1>1. requests \in Seq(Requests)
  BY DEF IInv, Typed
<1> QED
  BY <1>1, AppendProperties

LEMMA GatherKeeps == ASSUME IInv, Gather PROVE IInv'
<1>1. /\ phase = "gather" /\ phase' \in {"returned", "flush", "complete"}
      /\ UNCHANGED <<raw, options, plan, next, pc, job, lease, outcome, progress, carrier, cancelled>>
  BY DEF Gather, Rest
<1>2. On = {} /\ Executed \subseteq Items
  BY <1>1, NoneOn
<1>3. requests' \in Seq(Requests)
  BY OneMore DEF Gather, Requests
<1>4. warned = {} /\ \A i \in Items : reports[i] = None
  BY <1>1 DEF IInv, Awaited
<1>5. options' = options /\ Executed' = Executed
  BY <1>1 DEF plan, Executed, Active
<1>6. CASE options.dryRun
  <2>1. phase' = "returned" /\ UNCHANGED <<deliveries, wait>>
    BY <1>6 DEF Gather
  <2>2. Awaited'
    BY <1>4, <1>5, <1>6, <2>1 DEF Awaited, Expected, wait
  <2> QED
    BY <1>1, <1>2, <1>3, <2>1, <2>2, LateKeeps
<1>7. CASE ~options.dryRun /\ HasClosed(Executed)
  <2>1. phase' = "flush" /\ UNCHANGED <<deliveries, wait>>
    BY <1>7 DEF Gather
  <2>2. Awaited'
    BY <1>4, <2>1 DEF Awaited, wait
  <2> QED
    BY <1>1, <1>2, <1>3, <2>1, <2>2, LateKeeps
<1>8. CASE ~options.dryRun /\ ~HasClosed(Executed)
  <2>1. phase' = "complete" /\ Take(Executed) /\ warned' = warned
    BY <1>8 DEF Gather
  <2>2. \A i \in Items : reports'[i] # None => reports'[i].spanCount \in Nat /\ ~reports'[i].closed
    BY <1>1, <1>2, <1>8, <2>1, TakeReport DEF HasClosed
  <2>3. deliveries' = [i \in Items |-> IF i \in Executed THEN None ELSE deliveries[i]]
    BY <1>1, <2>1, TakeReport
  <2>4. Expected' = {}
    BY <2>2 DEF Expected
  <2>5. Awaited'
    BY <1>2, <1>5, <2>1, <2>2, <2>3, <2>4 DEF Awaited
  <2> QED
    BY <1>1, <1>2, <1>3, <2>1, <2>3, <2>5, LateKeeps
<1> QED
  BY <1>6, <1>7, <1>8

LEMMA TakeReportsKeeps == ASSUME IInv, TakeReports PROVE IInv'
<1>1. /\ phase = "flush" /\ phase' \in {"complete", "poll"} /\ Take(Executed) /\ warned' = warned
      /\ UNCHANGED <<raw, options, plan, next, pc, job, lease, outcome, progress, carrier, cancelled>>
      /\ requests' = requests
      /\ phase' = "complete" =>
           \A i \in Executed : reports'[i] # None /\ reports'[i].closed => reports'[i].delivered
  BY DEF TakeReports, Rest
<1>2. /\ On = {} /\ Executed \subseteq Items /\ requests' \in Seq(Requests)
      /\ warned = {} /\ options' = options /\ Executed' = Executed
  BY <1>1, NoneOn DEF IInv, Typed, Awaited, plan, Executed, Active
<1>3. deliveries' = [i \in Items |-> IF i \in Executed THEN None ELSE deliveries[i]]
  BY <1>1, TakeReport
<1>4. \A i \in Items : reports'[i] # None => reports'[i].spanCount \in Nat
  BY <1>1, TakeReport
<1>5. ASSUME phase' = "complete", NEW i \in Expected' PROVE Arrived(i)'
  <2>1. i \in Items /\ reports'[i] # None /\ reports'[i].closed
    BY <1>5 DEF Expected
  <2>2. i \in Executed
    BY <1>1, <2>1, TakeReport
  <2>3. reports'[i].delivered
    BY <1>1, <1>5, <2>1, <2>2
  <2>4. Closing \in Stored(i) /\ Cardinality(Stored(i) \ {Closing}) >= reports'[i].spanCount
    BY <1>1, <2>1, <2>3, TakeReport
  <2>5. Stored(i)' = Stored(i)
    BY <1>1 DEF Stored
  <2> QED
    BY <2>4, <2>5 DEF Arrived
<1>6. Awaited'
  BY <1>1, <1>2, <1>3, <1>4, <1>5 DEF Awaited
<1> QED
  BY <1>1, <1>2, <1>3, <1>6, LateKeeps

LEMMA PollKeeps == ASSUME IInv, Poll \/ PollFails \/ DeadlinePasses PROVE IInv'
<1>1. /\ phase = "poll" /\ phase' \in {"complete", "poll", "failed"}
      /\ UNCHANGED <<raw, options, plan, next, pc, job, lease, outcome, progress, carrier, cancelled>>
      /\ UNCHANGED <<requests, deliveries, reports>>
  BY DEF Poll, PollFails, DeadlinePasses, Rest, wait
<1>2. /\ On = {} /\ Executed \subseteq Items /\ requests' \in Seq(Requests)
      /\ warned = {} /\ options' = options /\ Executed' = Executed /\ Expected' = Expected
      /\ \A i \in Items : Arrived(i)' = Arrived(i)
  BY <1>1, NoneOn DEF IInv, Typed, Awaited, plan, Executed, Active, Expected, Arrived, Stored
<1>3. ASSUME phase' = "complete", NEW i \in Expected \ warned' PROVE Arrived(i)
  <2>1. Poll
    BY <1>1, <1>3 DEF PollFails, DeadlinePasses
  <2>2. PICK known \in SUBSET Persisted :
          (phase' = "complete" => Expected \ known = {} \/ warned' = Expected \ known)
    BY <2>1 DEF Poll
  <2>3. i \in known
    BY <1>3, <2>2
  <2> QED
    BY <2>3 DEF Persisted, Arrived
<1>4. phase' = "poll" => warned' = {}
  BY <1>1, <1>2 DEF Poll, PollFails, DeadlinePasses
<1>5. Awaited'
  <2>1. Expected \subseteq Items
    BY DEF Expected
  <2> QED
    BY <1>1, <1>2, <1>3, <1>4, <2>1 DEF IInv, Awaited
<1> QED
  BY <1>1, <1>2, <1>5, LateKeeps

LEMMA CompleteKeeps == ASSUME IInv, Complete PROVE IInv'
<1>1. /\ phase = "complete" /\ phase' \in {"failed", "returned"}
      /\ UNCHANGED <<raw, options, plan, next, pc, job, lease, outcome, progress, carrier, cancelled>>
      /\ UNCHANGED <<deliveries, wait>>
  BY DEF Complete, Rest
<1>2. /\ On = {} /\ requests' \in Seq(Requests) /\ Executed \subseteq Items
      /\ options' = options /\ Executed' = Executed /\ Expected' = Expected /\ warned' = warned
      /\ \A i \in Items : Arrived(i)' = Arrived(i)
  <2>1. requests' \in Seq(Requests)
    BY OneMore DEF Complete, Requests
  <2> QED
    BY <1>1, <2>1, NoneOn DEF plan, wait, Executed, Active, Expected, Arrived, Stored
<1>3. Awaited'
  <2>1. Expected \subseteq Items
    BY DEF Expected
  <2> QED
    BY <1>1, <1>2, <2>1 DEF IInv, Awaited, wait
<1> QED
  BY <1>1, <1>2, <1>3, LateKeeps

-----------------------------------------------------------------------------
(* The calling goroutine before the workers. *)
LEMMA CheckKeeps == ASSUME IInv, Check PROVE IInv'
<1> USE DEF IInv
<1>1. /\ phase = "called" /\ phase' \in {"start", "refused"}
      /\ phase' = "start" => Accepted(raw) /\ options' = Resolved(raw)
      /\ UNCHANGED <<raw, requests, plan, next, pc, job, lease, outcome, progress, delivery,
                     wait, cancelled>>
  BY DEF Check
<1>2. /\ total' = total /\ offered' = offered /\ started' = started /\ completed' = completed
      /\ succeeded' = succeeded /\ errored' = errored /\ finished' = finished
      /\ carrier' = carrier /\ deliveries' = deliveries /\ reports' = reports /\ warned' = warned
      /\ Executed' = Executed /\ Active' = Active /\ On' = On
      /\ UNCHANGED <<next, pc, job, lease, outcome, raw, requests>>
  BY <1>1 DEF plan, progress, delivery, wait, Executed, Active, On
<1>3. Untouched /\ On = {} /\ total = 0 /\ requests = <<>> /\ \A i \in Items : deliveries[i] = None
  BY <1>1 DEF Staged
<1>4. Typed'
  BY <1>1, <1>2 DEF Typed, Phases
<1>5. Staged'
  <2>1. Untouched'
    BY <1>2, <1>3 DEF Untouched
  <2>2. Cardinality({}) = 0
    BY FS_EmptySet
  <2>3. phase' = "start" => Cardinality(On') <= options'.maxConcurrency
    BY <1>1, <1>2, <1>3, <2>2, AcceptedAsAsked DEF Typed
  <2> QED
    BY <1>1, <1>2, <1>3, <2>1, <2>3 DEF Staged
<1>6. \A w \in Workers : pc[w] = "off"
  BY <1>3 DEF On
<1>7. Jobs'
  BY <1>2, <1>3, <1>6 DEF Jobs, Untouched, Busy
<1>8. Reported'
  BY <1>2, <1>3, <1>6, ItemsCount DEF Reported, Untouched, Busy
<1>9. BranchesReturned'
  BY <1>2, <1>3, <1>6, ItemsCount DEF BranchesReturned, Untouched
<1>10. ProgressExact'
  BY <1>1, <1>2, <1>3 DEF ProgressExact, Untouched
<1>11. Ledger'
  BY <1>2 DEF Ledger
<1>12. Awaited'
  BY <1>1, <1>2 DEF Awaited
<1> QED
  BY <1>4, <1>5, <1>7, <1>8, <1>9, <1>10, <1>11, <1>12

(* There are goroutines enough for the smaller of what was asked for and   *)
(* the items.                                                              *)
LEMMA Enough ==
  ASSUME NEW n \in Nat, n <= Cardinality(Workers)
  PROVE  \E W \in SUBSET Workers : Cardinality(W) = n
<1>1. IsFiniteSet(Workers) /\ Cardinality(Workers) \in Nat
  BY RunAssumption, FS_CardinalityType
<1>2. CASE n = 0
  BY <1>2, FS_EmptySet
<1>3. CASE n # 0
  <2>1. PICK f : f \in Bijection(1 .. Cardinality(Workers), Workers)
    BY <1>1, FS_CardinalityType DEF ExistsBijection
  <2> DEFINE W == {f[k] : k \in 1 .. n}
  <2>2. \A k \in 1 .. n : k \in 1 .. Cardinality(Workers)
    BY <1>1
  <2>3. W \in SUBSET Workers
    BY <2>1, <2>2 DEF Bijection, Injection
  <2>4. \A j, k \in 1 .. n : f[j] = f[k] => j = k
    BY <2>1, <2>2 DEF Bijection, Injection, IsInjective
  <2>5. [k \in 1 .. n |-> f[k]] \in Bijection(1 .. n, W)
    BY <2>4 DEF Bijection, Injection, Surjection, IsInjective
  <2>6. IsFiniteSet(1 .. n) /\ Cardinality(1 .. n) = n
    BY <1>3, FS_Interval
  <2>7. Cardinality(W) = Cardinality(1 .. n)
    BY <2>5, <2>6, FS_Bijection DEF ExistsBijection
  <2> QED
    BY <2>3, <2>6, <2>7
<1> QED
  BY <1>2, <1>3

(* What the server's answer to the start brings, or that it failed.        *)
LEMMA StartedKeeps ==
  ASSUME IInv, phase = "start", phase' \in {"failed", "gather", "running"},
         UNCHANGED <<raw, options, next, job, lease, outcome, progress, carrier, wait, cancelled>>,
         requests' \in Seq(Requests), total' \in Items \cup {0},
         offered' \in [Items -> {"none", "lease", "error"}],
         deliveries' \in [Items -> Deliveries \cup {None}],
         \A i \in Items : deliveries'[i] # None => i \in 1 .. total' /\ deliveries'[i] = NoDelivery,
         pc' \in [Workers -> {"idle", "off"}],
         Cardinality(On') <= options.maxConcurrency,
         phase' # "running" => On' = {}, InProcess => On' = {},
         phase' = "gather" => total' = 0,
         phase' = "running" /\ ~InProcess => On' # {}
  PROVE  IInv'
<1> USE DEF IInv
<1>1. /\ Untouched /\ Accepted(raw) /\ options = Resolved(raw)
  BY DEF Staged
<1>2. /\ next = 1 /\ started = 0 /\ completed = 0 /\ succeeded = 0 /\ errored = 0
      /\ \A i \in Items : /\ finished[i] = 0 /\ lease[i] = "none" /\ outcome[i] = BaseItem
                          /\ \A c \in Carriers : carrier[i][c] = "none"
  BY <1>1 DEF Untouched
<1>3. /\ next' = 1 /\ started' = 0 /\ completed' = 0 /\ succeeded' = 0 /\ errored' = 0
      /\ finished' = finished /\ lease' = lease /\ outcome' = outcome /\ carrier' = carrier
      /\ job' = job /\ raw' = raw /\ options' = options /\ InProcess' = InProcess
      /\ reports' = reports /\ warned' = warned
  BY <1>2 DEF progress, wait, InProcess
<1>4. total' \in Nat
  BY ItemsCount
<1>5. \A w \in Workers : pc'[w] \notin Busy
  BY DEF Busy
<1>6. Typed'
  BY <1>3 DEF Typed, Phases, Busy
<1>7. Staged'
  <2>1. Untouched'
    BY <1>2, <1>3 DEF Untouched
  <2> QED
    BY <1>1, <1>3, <2>1 DEF Staged
<1>8. Jobs'
  <2>1. next' <= total' + 1
    <3>1. \A n \in Nat : 1 <= n + 1
      OBVIOUS
    <3> QED
      BY <1>3, <1>4, <3>1, Zenon
  <2>2. \A w \in Workers : pc'[w] \notin {"prepare", "call"}
    BY <1>5 DEF Busy
  <2>3. \A i \in Items : outcome'[i] = BaseItem
    BY <1>2, <1>3
  <2> QED
    BY <1>5, <2>1, <2>2, <2>3 DEF Jobs
<1>9. Reported'
  BY <1>2, <1>3, <1>5, ItemsCount DEF Reported
<1>10. BranchesReturned'
  BY <1>2, <1>3, <1>5 DEF BranchesReturned, Busy
<1>11. ProgressExact'
  <2>1. {i \in Items : finished'[i] = 1} = {}
        /\ {i \in Items : finished'[i] = 1 /\ outcome'[i].error # "none"} = {}
    BY <1>2, <1>3
  <2> QED
    BY <1>2, <1>3, <1>4, <2>1, FS_EmptySet DEF ProgressExact
<1>12. Ledger'
  BY <1>2, <1>3 DEF Ledger, Active, NoDelivery
<1>13. Awaited'
  BY <1>3 DEF Awaited
<1> QED
  BY <1>6, <1>7, <1>8, <1>9, <1>10, <1>11, <1>12, <1>13

LEMMA StartReplayKeeps == ASSUME IInv, StartReplay PROVE IInv'
<1>1. /\ phase = "start" /\ requests' = Append(requests, "start")
      /\ UNCHANGED <<raw, options, next, job, lease, outcome, progress, carrier, wait, cancelled>>
  BY DEF StartReplay
<1>2. /\ requests' \in Seq(Requests) /\ On = {} /\ total = 0
      /\ \A i \in Items : deliveries[i] = None
      /\ options.maxConcurrency \in Int /\ options.maxConcurrency >= 1
  BY <1>1, OneMore, LimitIsInt DEF Requests, IInv, Staged
<1>3. CASE phase' = "failed" /\ UNCHANGED <<plan, pc, deliveries>>
  <2>1. On' = {} /\ \A w \in Workers : pc[w] = "off"
    BY <1>2, <1>3 DEF On
  <2>2. pc' \in [Workers -> {"idle", "off"}]
    BY <1>3, <2>1 DEF IInv, Typed
  <2>3. Cardinality(On') <= options.maxConcurrency
    BY <1>2, <2>1, FS_EmptySet
  <2>4. total' = total /\ offered' = offered /\ deliveries' = deliveries
    BY <1>3 DEF plan
  <2> QED
    BY <1>1, <1>2, <1>3, <2>1, <2>2, <2>3, <2>4, StartedKeeps DEF IInv, Typed
<1>4. ASSUME NEW n \in 0 .. MaxSources,
             total' \in Items \cup {0},
             offered' \in [Items -> IF Branched THEN {"none", "lease", "error"} ELSE {"none"}],
             deliveries' = IF options.dryRun \/ InProcess THEN deliveries ELSE Track(1 .. total'),
             phase' = IF total' = 0 THEN "gather" ELSE "running",
             LET count == IF options.maxConcurrency < total' THEN options.maxConcurrency ELSE total'
                 chosen == CHOOSE W \in SUBSET Workers :
                             Cardinality(W) = IF InProcess THEN 0 ELSE count
             IN  pc' = [w \in Workers |-> IF w \in chosen THEN "idle" ELSE "off"]
      PROVE  IInv'
  <2>1. PICK count : count = IF options.maxConcurrency < total' THEN options.maxConcurrency ELSE total'
    OBVIOUS
  <2>2. /\ total' \in Nat /\ count \in Nat /\ count <= options.maxConcurrency
        /\ count <= Cardinality(Workers)
        /\ total' # 0 => count # 0
    <3>1. /\ Items = 1 .. Cardinality(Items) /\ Cardinality(Items) \in Nat
          /\ Cardinality(Workers) \in Nat /\ Cardinality(Items) <= Cardinality(Workers)
      BY RunAssumption, FS_CardinalityType
    <3> QED
      BY <1>2, <1>4, <2>1, <3>1
  <2>3. PICK most : most = IF InProcess THEN 0 ELSE count
    OBVIOUS
  <2>4. most \in Nat /\ most <= Cardinality(Workers)
    <3>1. Cardinality(Workers) \in Nat
      BY Sizes
    <3>2. CASE InProcess
      BY <2>3, <3>1, <3>2
    <3>3. CASE ~InProcess
      <4>1. most = count
        BY <2>3, <3>3
      <4> QED
        BY <2>2, <4>1
    <3> QED
      BY <3>2, <3>3
  <2>5. \E W \in SUBSET Workers : Cardinality(W) = most
    BY <2>4, Enough
  <2>6. PICK chosen : /\ chosen = CHOOSE W \in SUBSET Workers : Cardinality(W) = most
                      /\ pc' = [w \in Workers |-> IF w \in chosen THEN "idle" ELSE "off"]
    BY <1>4, <2>1, <2>3
  <2>7. chosen \in SUBSET Workers /\ Cardinality(chosen) = most
    BY <2>5, <2>6
  <2>8. pc' \in [Workers -> {"idle", "off"}] /\ On' = chosen
    BY <2>6, <2>7 DEF On
  <2>9. Cardinality(On') <= options.maxConcurrency
    BY <1>2, <2>2, <2>3, <2>7, <2>8
  <2>10. most = 0 <=> On' = {}
    BY <2>7, <2>8, Sizes, FS_EmptySet
  <2>11. phase' \in {"gather", "running"} /\ (phase' = "gather" <=> total' = 0)
    BY <1>4
  <2>12. /\ phase' # "running" => On' = {}
         /\ InProcess => On' = {}
         /\ phase' = "running" /\ ~InProcess => On' # {}
    <3>1. ASSUME phase' # "running" PROVE On' = {}
      <4>1. total' = 0 /\ count = 0
        BY <1>2, <2>1, <2>11, <3>1
      <4>2. most = 0
        BY <2>3, <4>1
      <4> QED
        BY <2>10, <4>2
    <3>2. ASSUME InProcess PROVE On' = {}
      BY <2>3, <2>10, <3>2
    <3>3. ASSUME phase' = "running", ~InProcess PROVE On' # {}
      <4>1. most = count
        BY <2>3, <3>3
      <4>2. count # 0
        BY <2>2, <2>11, <3>3
      <4> QED
        BY <2>10, <4>1, <4>2
    <3> QED
      BY <3>1, <3>2, <3>3
  <2>13. offered' \in [Items -> {"none", "lease", "error"}]
    BY <1>4
  <2>14. /\ deliveries' \in [Items -> Deliveries \cup {None}]
         /\ \A i \in Items : deliveries'[i] # None => i \in 1 .. total' /\ deliveries'[i] = NoDelivery
    <3>1. NoDelivery \in Deliveries
      BY DEF NoDelivery, Deliveries
    <3>2. deliveries \in [Items -> Deliveries \cup {None}]
      BY DEF IInv, Typed
    <3>3. deliveries' = deliveries \/ deliveries' = Track(1 .. total')
      BY <1>4
    <3>4. CASE deliveries' = deliveries
      BY <1>2, <3>2, <3>4
    <3>5. CASE deliveries' = Track(1 .. total')
      BY <1>2, <3>1, <3>2, <3>5 DEF Track
    <3> QED
      BY <3>3, <3>4, <3>5
  <2> QED
    BY <1>1, <1>2, <1>4, <2>8, <2>9, <2>11, <2>12, <2>13, <2>14, StartedKeeps
<1> QED
  BY <1>3, <1>4 DEF StartReplay

(* The results of the child processes, or that none could be started.      *)
LEMMA RunProcessesKeeps == ASSUME IInv, RunProcesses PROVE IInv'
<1> USE DEF IInv
<1>1. /\ phase = "running" /\ InProcess /\ phase' = "gather"
      /\ UNCHANGED <<raw, options, requests, plan, next, pc, job, lease, delivery, wait, cancelled>>
  BY DEF RunProcesses
<1>2. PICK done \in SUBSET Active :
        /\ outcome' \in [Items -> [error : {"none", "setup", "trace"}, executed : BOOLEAN]]
        /\ \A i \in Items :
             /\ outcome'[i].executed <=> i \in done
             /\ i \notin done => outcome'[i].error = IF i \in Active THEN "setup" ELSE "none"
        /\ \/ /\ completed' = total
              /\ started' \in IF cancelled THEN Cardinality(done) .. total ELSE {total}
              /\ errored' = Cardinality({i \in Active : outcome'[i].error # "none"})
              /\ succeeded' = total - errored'
              /\ finished' = [i \in Items |-> IF i \in Active THEN 1 ELSE 0]
           \/ done = {} /\ UNCHANGED progress
  BY DEF RunProcesses
<1>3. /\ options' = options /\ raw' = raw /\ requests' = requests /\ total' = total
      /\ offered' = offered /\ reports' = reports /\ warned' = warned
      /\ carrier' = carrier /\ deliveries' = deliveries
      /\ InProcess' = InProcess /\ On' = On /\ Active' = Active
      /\ UNCHANGED <<next, pc, job, lease>>
  BY <1>1 DEF plan, delivery, wait, InProcess, On, Active
<1>4. /\ Untouched /\ On = {} /\ \A w \in Workers : pc[w] = "off"
  BY <1>1 DEF Staged, On
<1>5. /\ total \in Nat /\ Active \subseteq Items
      /\ IsFiniteSet(Active) /\ Cardinality(Active) = total
  BY ActiveItems DEF Typed
<1>6. Cardinality(done) \in Nat
  BY <1>5, FS_Subset, FS_CardinalityType
<1>7. ASSUME NEW S \in SUBSET Active PROVE Cardinality(S) \in Nat /\ Cardinality(S) <= total
  BY <1>5, FS_Subset, FS_CardinalityType
<1>8. /\ started' \in Nat /\ completed' \in Nat /\ succeeded' \in Nat /\ errored' \in Nat
      /\ finished' \in [Items -> Nat] /\ ProgressExact'
  <2>1. CASE /\ completed' = total
             /\ started' \in IF cancelled THEN Cardinality(done) .. total ELSE {total}
             /\ errored' = Cardinality({i \in Active : outcome'[i].error # "none"})
             /\ succeeded' = total - errored'
             /\ finished' = [i \in Items |-> IF i \in Active THEN 1 ELSE 0]
    <3>1. errored' \in Nat /\ errored' <= total
      BY <1>7, <2>1
    <3>2. started' \in Nat /\ started' <= total
      BY <1>5, <1>6, <2>1
    <3>3. {i \in Items : finished'[i] = 1} = Active
      BY <1>5, <2>1
    <3>4. {i \in Items : finished'[i] = 1 /\ outcome'[i].error # "none"}
            = {i \in Active : outcome'[i].error # "none"}
      BY <1>5, <2>1
    <3>5. finished' \in [Items -> Nat] /\ \A i \in Items : finished'[i] <= 1
      BY <2>1
    <3>6. completed' = succeeded' + errored' /\ succeeded' \in Nat /\ completed' \in Nat
      BY <1>5, <2>1, <3>1
    <3> QED
      BY <1>1, <1>3, <1>5, <2>1, <3>1, <3>2, <3>3, <3>4, <3>5, <3>6 DEF ProgressExact
  <2>2. CASE done = {} /\ UNCHANGED progress
    <3>1. /\ started' = 0 /\ completed' = 0 /\ succeeded' = 0 /\ errored' = 0 /\ finished' = finished
          /\ \A i \in Items : finished[i] = 0
      BY <1>4, <2>2 DEF Untouched, progress
    <3>2. {i \in Items : finished'[i] = 1} = {}
          /\ {i \in Items : finished'[i] = 1 /\ outcome'[i].error # "none"} = {}
      BY <3>1
    <3>3. Executed' = {}
      BY <1>2, <1>3, <1>5, <2>2 DEF Executed
    <3>4. finished' \in [Items -> Nat] /\ \A i \in Items : finished'[i] <= 1
      BY <3>1 DEF Typed
    <3>5. Cardinality({}) = 0 /\ 0 <= total
      BY <1>5, FS_EmptySet
    <3>0. 0 = 0 + 0 /\ 0 <= 0
      OBVIOUS
    <3>6. /\ completed' = Cardinality({i \in Items : finished'[i] = 1})
          /\ errored' = Cardinality({i \in Items : finished'[i] = 1 /\ outcome'[i].error # "none"})
          /\ completed' = succeeded' + errored' /\ started' <= total' /\ completed' <= started'
      BY <1>3, <3>0, <3>1, <3>2, <3>5, Zenon
    <3>7. InProcess' /\ completed' = 0 /\ Executed' = {}
      BY <1>1, <1>3, <3>1, <3>3
    <3>8. ProgressExact'
      BY <3>4, <3>6, <3>7 DEF ProgressExact
    <3> QED
      BY <3>1, <3>4, <3>8
  <2> QED
    BY <1>2, <2>1, <2>2
<1>9. Typed'
  BY <1>1, <1>2, <1>3, <1>8 DEF Typed, Phases, Outcomes
<1>10. Staged'
  BY <1>1, <1>3, <1>4 DEF Staged
<1>11. Jobs' /\ Reported' /\ BranchesReturned'
  BY <1>1, <1>3, <1>4 DEF Jobs, Reported, BranchesReturned, Busy
<1>12. Ledger'
  BY <1>3, <1>4 DEF Ledger, Untouched
<1>13. Awaited'
  BY <1>1, <1>3 DEF Awaited
<1> QED
  BY <1>8, <1>9, <1>10, <1>11, <1>12, <1>13

-----------------------------------------------------------------------------
LEMMA InitIInv == Init => IInv
<1> SUFFICES ASSUME Init PROVE IInv
  OBVIOUS
<1>1. Typed
  BY DEF Init, Typed, Phases, Outcomes, BaseItem, Requests, Busy
<1>2. On = {} /\ Untouched /\ Cardinality({}) = 0
  BY FS_EmptySet DEF Init, On, Untouched
<1>3. Staged
  BY <1>2 DEF Init, Staged
<1>4. Jobs /\ Reported
  BY ItemsCount DEF Init, Jobs, Reported, Busy
<1>5. BranchesReturned
  BY DEF Init, BranchesReturned
<1>6. ProgressExact
  <2>1. {i \in Items : finished[i] = 1} = {}
        /\ {i \in Items : finished[i] = 1 /\ outcome[i].error # "none"} = {}
    BY DEF Init
  <2>2. /\ started = 0 /\ completed = 0 /\ succeeded = 0 /\ errored = 0 /\ total = 0
        /\ phase = "called" /\ \A i \in Items : finished[i] = 0
    BY DEF Init
  <2>3. /\ completed = Cardinality({i \in Items : finished[i] = 1})
        /\ errored = Cardinality({i \in Items : finished[i] = 1 /\ outcome[i].error # "none"})
    BY <1>2, <2>1, <2>2, Zenon
  <2>4. /\ \A i \in Items : finished[i] <= 1
        /\ completed = succeeded + errored /\ started <= total /\ completed <= started
    BY <2>2
  <2>5. phase \notin {"gather", "flush", "poll", "complete", "returned"}
    BY <2>2
  <2> QED
    BY <2>3, <2>4, <2>5, Zenon DEF ProgressExact
<1>7. Ledger /\ Awaited
  BY DEF Init, Ledger, Awaited
<1> QED
  BY <1>1, <1>3, <1>4, <1>5, <1>6, <1>7 DEF IInv

LEMMA StutterKeeps == ASSUME IInv, UNCHANGED vars PROVE IInv'
<1>1. UNCHANGED <<raw, options, phase, requests, total, offered, next, pc, job, lease, outcome,
                  started, completed, succeeded, errored, finished, carrier, deliveries,
                  reports, warned>>
  BY DEF vars, main, plan, progress, delivery, wait
<1>2. Typed' /\ Staged'
  BY <1>1 DEF IInv, Typed, Staged, Untouched, On, InProcess
<1>3. Jobs' /\ Reported' /\ BranchesReturned' /\ ProgressExact'
  BY <1>1 DEF IInv, Jobs, Reported, BranchesReturned, ProgressExact, InProcess, Executed, Active
<1>4. Ledger' /\ Awaited'
  BY <1>1 DEF IInv, Ledger, Awaited, Expected, Executed, Active, Arrived, Stored
<1> QED
  BY <1>2, <1>3, <1>4 DEF IInv

LEMMA NextIInv == IInv /\ [Next]_vars => IInv'
<1> SUFFICES ASSUME IInv, [Next]_vars PROVE IInv'
  OBVIOUS
<1>1. CASE MainStep
  BY <1>1, CheckKeeps, StartReplayKeeps, RunProcessesKeeps, WorkersDoneKeeps, GatherKeeps,
     TakeReportsKeeps, PollKeeps, CompleteKeeps DEF MainStep
<1>2. CASE \E w \in Workers : WorkerStep(w)
  BY <1>2, WorkerKeeps
<1>3. CASE CarrierStep
  BY <1>3, SubmitKeeps, StoreKeeps DEF CarrierStep
<1>4. CASE Cancel
  BY <1>4, CancelKeeps
<1>5. CASE UNCHANGED vars
  BY <1>5, StutterKeeps
<1> QED
  BY <1>1, <1>2, <1>3, <1>4, <1>5 DEF Next

LEMMA Invariance == Spec => []IInv
  BY InitIInv, NextIInv, PTL DEF Spec

(* What was begun for an item is ended: whatever failed or was cancelled,  *)
(* its branch is given back by the time it is reported, and it is reported *)
(* finished once, with counters to match (runReplayItem, reportFinish).    *)
THEOREM ItemsAreSettled == Spec => []ItemsSettled
<1>1. IInv => ItemsSettled
  BY DEF IInv, ItemsSettled
<1> QED
  BY <1>1, Invariance, PTL

(* Replay is silent about a trace only if the server has all of it, and    *)
(* keeps no delivery record of an item whose function ran                  *)
(* (waitForReplayPersistence, takeTraceDeliveries).                        *)
THEOREM SilenceIsEarned == Spec => []SilenceMeansStored
<1>1. IInv => SilenceMeansStored
  <2> SUFFICES ASSUME IInv PROVE SilenceMeansStored
    OBVIOUS
  <2>1. phase \in {"complete", "returned"} => \A i \in Expected \ warned : Arrived(i)
    BY DEF IInv, Awaited
  <2>2. phase \in {"complete", "returned"} /\ ~options.dryRun =>
          \A i \in Items : deliveries[i] # None => i \in Active \ Executed
    BY DEF IInv, Awaited, Ledger
  <2> QED
    BY <2>1, <2>2 DEF SilenceMeansStored, Arrived
<1> QED
  BY <1>1, Invariance, PTL

(* A refused call has sent nothing, and an accepted one runs with what its *)
(* host asked for (normalizeReplayOptions, normalizeReplayConcurrency).    *)
THEOREM AskedIsKept == Spec => []AskedOrRefused
<1>1. IInv => AskedOrRefused
  <2> SUFFICES ASSUME IInv PROVE AskedOrRefused
    OBVIOUS
  <2>1. phase = "refused" => requests = <<>> /\ \A i \in Items : deliveries[i] = None
    BY DEF IInv, Staged
  <2>2. ASSUME requests # <<>>
        PROVE  LET asked == IF raw.concurrency # None THEN {raw, raw.concurrency} ELSE {raw}
               IN  /\ \A a \in asked : /\ a.attempts \in {0, options.attempts}
                                       /\ a.maxConcurrency \in {0, options.maxConcurrency}
                   /\ options.attempts \in 1 .. MaxAttempts
                   /\ Cardinality({w \in Workers : pc[w] # "off"}) <= options.maxConcurrency
    <3>1. /\ raw \in Calls /\ Accepted(raw) /\ options = Resolved(raw)
          /\ Cardinality(On) <= options.maxConcurrency
      BY <2>2 DEF IInv, Typed, Staged
    <3>2. On = {w \in Workers : pc[w] # "off"}
      BY DEF On
    <3>3. /\ options.attempts \in 1 .. MaxAttempts
          /\ raw.attempts \in {0, options.attempts}
          /\ raw.maxConcurrency \in {0, options.maxConcurrency}
          /\ raw.concurrency # None =>
               /\ raw.concurrency.attempts \in {0, options.attempts}
               /\ raw.concurrency.maxConcurrency \in {0, options.maxConcurrency}
      BY <3>1, AcceptedAsAsked
    <3> QED
      BY <3>1, <3>2, <3>3
  <2> QED
    BY <2>1, <2>2 DEF AskedOrRefused
<1> QED
  BY <1>1, Invariance, PTL

(* The run asks for exactly the data sets the host selected, each once     *)
(* (resolveDatasetIDs).                                                    *)
THEOREM DatasetsAreOnce == Spec => []DatasetsOnce
<1>1. IInv => DatasetsOnce
  <2> SUFFICES ASSUME IInv, requests # <<>> PROVE DatasetsOnce
    BY DEF DatasetsOnce
  <2>1. raw \in Calls /\ Accepted(raw) /\ options = Resolved(raw)
    BY DEF IInv, Typed, Staged
  <2>2. options.datasetIDs = Datasets(raw)
    BY <2>1, ResolvedDatasets
  <2>3. DatasetsValid(raw)
    BY <2>1 DEF Accepted
  <2>4. CASE raw.datasetID # None
    <3>1. raw.datasetIDs = None \/ Range(raw.datasetIDs) = {}
      BY <2>3, <2>4 DEF DatasetsValid, Range
    <3>2. options.datasetIDs = <<raw.datasetID>>
      BY <2>2, <2>4 DEF Datasets
    <3>3. Range(<<raw.datasetID>>) = {raw.datasetID} /\ IsInjective(<<raw.datasetID>>)
      BY DEF Range, IsInjective
    <3> QED
      BY <2>4, <3>1, <3>2, <3>3 DEF DatasetsOnce
  <2>5. CASE raw.datasetID = None /\ raw.datasetIDs = None
    BY <2>2, <2>5 DEF Datasets, DatasetsOnce
  <2>6. CASE raw.datasetID = None /\ raw.datasetIDs # None
    <3>1. options.datasetIDs = Unique(raw.datasetIDs)
      BY <2>2, <2>6 DEF Datasets
    <3>2. PICK ids : ids = raw.datasetIDs
      OBVIOUS
    <3>3. ids \in Seq(Range(ids)) /\ ids # <<>>
      BY <2>1, <2>3, <2>6, <3>2, RunAssumption DEF Passable, DatasetsValid
    <3>4. Range(Unique(ids)) = Range(ids) /\ IsInjective(Unique(ids))
      BY <3>3, UniqueOnce
    <3>5. Range(ids) # {}
      <4>1. 1 \in DOMAIN ids
        BY <3>3
      <4> QED
        BY <4>1, Zenon DEF Range
    <3> QED
      BY <2>6, <3>1, <3>2, <3>4, <3>5 DEF DatasetsOnce
  <2> QED
    BY <2>4, <2>5, <2>6
<1> QED
  BY <1>1, Invariance, PTL
=============================================================================
