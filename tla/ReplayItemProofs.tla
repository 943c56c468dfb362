-------------------------- MODULE ReplayItemProofs --------------------------
(***************************************************************************)
(* Proofs about the replay of an item. In child processes, for every set   *)
(* of items, every number of workers and every size of the machine's       *)
(* memory: what becomes of an item, and of the memory. Selectively, for    *)
(* every recording, every plan and every order of the calls: the spans and *)
(* calls that must run do. With mocks: each call gets the output that was  *)
(* recorded for it, from one fetch, and comes to an end.                   *)
(***************************************************************************)
EXTENDS ReplayChildren, SelectiveReplay, ReplayMocks, FiniteSetTheorems, TLAPS

Stages == {"queued", "admit", "begin", "wait", "kill", "read", "release", "report", "done"}
Reserving == {"begin", "wait", "kill", "read", "release"}

Typed ==
  /\ throttled \in BOOLEAN /\ cancelled \in BOOLEAN
  /\ stage \in [Items -> Stages]
  /\ resident \in [Items -> Nat \cup {None}]
  /\ child \in [Items -> {"none", "run", "exited"}]
  /\ rss \in [Items -> Nat]
  /\ file \in [Items -> BOOLEAN]
  /\ outcome \in [Items -> {"none", "refused", "lost", "result"}]

(* A child lives only while its worker waits for it, so that its file does *)
(* not change once the worker has read it; before there is a child there   *)
(* is no file either; and what the worker made of it stays so until the    *)
(* item is reported.                                                       *)
Settled(i) ==
  /\ stage[i] \in {"queued", "admit", "begin"} => child[i] = "none" /\ ~file[i] /\ outcome[i] = "none"
  /\ child[i] = "run" => stage[i] \in {"wait", "kill"}
  /\ stage[i] \in {"release", "report"} =>
       IF outcome[i] = "refused" THEN cancelled /\ child[i] = "none"
       ELSE outcome[i] = IF file[i] THEN "result" ELSE "lost"

(* The throttle has an entry for an item exactly while its worker is       *)
(* between the admission and the release.                                  *)
Reserved(i) == throttled => (resident[i] # None <=> stage[i] \in Reserving)

IInv == Typed /\ \A i \in Items : Settled(i) /\ Reserved(i)

LEMMA InitIInv == Init => IInv
<1> SUFFICES ASSUME Init PROVE IInv
  OBVIOUS
<1>1. Typed
  BY DEF Init, Typed, Stages
<1>2. ASSUME NEW i \in Items PROVE Settled(i) /\ Reserved(i)
  BY <1>2 DEF Init, Settled, Reserved, Reserving
<1> QED
  BY <1>1, <1>2 DEF IInv

(* The steps of the worker that has the item.                              *)
LEMMA WorkerKeeps ==
  ASSUME IInv, NEW i \in Items, WorkerStep(i)
  PROVE  IInv'
<1> USE DEF IInv, Typed, Settled, Reserved, Stages, Reserving
<1>1. CASE TakeJob(i)
  BY <1>1 DEF TakeJob, throttle, process
<1>2. CASE Admit(i)
  BY <1>2, ChildrenAssumption DEF Admit, throttle, process, Unmeasured
<1>3. CASE Begin(i)
  BY <1>3 DEF Begin, throttle
<1>4. CASE Exited(i) \/ Kill(i)
  BY <1>4 DEF Exited, Kill, throttle, process
<1>5. CASE Reap(i)
  BY <1>5 DEF Reap, throttle
<1>6. CASE ReadResult(i)
  BY <1>6 DEF ReadResult, HasResult, throttle, process
<1>7. CASE Release(i)
  BY <1>7 DEF Release, process
<1>8. CASE Report(i)
  BY <1>8 DEF Report, throttle
<1> QED
  BY <1>1, <1>2, <1>3, <1>4, <1>5, <1>6, <1>7, <1>8 DEF WorkerStep

(* What the child does by itself, what the throttle sees of it, and the    *)
(* host's cancellation.                                                    *)
LEMMA ChildKeeps ==
  ASSUME IInv,
         Cancel \/ \E i \in Items : Observe(i) \/ Grow(i) \/ WriteResult(i) \/ ChildEnds(i)
  PROVE  IInv'
<1> USE DEF IInv, Typed, Settled, Reserved, Stages, Reserving
<1>1. CASE Cancel
  BY <1>1 DEF Cancel, throttle, process
<1>2. ASSUME NEW i \in Items, Observe(i) PROVE IInv'
  BY <1>2, ChildrenAssumption DEF Observe, process
<1>3. ASSUME NEW i \in Items, Grow(i) PROVE IInv'
  BY <1>3 DEF Grow, Apart, Alive, throttle
<1>4. ASSUME NEW i \in Items, WriteResult(i) PROVE IInv'
  BY <1>4 DEF WriteResult, Apart, Alive, throttle
<1>5. ASSUME NEW i \in Items, ChildEnds(i) PROVE IInv'
  BY <1>5 DEF ChildEnds, Apart, Alive, throttle
<1> QED
  BY <1>1, <1>2, <1>3, <1>4, <1>5

LEMMA NextIInv == IInv /\ [Next]_vars => IInv'
<1> SUFFICES ASSUME IInv, [Next]_vars PROVE IInv'
  OBVIOUS
<1>1. CASE \E i \in Items : WorkerStep(i)
  BY <1>1, WorkerKeeps
<1>2. CASE Cancel \/ \E i \in Items : Observe(i) \/ Grow(i) \/ WriteResult(i) \/ ChildEnds(i)
  BY <1>2, ChildKeeps
<1>3. CASE UNCHANGED vars
  BY <1>3 DEF vars, throttle, process, IInv, Typed, Settled, Reserved
<1> QED
  BY <1>1, <1>2, <1>3 DEF Next, Done

LEMMA Invariance == Spec => []IInv
<1> QED
  BY InitIInv, NextIInv, PTL DEF Spec

(* When an item is reported its result is what its child had written,      *)
(* however the child ended, and an item is refused only after a            *)
(* cancellation (replay_process.go runReplayChild).                        *)
THEOREM ResultIsFinal == Spec => []NoResultLost
<1>1. IInv => NoResultLost
  BY DEF IInv, Settled, NoResultLost, Alive
<1> QED
  BY <1>1, Invariance, PTL

(* Every live child is waited for and counted, and the throttle counts     *)
(* nothing else (replay_memory.go admit, release).                         *)
THEOREM EveryChildCounted == Spec => []ChildrenCounted
<1>1. IInv => ChildrenCounted
  BY DEF IInv, Settled, Reserved, ChildrenCounted, Alive, Resident, Reserving
<1> QED
  BY <1>1, Invariance, PTL

------------------------------------------------------------------------------
(* The memory.                                                             *)

LEMMA UpTo ==
  ASSUME NEW n \in Nat
  PROVE  IsFiniteSet(1 .. n) /\ Cardinality(1 .. n) = n
<1>1. 1 \in Int /\ n \in Int
  OBVIOUS
<1>2. IsFiniteSet(1 .. n) /\ Cardinality(1 .. n) = IF 1 > n THEN 0 ELSE n - 1 + 1
  BY <1>1, FS_Interval
<1> QED
  BY <1>2

LEMMA MaxOfBounded ==
  ASSUME NEW S \in SUBSET Nat, NEW n \in Nat, S # {}, \A x \in S : x <= n
  PROVE  Max(S) \in S /\ \A x \in S : x <= Max(S)
<1> DEFINE R == OpToRel(<, Nat)
<1> DEFINE T == {n - x : x \in S}
<1>1. T \subseteq Nat /\ T # {}
  <2>1. \A x \in S : n - x \in Nat
    OBVIOUS
  <2> QED
    BY <2>1, Zenon
<1>2. \E x \in T : \A y \in T : <<y, x>> \notin R
  <2> HIDE DEF R, T
  <2> QED
    BY <1>1, NatLessThanWellFounded, WFMin DEF R
<1>3. PICK t \in T : \A y \in T : <<y, t>> \notin R
  BY <1>2
<1>4. \A y \in T : ~ (y < t)
  BY <1>1, <1>3 DEF OpToRel
<1>5. PICK x \in S : t = n - x
  OBVIOUS
<1>6. \A y \in S : x >= y
  BY <1>4, <1>5
<1>7. Max(S) \in S /\ \A y \in S : Max(S) >= y
  BY <1>6 DEF Max
<1> QED
  BY <1>7

(* What a worker has set aside for its child: it is about to start it, or  *)
(* the child runs.                                                         *)
Slots == {i \in Items : stage[i] = "begin" \/ child[i] = "run"}

(* A child's entry never says more than the child has, and nothing while   *)
(* it has not been started.                                                *)
Measured(i) ==
  /\ rss[i] <= MaxRSS
  /\ resident[i] # None => resident[i] <= MaxRSS
  /\ throttled /\ stage[i] = "begin" => resident[i] = 0
  /\ throttled /\ child[i] = "run" => resident[i] <= rss[i]

(* The last admission that was checked left the floor free even if every   *)
(* child grows to the budget it was admitted under.                        *)
Backed ==
  throttled /\ Cardinality(Resident) >= 2 /\ promised # None
  => Memory - Cardinality(Slots \X (1 .. promised)) >= Floor

Counts == peak \in Nat /\ promised \in Nat \cup {None}

MInv == IInv /\ Counts /\ (\A i \in Items : Measured(i)) /\ Backed

LEMMA BudgetBounds ==
  ASSUME IInv, Counts, \A i \in Items : Measured(i)
  PROVE  ChildBudget \in Nat /\ \A i \in Resident : resident[i] <= ChildBudget
<1> DEFINE first == IF peak > 0 THEN peak ELSE Budget
<1> DEFINE S == {first} \cup {resident[i] : i \in Resident}
<1>1. first \in Nat
  BY ChildrenAssumption DEF Counts
<1>2. \A i \in Resident : resident[i] \in Nat /\ resident[i] <= MaxRSS
  BY DEF IInv, Typed, Measured, Resident
<1> HIDE DEF first
<1>3. S \in SUBSET Nat /\ S # {}
  BY <1>1, <1>2
<1>4. PICK n \in Nat : n = first + MaxRSS
  BY <1>1, ChildrenAssumption
<1>5. \A x \in S : x <= n
  BY <1>1, <1>2, <1>4, ChildrenAssumption
<1>6. Max(S) \in S /\ \A x \in S : x <= Max(S)
  <2> HIDE DEF S
  <2> QED
    BY <1>3, <1>5, MaxOfBounded
<1>7. ChildBudget = Max(S)
  BY DEF ChildBudget, first
<1> HIDE DEF S
<1>8. ChildBudget \in Nat /\ \A x \in S : x <= ChildBudget
  BY <1>3, <1>6, <1>7
<1>9. \A i \in Resident : resident[i] \in S
  BY DEF S
<1> QED
  BY <1>8, <1>9

LEMMA SetsFinite ==
  ASSUME IInv, Counts, \A i \in Items : Measured(i)
  PROVE  /\ IsFiniteSet(Resident) /\ IsFiniteSet(Slots)
         /\ IsFiniteSet(Held) /\ IsFiniteSet(Growth)
         /\ Cardinality(Held) \in Nat /\ Cardinality(Growth) \in Nat
<1>1. IsFiniteSet(Resident) /\ IsFiniteSet(Slots)
  BY ChildrenAssumption, FS_Subset DEF Resident, Slots
<1>2. IsFiniteSet(Items \X (1 .. MaxRSS)) /\ IsFiniteSet(Items \X (1 .. ChildBudget))
  <2>1. IsFiniteSet(1 .. MaxRSS) /\ IsFiniteSet(1 .. ChildBudget)
    BY ChildrenAssumption, BudgetBounds, UpTo
  <2> QED
    BY <2>1, ChildrenAssumption, FS_Product
<1>3. Held \subseteq Items \X (1 .. MaxRSS)
  <2> SUFFICES ASSUME NEW i \in Alive, NEW u \in 1 .. rss[i]
               PROVE  <<i, u>> \in Items \X (1 .. MaxRSS)
    BY DEF Held
  <2> QED
    BY ChildrenAssumption DEF Alive, IInv, Typed, Measured
<1>4. Growth \subseteq Items \X (1 .. ChildBudget)
  <2> SUFFICES ASSUME NEW i \in Resident, NEW u \in resident[i] + 1 .. ChildBudget
               PROVE  <<i, u>> \in Items \X (1 .. ChildBudget)
    BY DEF Growth
  <2> QED
    BY BudgetBounds DEF Resident, IInv, Typed
<1>5. IsFiniteSet(Held) /\ IsFiniteSet(Growth)
  BY <1>2, <1>3, <1>4, FS_Subset
<1> QED
  BY <1>1, <1>5, FS_CardinalityType

(* Nobody is admitted and the promise stays: fewer children need less.     *)
LEMMA ShrinkBacked ==
  ASSUME MInv, throttled' = throttled, promised' = promised,
         Resident' \subseteq Resident, Slots' \subseteq Slots
  PROVE  Backed'
<1> SUFFICES ASSUME throttled, Cardinality(Resident') >= 2, promised # None
             PROVE  Memory - Cardinality(Slots' \X (1 .. promised)) >= Floor
  BY DEF Backed
<1>1. IsFiniteSet(Resident) /\ IsFiniteSet(Slots)
  BY SetsFinite DEF MInv
<1>2. promised \in Nat
  BY DEF MInv, Counts
<1>3. Cardinality(Resident) \in Nat /\ Cardinality(Resident') \in Nat
        /\ Cardinality(Resident') <= Cardinality(Resident)
  BY <1>1, FS_Subset, FS_CardinalityType
<1>4. Memory - Cardinality(Slots \X (1 .. promised)) >= Floor
  BY <1>3 DEF MInv, Backed
<1>5. IsFiniteSet(Slots \X (1 .. promised))
  <2>1. IsFiniteSet(1 .. promised)
    BY <1>2, UpTo
  <2> QED
    BY <1>1, <2>1, FS_Product
<1>6. Slots' \X (1 .. promised) \subseteq Slots \X (1 .. promised)
  OBVIOUS
<1>7. Cardinality(Slots' \X (1 .. promised)) <= Cardinality(Slots \X (1 .. promised))
        /\ Cardinality(Slots \X (1 .. promised)) \in Nat
        /\ Cardinality(Slots' \X (1 .. promised)) \in Nat
  BY <1>5, <1>6, FS_Subset, FS_CardinalityType
<1> QED
  BY <1>4, <1>7, ChildrenAssumption

(* A child is admitted under the budget: what the others have and may      *)
(* still take covers the budget of each.                                   *)
LEMMA FitBacked ==
  ASSUME MInv, throttled, Fits, NEW i \in Items, Slots' \subseteq Slots \cup {i},
         promised' = ChildBudget
  PROVE  Backed'
<1> SUFFICES Memory - Cardinality(Slots' \X (1 .. ChildBudget)) >= Floor
  BY DEF Backed
<1> DEFINE own == {i} \X (1 .. ChildBudget)
<1>1. ChildBudget \in Nat /\ IsFiniteSet(Held) /\ IsFiniteSet(Growth)
        /\ Cardinality(Held) \in Nat /\ Cardinality(Growth) \in Nat
  BY BudgetBounds, SetsFinite DEF MInv
<1>2. IsFiniteSet(own) /\ Cardinality(own) = ChildBudget
  <2>1. IsFiniteSet(1 .. ChildBudget) /\ Cardinality(1 .. ChildBudget) = ChildBudget
    BY <1>1, UpTo
  <2>2. IsFiniteSet({i}) /\ Cardinality({i}) = 1
    BY FS_Singleton
  <2>3. IsFiniteSet(own) /\ Cardinality(own) = 1 * ChildBudget
    BY <2>1, <2>2, FS_Product
  <2> QED
    BY <2>3, <1>1
<1>3. Slots' \X (1 .. ChildBudget) \subseteq (Held \cup Growth) \cup own
  <2> SUFFICES ASSUME NEW j \in Slots', NEW u \in 1 .. ChildBudget
               PROVE  <<j, u>> \in (Held \cup Growth) \cup own
    OBVIOUS
  <2>1. CASE j = i
    BY <2>1
  <2>2. CASE j \in Slots
    <3>1. j \in Items /\ j \in Resident /\ resident[j] \in Nat /\ rss[j] \in Nat
      BY <2>2 DEF Slots, Resident, MInv, IInv, Typed, Settled, Reserved, Reserving
    <3>2. CASE u > resident[j]
      <4>1. <<j, u>> \in {j} \X (resident[j] + 1 .. ChildBudget)
        BY <3>1, <3>2, <1>1
      <4> QED
        BY <3>1, <4>1 DEF Growth
    <3>3. CASE ~ (u > resident[j])
      <4>1. j \in Alive /\ resident[j] <= rss[j]
        BY <2>2, <3>1, <3>3 DEF Slots, Resident, MInv, Measured, Alive
      <4>2. <<j, u>> \in {j} \X (1 .. rss[j])
        BY <3>1, <3>3, <4>1
      <4> QED
        BY <4>1, <4>2 DEF Held
    <3> QED
      BY <3>2, <3>3
  <2> QED
    BY <2>1, <2>2
<1> HIDE DEF own
<1>4. IsFiniteSet(Held \cup Growth)
        /\ Cardinality(Held \cup Growth) <= Cardinality(Held) + Cardinality(Growth)
        /\ Cardinality(Held \cup Growth) \in Nat
  <2>1. IsFiniteSet(Held \cup Growth)
          /\ Cardinality(Held \cup Growth)
               = Cardinality(Held) + Cardinality(Growth) - Cardinality(Held \cap Growth)
    BY <1>1, FS_Union
  <2>2. Cardinality(Held \cap Growth) \in Nat
    BY <1>1, FS_Subset, FS_CardinalityType
  <2> QED
    BY <1>1, <2>1, <2>2, FS_CardinalityType
<1>5. IsFiniteSet((Held \cup Growth) \cup own)
        /\ Cardinality((Held \cup Growth) \cup own) <= Cardinality(Held \cup Growth) + ChildBudget
  <2>1. IsFiniteSet((Held \cup Growth) \cup own)
          /\ Cardinality((Held \cup Growth) \cup own)
               = Cardinality(Held \cup Growth) + Cardinality(own)
                   - Cardinality((Held \cup Growth) \cap own)
    BY <1>2, <1>4, FS_Union
  <2>2. Cardinality((Held \cup Growth) \cap own) \in Nat
    BY <1>2, <1>4, FS_Subset, FS_CardinalityType
  <2> QED
    BY <1>1, <1>2, <1>4, <2>1, <2>2
<1>6. Cardinality(Slots' \X (1 .. ChildBudget)) <= Cardinality((Held \cup Growth) \cup own)
        /\ Cardinality(Slots' \X (1 .. ChildBudget)) \in Nat
        /\ Cardinality((Held \cup Growth) \cup own) \in Nat
  BY <1>3, <1>5, FS_Subset, FS_CardinalityType
<1>7. Memory - Cardinality(Held) - Cardinality(Growth) - ChildBudget >= Floor
  BY DEF Fits, Available
<1> QED
  BY <1>1, <1>4, <1>5, <1>6, <1>7, ChildrenAssumption

LEMMA InitMInv == Init => MInv
<1> SUFFICES ASSUME Init PROVE MInv
  OBVIOUS
<1>1. IInv
  BY InitIInv
<1>2. Counts
  BY DEF Init, Counts
<1>3. \A i \in Items : Measured(i)
  BY ChildrenAssumption DEF Init, Measured
<1>4. Backed
  BY DEF Init, Backed
<1> QED
  BY <1>1, <1>2, <1>3, <1>4 DEF MInv

(* What is measured, step by step.                                         *)
LEMMA MeasuredKept ==
  ASSUME MInv, IInv', Next
  PROVE  Counts' /\ \A i \in Items : Measured(i)'
<1> USE DEF MInv, IInv, Typed, Settled, Measured, Counts, Stages
<1>1. CASE Cancel \/ UNCHANGED vars
  BY <1>1 DEF Cancel, vars, throttle, process
<1>2. ASSUME NEW i \in Items,
             TakeJob(i) \/ Begin(i) \/ Exited(i) \/ Kill(i) \/ Reap(i) \/ ReadResult(i) \/ Report(i)
      PROVE  Counts' /\ \A j \in Items : Measured(j)'
  <2>1. peak' = peak /\ promised' = promised /\ resident' = resident
    BY <1>2 DEF TakeJob, Begin, Exited, Kill, Reap, ReadResult, Report, throttle, process
  <2> QED
    BY <1>2, <2>1, ChildrenAssumption
       DEF TakeJob, Begin, Exited, Kill, Reap, ReadResult, Report, throttle, process, Reserved, Reserving
<1>3. ASSUME NEW i \in Items, Admit(i)
      PROVE  Counts' /\ \A j \in Items : Measured(j)'
  <2>1. ChildBudget \in Nat
    BY BudgetBounds
  <2> QED
    BY <1>3, <2>1, ChildrenAssumption DEF Admit, throttle, process, Unmeasured
<1>4. ASSUME NEW i \in Items, Release(i)
      PROVE  Counts' /\ \A j \in Items : Measured(j)'
  <2>1. throttled => peak' \in Nat
    <3> SUFFICES ASSUME throttled PROVE peak' \in Nat
      OBVIOUS
    <3>1. resident[i] \in Nat /\ peak' = Max({peak, resident[i]})
      BY <1>4 DEF Release, HigherPeak, Reserved, Reserving
    <3>2. PICK n \in Nat : n = peak + resident[i]
      BY <3>1
    <3>3. \A x \in {peak, resident[i]} : x \in Nat /\ x <= n
      BY <3>1, <3>2
    <3>4. Max({peak, resident[i]}) \in {peak, resident[i]}
      BY <3>3, MaxOfBounded
    <3> QED
      BY <3>1, <3>3, <3>4
  <2> QED
    BY <1>4, <2>1 DEF Release, process
<1>5. ASSUME NEW i \in Items, Observe(i)
      PROVE  Counts' /\ \A j \in Items : Measured(j)'
  BY <1>5 DEF Observe, process
<1>6. ASSUME NEW i \in Items, Grow(i) \/ WriteResult(i) \/ ChildEnds(i)
      PROVE  Counts' /\ \A j \in Items : Measured(j)'
  <2>1. peak' = peak /\ promised' = promised /\ resident' = resident
          /\ stage' = stage /\ throttled' = throttled
    BY <1>6 DEF Grow, WriteResult, ChildEnds, Apart, throttle
  <2>2. Counts'
    BY <2>1
  <2>3. CASE Grow(i)
    BY <2>1, <2>2, <2>3, ChildrenAssumption DEF Grow, Alive, Reserved, Reserving
  <2>4. CASE WriteResult(i)
    BY <2>1, <2>2, <2>4 DEF WriteResult
  <2>5. CASE ChildEnds(i)
    BY <2>1, <2>2, <2>5, ChildrenAssumption DEF ChildEnds, Alive
  <2> QED
    BY <1>6, <2>3, <2>4, <2>5
<1> QED
  BY <1>1, <1>2, <1>3, <1>4, <1>5, <1>6 DEF Next, WorkerStep, Done

LEMMA BackedKept ==
  ASSUME MInv, Next
  PROVE  Backed'
<1>0. throttled' = throttled
  BY DEF Next, WorkerStep, TakeJob, Admit, Begin, Exited, Kill, Reap, ReadResult, Release, Report,
         Observe, Grow, WriteResult, ChildEnds, Apart, Cancel, Done, vars
<1> SUFFICES ASSUME throttled PROVE Backed'
  BY <1>0 DEF Backed
<1> USE DEF MInv, IInv, Typed, Settled, Stages
<1>1. CASE Cancel \/ UNCHANGED vars
  BY <1>1, ShrinkBacked DEF Cancel, vars, throttle, process, Resident, Slots
<1>2. ASSUME NEW i \in Items,
             TakeJob(i) \/ Begin(i) \/ Exited(i) \/ Kill(i) \/ Reap(i) \/ ReadResult(i) \/ Report(i)
      PROVE  Backed'
  <2>1. promised' = promised /\ Resident' = Resident
    <3>1. promised' = promised /\ resident' = resident
      BY <1>2 DEF TakeJob, Begin, Exited, Kill, Reap, ReadResult, Report, throttle
    <3> QED
      BY <3>1 DEF Resident
  <2>2. Slots' \subseteq Slots
    BY <1>2 DEF TakeJob, Begin, Exited, Kill, Reap, ReadResult, Report, throttle, process, Slots
  <2> QED
    BY <1>0, <2>1, <2>2, ShrinkBacked
<1>3. ASSUME NEW i \in Items, Admit(i)
      PROVE  Backed'
  <2>1. CASE cancelled
    <3>1. promised' = promised /\ Resident' = Resident /\ Slots' \subseteq Slots
      BY <1>3, <2>1 DEF Admit, throttle, process, Resident, Slots
    <3> QED
      BY <1>0, <3>1, ShrinkBacked
  <2>2. CASE ~cancelled /\ Resident = {}
    <3>1. Resident' \subseteq {i}
      BY <1>3, <2>2 DEF Admit, Resident
    <3>2. Cardinality(Resident') \in Nat /\ Cardinality(Resident') <= 1
      <4>1. IsFiniteSet({i}) /\ Cardinality({i}) = 1
        BY FS_Singleton
      <4> QED
        BY <3>1, <4>1, FS_Subset, FS_CardinalityType
    <3> QED
      BY <3>2 DEF Backed
  <2>3. CASE ~cancelled /\ Resident # {}
    <3>1. Slots' \subseteq Slots \cup {i}
      BY <1>3 DEF Admit, process, Slots
    <3>2. promised' = None \/ (Fits /\ promised' = ChildBudget)
      BY <1>3, <2>3 DEF Admit, Alone
    <3>3. CASE promised' = None
      BY <3>3 DEF Backed
    <3>4. CASE Fits /\ promised' = ChildBudget
      BY <3>1, <3>4, FitBacked
    <3> QED
      BY <3>2, <3>3, <3>4
  <2> QED
    BY <2>1, <2>2, <2>3
<1>4. ASSUME NEW i \in Items,
             Release(i) \/ Observe(i) \/ Grow(i) \/ WriteResult(i) \/ ChildEnds(i)
      PROVE  Backed'
  <2>1. promised' = promised /\ Slots' \subseteq Slots
    BY <1>4 DEF Release, Observe, Grow, WriteResult, ChildEnds, Apart, throttle, process, Slots, Alive
  <2>2. Resident' \subseteq Resident
    BY <1>4 DEF Release, Observe, Grow, WriteResult, ChildEnds, Apart, throttle, process, Resident
  <2> QED
    BY <1>0, <2>1, <2>2, ShrinkBacked
<1> QED
  BY <1>1, <1>2, <1>3, <1>4 DEF Next, WorkerStep, Done

LEMMA NextMInv == MInv /\ [Next]_vars => MInv'
<1> SUFFICES ASSUME MInv, [Next]_vars PROVE MInv'
  OBVIOUS
<1>1. IInv'
  BY NextIInv DEF MInv
<1>2. CASE Next
  BY <1>1, <1>2, MeasuredKept, BackedKept DEF MInv
<1>3. CASE UNCHANGED vars
  <2>1. Counts' /\ \A i \in Items : Measured(i)'
    BY <1>3 DEF vars, throttle, process, MInv, Counts, Measured
  <2>2. Backed'
    BY <1>3 DEF vars, throttle, process, MInv, Backed, Resident, Slots
  <2> QED
    BY <1>1, <2>1, <2>2 DEF MInv
<1> QED
  BY <1>2, <1>3

LEMMA MemoryInvariance == Spec => []MInv
<1> QED
  BY InitMInv, NextMInv, PTL DEF Spec

(* While no child has outgrown the budget, what the children have is part  *)
(* of what was set aside for them.                                         *)
LEMMA BackedFloor == MInv => FloorKept
<1> SUFFICES ASSUME MInv, throttled, Cardinality(Resident) >= 2, promised # None,
                    \A i \in Alive : rss[i] <= promised
             PROVE  Available >= Floor
  BY DEF FloorKept
<1>1. promised \in Nat /\ IsFiniteSet(Slots) /\ Cardinality(Held) \in Nat
  BY SetsFinite DEF MInv, Counts
<1>2. Memory - Cardinality(Slots \X (1 .. promised)) >= Floor
  BY DEF MInv, Backed
<1>3. Held \subseteq Slots \X (1 .. promised)
  <2> SUFFICES ASSUME NEW i \in Alive, NEW u \in 1 .. rss[i]
               PROVE  <<i, u>> \in Slots \X (1 .. promised)
    BY DEF Held
  <2>1. i \in Slots /\ rss[i] \in Nat /\ rss[i] <= promised
    BY DEF Alive, Slots, MInv, IInv, Typed
  <2> QED
    BY <1>1, <2>1
<1>4. IsFiniteSet(Slots \X (1 .. promised))
  <2>1. IsFiniteSet(1 .. promised)
    BY <1>1, UpTo
  <2> QED
    BY <1>1, <2>1, FS_Product
<1>5. Cardinality(Held) <= Cardinality(Slots \X (1 .. promised))
        /\ Cardinality(Slots \X (1 .. promised)) \in Nat
  BY <1>3, <1>4, FS_Subset, FS_CardinalityType
<1> QED
  BY <1>1, <1>2, <1>5, ChildrenAssumption DEF Available

(* The floor of free memory is kept whatever the number of workers, the    *)
(* size of the machine and the memory its children take, as long as none   *)
(* takes more than the budget the last admission counted with, because an  *)
(* admission reserves what the children there are may still take           *)
(* (replay_memory.go headroom, childBudget, admit, observe, release).      *)
THEOREM MemoryIsGuarded == Spec => []MemoryGuarded
<1>1. MInv => MemoryGuarded
  <2>1. IInv => ChildrenCounted
    BY DEF IInv, Settled, Reserved, ChildrenCounted, Alive, Resident, Reserving
  <2> QED
    BY <2>1, BackedFloor DEF MInv, MemoryGuarded
<1> QED
  BY <1>1, MemoryInvariance, PTL

------------------------------------------------------------------------------
(* Selective replay. A chain leads from each of its elements up, to nil.   *)
Chain(f) == f \in [DOMAIN f -> DOMAIN f \cup {nil}] /\ nil \notin DOMAIN f

LEMMA AboveClosed ==
  ASSUME NEW f, Chain(f), NEW x \in DOMAIN f
  PROVE  /\ Above(x, f) \subseteq DOMAIN f
         /\ \A z \in Above(x, f) \cup {x} : f[z] # nil => f[z] \in Above(x, f)
BY DEF Above, Chain

LEMMA AboveLeast ==
  ASSUME NEW f, Chain(f), NEW x \in DOMAIN f, NEW T \in SUBSET DOMAIN f,
         \A z \in T \cup {x} : f[z] # nil => f[z] \in T
  PROVE  Above(x, f) \subseteq T
BY DEF Above

LEMMA AboveTop ==
  ASSUME NEW f, Chain(f), NEW x \in DOMAIN f, f[x] = nil
  PROVE  Above(x, f) = {}
<1>1. {} \in SUBSET DOMAIN f /\ \A z \in {} \cup {x} : f[z] # nil => f[z] \in {}
  OBVIOUS
<1>2. Above(x, f) \subseteq {}
  BY <1>1, AboveLeast
<1> QED
  BY <1>2

LEMMA AboveStep ==
  ASSUME NEW f, Chain(f), NEW x \in DOMAIN f, f[x] # nil
  PROVE  Above(x, f) = {f[x]} \cup Above(f[x], f)
<1> DEFINE p == f[x]
<1>1. p \in DOMAIN f
  BY DEF Chain
<1> HIDE DEF p
<1>2. Above(p, f) \subseteq DOMAIN f
        /\ \A z \in Above(p, f) \cup {p} : f[z] # nil => f[z] \in Above(p, f)
  BY <1>1, AboveClosed
<1>3. Above(x, f) \subseteq {p} \cup Above(p, f)
  <2> DEFINE T == {p} \cup Above(p, f)
  <2>1. T \in SUBSET DOMAIN f /\ \A z \in T \cup {x} : f[z] # nil => f[z] \in T
    BY <1>1, <1>2 DEF p
  <2> HIDE DEF T
  <2>2. Above(x, f) \subseteq T
    BY <2>1, AboveLeast
  <2> QED
    BY <2>2 DEF T
<1>4. Above(x, f) \subseteq DOMAIN f
        /\ \A z \in Above(x, f) \cup {x} : f[z] # nil => f[z] \in Above(x, f)
  BY AboveClosed
<1>5. p \in Above(x, f)
  BY <1>4 DEF p
<1>6. Above(p, f) \subseteq Above(x, f)
  BY <1>1, <1>4, <1>5, AboveLeast
<1> QED
  BY <1>3, <1>5, <1>6 DEF p

(* What is above stays when others are added.                              *)
LEMMA AboveStays ==
  ASSUME NEW f, NEW g, Chain(f), Chain(g), DOMAIN f \subseteq DOMAIN g,
         \A d \in DOMAIN f : g[d] = f[d], NEW x \in DOMAIN f
  PROVE  Above(x, g) = Above(x, f)
<1>1. Above(x, f) \subseteq DOMAIN f
        /\ \A z \in Above(x, f) \cup {x} : f[z] # nil => f[z] \in Above(x, f)
  BY AboveClosed
<1>2. Above(x, g) \subseteq Above(x, f)
  BY <1>1, AboveLeast
<1>3. Above(x, g) \subseteq DOMAIN g
        /\ \A z \in Above(x, g) \cup {x} : g[z] # nil => g[z] \in Above(x, g)
  BY AboveClosed
<1> DEFINE T == Above(x, g) \cap DOMAIN f
<1>4. \A z \in T \cup {x} : f[z] # nil => f[z] \in T
  BY <1>3 DEF Chain
<1>5. Above(x, f) \subseteq T
  <2> HIDE DEF T
  <2>1. T \in SUBSET DOMAIN f
    BY DEF T
  <2> QED
    BY <1>4, <2>1, AboveLeast
<1> QED
  BY <1>2, <1>5

------------------------------------------------------------------------------
Call == [parent : Calls \cup {nil}, key : CallKeys, hidden : BOOLEAN]

SelectiveTyped ==
  /\ plan \in Plans /\ accepted = Valid
  /\ DOMAIN live \subseteq Calls /\ live \in [DOMAIN live -> Call]
  /\ node \in [Calls -> Nodes \cup {nil}]
  /\ matching \in [Calls -> Calls]
  /\ consumed \in [Calls -> SUBSET Nodes]
  /\ required \in SUBSET DOMAIN live /\ asserted \in SUBSET DOMAIN live
  /\ action \in [Calls -> {nil, "run", "mock", "blocked"}]

(* The item's own call is the first and has no caller.                     *)
Rooted ==
  /\ DOMAIN live # {} => First \in DOMAIN live /\ accepted /\ live[First].parent = nil
                         /\ node[First] = Root /\ action[First] = "run"
  /\ \A c \in DOMAIN live \ {First} : live[c].parent \in DOMAIN live
  /\ \A c \in Calls \ DOMAIN live : node[c] = nil /\ matching[c] = c

(* The scopes follow the calls, whatever becomes of them in the recording; *)
(* what is replaced is in none, and its span need not run.                 *)
InScopes(c) ==
  /\ live[c].key \in plan.required \/ live[c].parent \in required => c \in required
  /\ live[c].key \in plan.asserted \/ live[c].parent \in asserted \/ plan.fullTrace => c \in asserted
  /\ action[c] = "mock" =>
       c \notin required \cup asserted /\ plan.missing = {} /\ node[c] \in Nodes \ plan.mustRun

(* The call in whose place a call's own are matched: between the two are   *)
(* only hidden calls that were not recorded.                               *)
Through(c) ==
  /\ matching[c] \in {c} \cup Callers(c)
  /\ \A b \in ({c} \cup Callers(c)) \ ({matching[c]} \cup Callers(matching[c])) :
       live[b].hidden /\ node[b] = nil

(* A recorded span that a call stands for is used up for the one that      *)
(* stands for its parent.                                                  *)
UsedOnce(c) ==
  node[c] # nil =>
    /\ node[c] # Root /\ Identity[node[c]] = live[c].key
    /\ \E a \in Callers(c) :
         /\ node[a] = ParentOf[node[c]] /\ node[c] \in consumed[a]
         /\ \A b \in Callers(c) \ ({a} \cup Callers(a)) : live[b].hidden /\ node[b] = nil

SelectiveInv ==
  /\ SelectiveTyped /\ Rooted
  /\ \A c \in DOMAIN live : InScopes(c) /\ Through(c)
  /\ \A c \in DOMAIN live \ {First} : UsedOnce(c)
  /\ \A c \in DOMAIN live, d \in DOMAIN live : c # d /\ node[c] # nil => node[d] # node[c]

Links == [d \in DOMAIN live |-> live[d].parent]

LEMMA LinksChain ==
  ASSUME SelectiveTyped, Rooted
  PROVE  Chain(Links) /\ DOMAIN Links = DOMAIN live /\ \A d \in DOMAIN live : Links[d] = live[d].parent
<1>1. \A d \in DOMAIN live : live[d].parent \in DOMAIN live \cup {nil}
  BY DEF SelectiveTyped, Rooted, Call
<1> QED
  BY <1>1, SelectiveAssumption DEF Chain, Links, SelectiveTyped

LEMMA ParentsChain == Chain(ParentOf) /\ DOMAIN ParentOf = Nodes
BY SelectiveAssumption DEF Chain

------------------------------------------------------------------------------
(* A plan that was accepted lets no span be replaced that is required or   *)
(* asserted, or has such a one above it.                                   *)
LEMMA PlanProtects ==
  ASSUME Valid, plan \in Plans, plan.missing = {}, NEW m \in Nodes \ plan.mustRun,
         NEW n \in Nodes, m \in {n} \cup AncestorsOf(n)
  PROVE  n \notin plan.mustRun /\ Identity[n] \notin plan.required \cup plan.asserted
<1>1. n \in plan.mustRun => AncestorsOf(n) \subseteq plan.mustRun
  BY DEF Valid, AncestorsRun
<1>2. n \notin plan.mustRun
  BY <1>1
<1>3. ~Required(n) /\ ~Asserted(n)
  BY <1>2 DEF Valid
<1> QED
  BY <1>2, <1>3 DEF Required, Asserted

LEMMA InvRequired == SelectiveInv => RequiredStaysLive
<1> SUFFICES ASSUME SelectiveInv, NEW c \in Replaced
             PROVE  /\ \A n \in Nodes : node[c] \in {n} \cup AncestorsOf(n) =>
                         n \notin plan.mustRun /\ Identity[n] \notin plan.required \cup plan.asserted
                    /\ \A d \in {c} \cup Callers(c) : live[d].key \notin plan.required \cup plan.asserted
  BY DEF RequiredStaysLive
<1>1. c \in DOMAIN live /\ action[c] = "mock" /\ InScopes(c)
  BY DEF Replaced, SelectiveInv
<1>2. c \notin required /\ c \notin asserted /\ plan.missing = {} /\ node[c] \in Nodes \ plan.mustRun
  BY <1>1 DEF InScopes
<1>3. accepted /\ plan \in Plans /\ Valid
  BY <1>1 DEF SelectiveInv, Rooted, SelectiveTyped
<1>4. ASSUME NEW n \in Nodes, node[c] \in {n} \cup AncestorsOf(n)
      PROVE  n \notin plan.mustRun /\ Identity[n] \notin plan.required \cup plan.asserted
  BY <1>2, <1>3, <1>4, PlanProtects
<1> DEFINE T == {d \in DOMAIN live : d \notin required /\ d \notin asserted}
<1>5. Chain(Links) /\ DOMAIN Links = DOMAIN live /\ \A d \in DOMAIN live : Links[d] = live[d].parent
  BY LinksChain DEF SelectiveInv
<1>6. \A d \in T \cup {c} : Links[d] # nil => Links[d] \in T
  <2> SUFFICES ASSUME NEW d \in T, live[d].parent # nil PROVE live[d].parent \in T
    BY <1>1, <1>2, <1>5
  <2>1. live[d].parent \notin required /\ live[d].parent \notin asserted
    BY DEF SelectiveInv, InScopes
  <2>2. live[d].parent \in DOMAIN live
    BY DEF SelectiveInv, Rooted
  <2> QED
    BY <2>1, <2>2
<1>7. Callers(c) \subseteq T
  <2>1. T \in SUBSET DOMAIN Links
    BY <1>5
  <2> HIDE DEF T
  <2>2. Above(c, Links) \subseteq T
    BY <1>1, <1>5, <1>6, <2>1, AboveLeast
  <2> QED
    BY <2>2 DEF Callers, Links
<1>8. \A d \in T : live[d].key \notin plan.required \cup plan.asserted
  BY DEF SelectiveInv, InScopes
<1> QED
  BY <1>1, <1>2, <1>4, <1>7, <1>8

LEMMA InvUsedOnce == SelectiveInv => RecordingUsedOnce
BY DEF SelectiveInv, RecordingUsedOnce, UsedOnce

------------------------------------------------------------------------------
LEMMA InitSelective == SelectiveInit => SelectiveInv
<1> SUFFICES ASSUME SelectiveInit PROVE SelectiveInv
  OBVIOUS
<1>1. DOMAIN live = {}
  BY DEF SelectiveInit
<1>2. SelectiveTyped
  BY <1>1 DEF SelectiveInit, SelectiveTyped, Valid
<1>3. Rooted
  BY <1>1 DEF SelectiveInit, Rooted
<1> QED
  BY <1>1, <1>2, <1>3 DEF SelectiveInv

LEMMA FirstCall == First \in Calls
<1>1. MaxCalls \in Nat /\ MaxCalls # 0
  BY SelectiveAssumption
<1> QED
  BY <1>1 DEF First, Calls

LEMMA EnterFirstKeeps ==
  ASSUME SelectiveInv, EnterFirst
  PROVE  SelectiveInv'
<1>1. DOMAIN live = {} /\ accepted /\ First \in Calls /\ SelectiveTyped
  <2>1. First \in Calls
    BY FirstCall
  <2>2. accepted /\ First \notin DOMAIN live
    BY DEF EnterFirst
  <2>3. Rooted /\ SelectiveTyped
    BY DEF SelectiveInv
  <2>4. DOMAIN live = {}
    BY <2>2, <2>3 DEF Rooted
  <2> QED
    BY <2>1, <2>2, <2>3, <2>4
<1>2. PICK key \in CallKeys :
        /\ live' = [c \in {First} |-> [parent |-> nil, key |-> key, hidden |-> FALSE]]
        /\ required' = IF key \in plan.required THEN {First} ELSE {}
        /\ asserted' = IF plan.fullTrace \/ key \in plan.asserted THEN {First} ELSE {}
  BY DEF EnterFirst
<1>3. /\ plan' = plan /\ accepted' = accepted /\ matching' = matching /\ consumed' = consumed
      /\ node' = [node EXCEPT ![First] = Root] /\ action' = [action EXCEPT ![First] = "run"]
  BY DEF EnterFirst
<1>4. DOMAIN live' = {First} /\ live'[First] = [parent |-> nil, key |-> key, hidden |-> FALSE]
  BY <1>2
<1>5. SelectiveTyped'
  <2>1. live' \in [DOMAIN live' -> Call]
    BY <1>2, <1>4 DEF Call
  <2>2. Valid' = Valid
    BY <1>3 DEF Valid, AncestorsRun, Required, Asserted
  <2> QED
    BY <1>1, <1>2, <1>3, <1>4, <2>1, <2>2, SelectiveAssumption DEF SelectiveTyped
<1>6. Rooted'
  <2>1. First \in DOMAIN live' /\ accepted' /\ live'[First].parent = nil
        /\ node'[First] = Root /\ action'[First] = "run"
    BY <1>1, <1>3, <1>4 DEF SelectiveTyped
  <2>2. \A c \in Calls : node[c] = nil /\ matching[c] = c
    BY <1>1 DEF SelectiveInv, Rooted
  <2>3. \A c \in Calls \ DOMAIN live' : node'[c] = nil /\ matching'[c] = c
    BY <1>1, <1>3, <1>4, <2>2 DEF SelectiveTyped
  <2> QED
    BY <1>4, <2>1, <2>3 DEF Rooted
<1>7. InScopes(First)'
  BY <1>1, <1>2, <1>3, <1>4 DEF InScopes, SelectiveTyped
<1>8. Through(First)'
  BY <1>1, <1>3 DEF Through, SelectiveInv, Rooted
<1> QED
  BY <1>4, <1>5, <1>6, <1>7, <1>8 DEF SelectiveInv

(* What a call takes from the recording: a span below the one its caller's *)
(* calls are matched in place of, of its key, that was not used up.        *)
LEMMA Matched ==
  ASSUME NEW parent, NEW key, NEW input, NEW match, NEW n,
         match = Match(Exact(parent, key, input), Candidates(parent, key)),
         n \in IF match = {} THEN {nil} ELSE match, n # nil
  PROVE  /\ n \in UsedUp(match, Candidates(parent, key))
         /\ n \in Nodes /\ Identity[n] = key /\ n \notin consumed[matching[parent]]
         /\ node[matching[parent]] # nil /\ ParentOf[n] = node[matching[parent]]
<1>1. match # {} /\ n \in match
  OBVIOUS
<1>2. match \subseteq Candidates(parent, key)
  BY DEF Match, Exact
<1>3. n \in Candidates(parent, key)
  BY <1>1, <1>2
<1>4. /\ n \in Nodes /\ Identity[n] = key /\ n \notin consumed[matching[parent]]
      /\ node[matching[parent]] # nil /\ ParentOf[n] = node[matching[parent]]
  BY <1>3 DEF Candidates, Children, UsedBy
<1> QED
  BY <1>1, <1>4 DEF UsedUp

LEMMA UsedNodes ==
  ASSUME NEW parent, NEW key, NEW input
  PROVE  UsedUp(Match(Exact(parent, key, input), Candidates(parent, key)), Candidates(parent, key))
           \subseteq Nodes
<1>1. Candidates(parent, key) \subseteq Nodes /\ Exact(parent, key, input) \subseteq Candidates(parent, key)
  BY DEF Candidates, Exact, Children
<1> QED
  BY <1>1 DEF UsedUp, Match

LEMMA CallersOf ==
  ASSUME SelectiveTyped, Rooted, NEW c \in DOMAIN live
  PROVE  Callers(c) \subseteq DOMAIN live
<1>1. Chain(Links) /\ DOMAIN Links = DOMAIN live
  BY LinksChain
<1>2. Above(c, Links) \subseteq DOMAIN Links
  BY <1>1, AboveClosed
<1> QED
  BY <1>1, <1>2 DEF Callers, Links

(* A call that enters changes nobody's callers, and has its caller's with  *)
(* its caller.                                                             *)
LEMMA CallersAdded ==
  ASSUME SelectiveTyped, Rooted, NEW c \in Calls \ DOMAIN live, NEW parent \in DOMAIN live,
         DOMAIN live' = DOMAIN live \cup {c}, live'[c].parent = parent,
         \A d \in DOMAIN live : live'[d] = live[d]
  PROVE  /\ \A d \in DOMAIN live : Callers(d)' = Callers(d)
         /\ Callers(c)' = {parent} \cup Callers(parent)
<1>1. PICK f : f = Links
  OBVIOUS
<1>2. Chain(f) /\ DOMAIN f = DOMAIN live /\ \A d \in DOMAIN live : f[d] = live[d].parent
  BY <1>1, LinksChain
<1>3. PICK g : g = [d \in DOMAIN live' |-> live'[d].parent]
  OBVIOUS
<1>4. DOMAIN g = DOMAIN f \cup {c} /\ g[c] = parent /\ \A d \in DOMAIN f : g[d] = f[d]
  BY <1>2, <1>3
<1>5. nil \notin DOMAIN g
  BY <1>2, <1>4, SelectiveAssumption DEF Chain
<1>6. \A d \in DOMAIN g : g[d] \in DOMAIN g \cup {nil}
  BY <1>2, <1>4 DEF Chain
<1>7. Chain(g)
  <2>1. g = [d \in DOMAIN g |-> g[d]]
    BY <1>3
  <2> QED
    BY <1>5, <1>6, <2>1 DEF Chain
<1>8. \A d \in DOMAIN live : Above(d, g) = Above(d, f)
  BY <1>2, <1>4, <1>7, AboveStays
<1>9. parent # nil
  BY <1>2 DEF Chain
<1>10. Above(c, g) = {parent} \cup Above(parent, g)
  <2>1. c \in DOMAIN g /\ g[c] # nil
    BY <1>4, <1>9
  <2>2. Above(c, g) = {g[c]} \cup Above(g[c], g)
    BY <1>7, <2>1, AboveStep
  <2> QED
    BY <1>4, <2>2
<1>11. \A d : Callers(d) = Above(d, f) /\ Callers(d)' = Above(d, g)
  BY <1>1, <1>3 DEF Callers, Links
<1> QED
  BY <1>8, <1>10, <1>11

LEMMA EnterKeeps ==
  ASSUME SelectiveInv, First \in DOMAIN live, NEW c \in Calls, Enter(c)
  PROVE  SelectiveInv'
<1> SelectiveTyped /\ Rooted
  BY DEF SelectiveInv
<1>1. PICK parent \in {p \in DOMAIN live : action[p] = "run"}, key \in CallKeys, shape \in Shapes :
        LET candidates == Candidates(parent, key)
            match == Match(Exact(parent, key, shape.input), candidates)
            isRequired == InScope(parent, key)
            isAsserted == plan.fullTrace \/ key \in plan.asserted \/ parent \in asserted
        IN \E n \in IF match = {} THEN {nil} ELSE match :
             /\ live' = [d \in DOMAIN live \cup {c} |->
                  IF d = c THEN [parent |-> parent, key |-> key, hidden |-> shape.hidden] ELSE live[d]]
             /\ node' = [node EXCEPT ![c] = n]
             /\ consumed' = [consumed EXCEPT ![UsedBy(parent)] = @ \cup UsedUp(match, candidates)]
             /\ matching' = [matching EXCEPT ![c] = IF n = nil /\ shape.hidden THEN matching[parent] ELSE c]
             /\ required' = IF isRequired THEN required \cup {c} ELSE required
             /\ asserted' = IF isAsserted THEN asserted \cup {c} ELSE asserted
             /\ action' = [action EXCEPT ![c] =
                  Decision(n, isRequired \/ isAsserted \/ plan.missing # {} \/ n \in plan.mustRun, shape)]
  BY DEF Enter
<1>2. PICK candidates : candidates = Candidates(parent, key)
  OBVIOUS
<1>3. PICK match : match = Match(Exact(parent, key, shape.input), candidates)
  OBVIOUS
<1>4. PICK used : used = UsedUp(match, candidates)
  OBVIOUS
<1>5. PICK m : m = matching[parent]
  OBVIOUS
<1>6. PICK isRequired \in BOOLEAN : isRequired <=> key \in plan.required \/ parent \in required
  OBVIOUS
<1>7. PICK isAsserted \in BOOLEAN :
        isAsserted <=> plan.fullTrace \/ key \in plan.asserted \/ parent \in asserted
  OBVIOUS
<1>8. PICK n \in IF match = {} THEN {nil} ELSE match :
        /\ live' = [d \in DOMAIN live \cup {c} |->
             IF d = c THEN [parent |-> parent, key |-> key, hidden |-> shape.hidden] ELSE live[d]]
        /\ node' = [node EXCEPT ![c] = n]
        /\ consumed' = [consumed EXCEPT ![m] = @ \cup used]
        /\ matching' = [matching EXCEPT ![c] = IF n = nil /\ shape.hidden THEN m ELSE c]
        /\ required' = IF isRequired THEN required \cup {c} ELSE required
        /\ asserted' = IF isAsserted THEN asserted \cup {c} ELSE asserted
        /\ action' = [action EXCEPT ![c] =
             Decision(n, isRequired \/ isAsserted \/ plan.missing # {} \/ n \in plan.mustRun, shape)]
  BY <1>1, <1>2, <1>3, <1>4, <1>5, <1>6, <1>7 DEF InScope, UsedBy
<1>9. plan' = plan /\ accepted' = accepted /\ c \notin DOMAIN live /\ c # First /\ parent \in DOMAIN live
  BY <1>1 DEF Enter
<1>10. n = nil \/ (/\ n \in used /\ n \in Nodes /\ Identity[n] = key /\ n \notin consumed[m]
                   /\ node[m] # nil /\ ParentOf[n] = node[m] /\ n # Root)
  <2> SUFFICES ASSUME n # nil
               PROVE  /\ n \in used /\ n \in Nodes /\ Identity[n] = key /\ n \notin consumed[m]
                      /\ node[m] # nil /\ ParentOf[n] = node[m] /\ n # Root
    OBVIOUS
  <2>1. /\ n \in used /\ n \in Nodes /\ Identity[n] = key /\ n \notin consumed[m]
        /\ node[m] # nil /\ ParentOf[n] = node[m]
    BY <1>2, <1>3, <1>4, <1>5, <1>8, Matched
  <2> QED
    BY <2>1, SelectiveAssumption
<1>11. used \subseteq Nodes
  BY <1>2, <1>3, <1>4, UsedNodes
<1>12. /\ DOMAIN live' = DOMAIN live \cup {c}
       /\ live'[c] = [parent |-> parent, key |-> key, hidden |-> shape.hidden]
       /\ \A d \in DOMAIN live : live'[d] = live[d]
  BY <1>8, <1>9
<1>13. /\ node'[c] = n /\ \A d \in Calls \ {c} : node'[d] = node[d]
       /\ matching'[c] = (IF n = nil /\ shape.hidden THEN m ELSE c)
       /\ \A d \in Calls \ {c} : matching'[d] = matching[d]
       /\ \A d \in Calls \ {c} : action'[d] = action[d]
  BY <1>8 DEF SelectiveTyped
<1>14. action'[c] = Decision(n, isRequired \/ isAsserted \/ plan.missing # {} \/ n \in plan.mustRun, shape)
  BY <1>8 DEF SelectiveTyped
<1>15. DOMAIN live \subseteq Calls /\ \A d \in DOMAIN live : Callers(d) \subseteq DOMAIN live
  BY CallersOf DEF SelectiveTyped
<1>16. m \in {parent} \cup Callers(parent) /\ m \in DOMAIN live
       /\ \A b \in ({parent} \cup Callers(parent)) \ ({m} \cup Callers(m)) : live[b].hidden /\ node[b] = nil
  BY <1>5, <1>9, <1>15 DEF SelectiveInv, Through
<1>17. (\A d \in Calls : consumed[d] \subseteq consumed'[d]) /\ used \subseteq consumed'[m]
  BY <1>8, <1>15, <1>16 DEF SelectiveTyped
<1>18. (\A d \in DOMAIN live : Callers(d)' = Callers(d)) /\ Callers(c)' = {parent} \cup Callers(parent)
  BY <1>9, <1>12, CallersAdded
<1>19. SelectiveTyped'
  <2>1. live' \in [DOMAIN live' -> Call]
    <3>1. live'[c] \in Call
      BY <1>9, <1>12, <1>15, SelectiveAssumption DEF Call
    <3>2. \A d \in DOMAIN live : live[d] \in Call
      BY DEF SelectiveTyped
    <3>3. live' = [d \in DOMAIN live' |-> live'[d]]
      BY <1>8
    <3> QED
      BY <1>12, <3>1, <3>2, <3>3
  <2>2. Valid' = Valid
    BY <1>9 DEF Valid, AncestorsRun, Required, Asserted
  <2>3. Decision(n, isRequired \/ isAsserted \/ plan.missing # {} \/ n \in plan.mustRun, shape)
          \in {nil, "run", "mock", "blocked"}
    BY DEF Decision
  <2>4. action' \in [Calls -> {nil, "run", "mock", "blocked"}]
    BY <1>8, <2>3 DEF SelectiveTyped
  <2>5. node' \in [Calls -> Nodes \cup {nil}]
    BY <1>8, <1>10 DEF SelectiveTyped
  <2>6. matching' \in [Calls -> Calls]
    BY <1>8, <1>15, <1>16 DEF SelectiveTyped
  <2>7. consumed' \in [Calls -> SUBSET Nodes]
    BY <1>8, <1>11 DEF SelectiveTyped
  <2>8. DOMAIN live' \subseteq Calls /\ plan' \in Plans /\ accepted' = Valid'
    BY <1>9, <1>12, <2>2 DEF SelectiveTyped
  <2>9. required' \in SUBSET DOMAIN live' /\ asserted' \in SUBSET DOMAIN live'
    BY <1>8, <1>12 DEF SelectiveTyped
  <2> QED
    BY <2>1, <2>4, <2>5, <2>6, <2>7, <2>8, <2>9 DEF SelectiveTyped
<1>20. Rooted'
  <2>1. First \in Calls
    BY FirstCall
  <2>2. First \in DOMAIN live' /\ accepted' /\ live'[First].parent = nil
        /\ node'[First] = Root /\ action'[First] = "run"
    BY <1>9, <1>12, <1>13, <2>1 DEF Rooted
  <2>3. \A d \in DOMAIN live' \ {First} : live'[d].parent \in DOMAIN live'
    BY <1>9, <1>12 DEF Rooted
  <2>4. \A d \in Calls \ DOMAIN live' : node'[d] = nil /\ matching'[d] = d
    BY <1>12, <1>13 DEF Rooted
  <2> QED
    BY <2>2, <2>3, <2>4 DEF Rooted
<1>21. \A d \in DOMAIN live' : InScopes(d)'
  <2>1. ASSUME NEW d \in DOMAIN live PROVE InScopes(d)'
    <3>1. InScopes(d) /\ live'[d] = live[d] /\ action'[d] = action[d] /\ node'[d] = node[d] /\ d # c
      BY <1>9, <1>12, <1>13, <1>15 DEF SelectiveInv
    <3>2. live[d].parent # c
      BY <1>9, SelectiveAssumption DEF Rooted
    <3>3. \A e : e # c => (e \in required' <=> e \in required) /\ (e \in asserted' <=> e \in asserted)
      BY <1>8
    <3> QED
      BY <1>9, <3>1, <3>2, <3>3 DEF InScopes
  <2>2. InScopes(c)'
    <3>1. c \notin required /\ c \notin asserted /\ parent # c
      BY <1>9 DEF SelectiveTyped
    <3>2. (c \in required' <=> isRequired) /\ (c \in asserted' <=> isAsserted)
      BY <1>8, <3>1
    <3>3. (parent \in required' <=> parent \in required) /\ (parent \in asserted' <=> parent \in asserted)
      BY <1>8, <3>1
    <3>4. live'[c].key = key /\ live'[c].parent = parent
      BY <1>12
    <3>5. ASSUME action'[c] = "mock"
          PROVE  ~isRequired /\ ~isAsserted /\ plan.missing = {} /\ n \notin plan.mustRun /\ n # nil
      BY <1>14, <3>5 DEF Decision
    <3> QED
      BY <1>6, <1>7, <1>9, <1>10, <1>13, <3>2, <3>3, <3>4, <3>5 DEF InScopes
  <2> QED
    BY <1>12, <2>1, <2>2
<1>22. \A d \in DOMAIN live' : Through(d)'
  <2>1. ASSUME NEW d \in DOMAIN live PROVE Through(d)'
    <3>1. Through(d) /\ matching'[d] = matching[d] /\ matching[d] \in DOMAIN live
      BY <1>9, <1>13, <1>15 DEF SelectiveInv, Through
    <3>2. Callers(d)' = Callers(d) /\ Callers(matching[d])' = Callers(matching[d])
      BY <1>18, <3>1
    <3>3. \A b \in {d} \cup Callers(d) : live'[b] = live[b] /\ node'[b] = node[b]
      BY <1>9, <1>12, <1>13, <1>15
    <3> QED
      BY <3>1, <3>2, <3>3 DEF Through
  <2>2. Through(c)'
    <3>1. CASE n = nil /\ shape.hidden
      <4>1. matching'[c] = m /\ Callers(m)' = Callers(m)
        BY <1>13, <1>16, <1>18, <3>1
      <4>2. live'[c].hidden /\ node'[c] = nil
        BY <1>12, <1>13, <3>1
      <4>3. \A b \in {parent} \cup Callers(parent) : live'[b] = live[b] /\ node'[b] = node[b]
        BY <1>9, <1>12, <1>13, <1>15
      <4> QED
        BY <1>16, <1>18, <4>1, <4>2, <4>3 DEF Through
    <3>2. CASE ~(n = nil /\ shape.hidden)
      <4>1. matching'[c] = c
        BY <1>13, <3>2
      <4> QED
        BY <4>1 DEF Through
    <3> QED
      BY <3>1, <3>2
  <2> QED
    BY <1>12, <2>1, <2>2
<1>23. \A d \in DOMAIN live' \ {First} : UsedOnce(d)'
  <2>1. ASSUME NEW d \in DOMAIN live \ {First}, node[d] # nil PROVE UsedOnce(d)'
    <3>1. UsedOnce(d) /\ node'[d] = node[d] /\ live'[d] = live[d] /\ Callers(d)' = Callers(d)
      BY <1>9, <1>12, <1>13, <1>15, <1>18 DEF SelectiveInv
    <3>2. PICK a \in Callers(d) :
            /\ node[a] = ParentOf[node[d]] /\ node[d] \in consumed[a]
            /\ \A b \in Callers(d) \ ({a} \cup Callers(a)) : live[b].hidden /\ node[b] = nil
      BY <2>1, <3>1 DEF UsedOnce
    <3>3. \A b \in Callers(d) : b \in DOMAIN live /\ live'[b] = live[b] /\ node'[b] = node[b]
                                /\ Callers(b)' = Callers(b) /\ consumed[b] \subseteq consumed'[b]
      BY <1>9, <1>12, <1>13, <1>15, <1>17, <1>18
    <3>4. /\ node'[a] = ParentOf[node'[d]] /\ node'[d] \in consumed'[a]
          /\ \A b \in Callers(d)' \ ({a} \cup Callers(a)') : live'[b].hidden /\ node'[b] = nil
      BY <3>1, <3>2, <3>3
    <3>5. node'[d] # Root /\ Identity[node'[d]] = live'[d].key
      BY <2>1, <3>1 DEF UsedOnce
    <3> QED
      BY <3>1, <3>4, <3>5 DEF UsedOnce
  <2>2. ASSUME NEW d \in DOMAIN live \ {First}, node[d] = nil PROVE UsedOnce(d)'
    BY <1>9, <1>13, <1>15, <2>2 DEF UsedOnce
  <2>3. UsedOnce(c)'
    <3>1. CASE n = nil
      BY <1>13, <3>1 DEF UsedOnce
    <3>2. CASE n # nil
      <4>1. node'[m] = node[m] /\ Callers(m)' = Callers(m) /\ m \in Callers(c)'
        BY <1>9, <1>13, <1>15, <1>16, <1>18
      <4>2. node'[m] = ParentOf[n] /\ n \in consumed'[m]
        BY <1>10, <1>17, <3>2, <4>1
      <4>3. \A b \in {parent} \cup Callers(parent) : live'[b] = live[b] /\ node'[b] = node[b]
        BY <1>9, <1>12, <1>13, <1>15
      <4>4. \A b \in Callers(c)' \ ({m} \cup Callers(m)') : live'[b].hidden /\ node'[b] = nil
        BY <1>16, <1>18, <4>1, <4>3
      <4>5. n # Root /\ Identity[n] = live'[c].key
        BY <1>10, <1>12, <3>2
      <4> QED
        BY <1>13, <4>1, <4>2, <4>4, <4>5 DEF UsedOnce
    <3> QED
      BY <3>1, <3>2
  <2> QED
    BY <1>12, <2>1, <2>2, <2>3
<1>24. \A d \in DOMAIN live', e \in DOMAIN live' : d # e /\ node'[d] # nil => node'[e] # node'[d]
  <2>1. ASSUME NEW d \in DOMAIN live, n # nil PROVE node[d] # n
    <3>1. CASE d = First
      BY <1>10, <2>1, <3>1 DEF Rooted
    <3>2. CASE d # First
      <4> SUFFICES ASSUME node[d] = n PROVE FALSE
        OBVIOUS
      <4>1. PICK a \in Callers(d) : node[a] = ParentOf[n] /\ n \in consumed[a]
        BY <2>1, <3>2 DEF SelectiveInv, UsedOnce
      <4>2. a \in DOMAIN live /\ node[a] = node[m] /\ node[m] # nil
        BY <1>10, <1>15, <2>1, <4>1
      <4>3. a = m
        BY <1>16, <4>2 DEF SelectiveInv
      <4> QED
        BY <1>10, <2>1, <4>1, <4>3
    <3> QED
      BY <3>1, <3>2
  <2>2. \A d \in DOMAIN live : node'[d] = node[d]
    BY <1>9, <1>13, <1>15
  <2>3. \A d \in DOMAIN live, e \in DOMAIN live : d # e /\ node[d] # nil => node[e] # node[d]
    BY DEF SelectiveInv
  <2> QED
    BY <1>12, <1>13, <2>1, <2>2, <2>3
<1> QED
  BY <1>19, <1>20, <1>21, <1>22, <1>23, <1>24 DEF SelectiveInv

LEMMA NextSelective == SelectiveInv /\ [SelectiveNext]_selectiveVars => SelectiveInv'
<1> SUFFICES ASSUME SelectiveInv, [SelectiveNext]_selectiveVars PROVE SelectiveInv'
  OBVIOUS
<1>1. CASE EnterFirst
  BY <1>1, EnterFirstKeeps
<1>2. ASSUME NEW c \in Calls, First \in DOMAIN live, Enter(c) PROVE SelectiveInv'
  BY <1>2, EnterKeeps
<1>3. CASE UNCHANGED selectiveVars
  <2> USE <1>3 DEF selectiveVars
  <2>1. SelectiveTyped'
    <3>1. Valid' = Valid
      BY DEF Valid, AncestorsRun, Required, Asserted
    <3> QED
      BY <3>1 DEF SelectiveInv, SelectiveTyped
  <2>2. Rooted'
    BY DEF SelectiveInv, Rooted
  <2>3. \A c \in DOMAIN live' : InScopes(c)'
    BY DEF SelectiveInv, InScopes
  <2>4. \A c : Callers(c)' = Callers(c)
    BY DEF Callers
  <2>5. \A c \in DOMAIN live' : Through(c)'
    BY <2>4 DEF SelectiveInv, Through
  <2>6. \A c \in DOMAIN live' \ {First} : UsedOnce(c)'
    BY <2>4 DEF SelectiveInv, UsedOnce
  <2> QED
    BY <2>1, <2>2, <2>3, <2>5, <2>6 DEF SelectiveInv
<1> QED
  BY <1>1, <1>2, <1>3 DEF SelectiveNext

(* Whatever the recording, the plan and the order of the calls: what is    *)
(* required or asserted runs, and so does what is above it, and a recorded *)
(* span stands for one call at most, in its place (selective_replay.go,    *)
(* newSelectiveRuntime and enter).                                         *)
THEOREM SelectiveIsExact == SelectiveSpec => []SelectiveExact
<1>1. SelectiveInv => SelectiveExact
  BY InvRequired, InvUsedOnce DEF SelectiveExact
<1> QED
  BY <1>1, InitSelective, NextSelective, PTL DEF SelectiveSpec

------------------------------------------------------------------------------
(* Recorded outputs, of ReplayMocks: the types.                            *)
Kinds == {"no", "flat", "resolver", "panics"}
MocksTyped ==
  /\ strategy \in {"none", "all", "marked"} /\ overrides \in [Keys -> Kinds]
  /\ tree \in {"unread", "nil", "empty", "read", "failed"} /\ present \in SUBSET Spans
  /\ counters \in [Keys -> Nat] /\ entered \in [Keys -> Seq(NodeCalls)]
  /\ index \in [NodeCalls -> Nat]
  /\ call \in [NodeCalls -> {"new", "entered", "asking", "ran", "mocked", "failed"}]
  /\ ask \in [NodeCalls -> [Asks -> {"no", "wants", "leads", "waits", "value", "error"}]]
  /\ cache \in [Spans -> {"none", "fetching", "value", "error"}]
  /\ fetches \in [Spans -> Nat] /\ expired \in BOOLEAN

(* The calls of a key are numbered as they entered.                        *)
NumberedInTurn ==
  /\ \A k \in Keys : counters[k] = Len(entered[k])
  /\ \A k \in Keys : \A i \in DOMAIN entered[k] :
       /\ index[entered[k][i]] = i - 1
       /\ KeyOf[entered[k][i]] = k /\ call[entered[k][i]] # "new"

(* What has been decided: a call asks once it is known to have a           *)
(* recording, and only then what is substituted is the recorded output.    *)
DecidedOnce ==
  /\ tree = "unread" => \A c \in NodeCalls : call[c] = "new"
  /\ \A c \in NodeCalls : call[c] \in {"new", "entered"} => \A a \in Asks : ask[c][a] = "no"
  /\ \A c \in NodeCalls : \A a \in Asks : ask[c][a] \notin {"no", "error"} => Recorded(c)
  /\ \A c \in NodeCalls :
       overrides[KeyOf[c]] = "no" /\ call[c] \in {"asking", "mocked"} => Selected(c) /\ Recorded(c)
  /\ \A c \in NodeCalls :
       overrides[KeyOf[c]] = "no" /\ call[c] = "mocked" => ask[c][1] = "value"

(* One request fetches an output, while the cache says so; what the cache  *)
(* says then does not change.                                              *)
Lead(c, a) == ask[c][a] = "leads"
FetchedByOne ==
  /\ \A c \in NodeCalls, a \in Asks :
       Lead(c, a) => Recording(c) \notin present /\ cache[Recording(c)] = "fetching"
  /\ \A c, d \in NodeCalls, a, b \in Asks :
       Lead(c, a) /\ Lead(d, b) /\ Recording(c) = Recording(d) => c = d /\ a = b
  /\ \A s \in Spans : cache[s] = "fetching" =>
       \E c \in NodeCalls, a \in Asks : Lead(c, a) /\ Recording(c) = s
  /\ \A s \in Spans : fetches[s] <= 1 /\ (cache[s] = "none" => fetches[s] = 0)

(* What a request has been told is what the tree or the cache says.        *)
ToldTrue ==
  \A c \in NodeCalls, a \in Asks :
    /\ ask[c][a] = "waits" => Recording(c) \notin present /\ cache[Recording(c)] # "none"
    /\ ask[c][a] = "value" => Recording(c) \in present \/ cache[Recording(c)] = "value"
    /\ ask[c][a] = "error" =>
         \/ expired \/ ~Recorded(c)
         \/ Recording(c) \notin present /\ cache[Recording(c)] = "error"

MocksInv == MocksTyped /\ NumberedInTurn /\ DecidedOnce /\ FetchedByOne /\ ToldTrue

------------------------------------------------------------------------------
(* A recording is a recorded span.                                         *)
LEMMA RecordingIsSpan ==
  ASSUME MocksTyped, NEW c \in NodeCalls, Recorded(c)
  PROVE  Recording(c) \in Spans
<1>1. KeyOf[c] \in Keys
  BY DEF Keys
<1>2. PICK s : s = Occurrences(KeyOf[c])
  OBVIOUS
<1>3. s \in Seq(Spans)
  BY <1>1, <1>2, MocksAssumption
<1>4. index[c] \in Nat /\ index[c] < Len(s)
  BY <1>2 DEF MocksTyped, Recorded
<1>5. index[c] + 1 \in 1 .. Len(s)
  BY <1>3, <1>4
<1>6. s[index[c] + 1] \in Spans
  BY <1>3, <1>5
<1> QED
  BY <1>2, <1>6 DEF Recording

LEMMA MocksStart ==
  MocksInit => MocksInv
<1> SUFFICES ASSUME MocksInit PROVE MocksInv
  OBVIOUS
<1>1. overrides \in [Keys -> Kinds]
  BY MocksAssumption DEF MocksInit, Kinds
<1>2. MocksTyped
  <2>1. counters \in [Keys -> Nat] /\ index \in [NodeCalls -> Nat] /\ fetches \in [Spans -> Nat]
    BY DEF MocksInit
  <2>2. entered \in [Keys -> Seq(NodeCalls)]
    BY DEF MocksInit
  <2>3. /\ ask \in [NodeCalls -> [Asks -> {"no", "wants", "leads", "waits", "value", "error"}]]
        /\ cache \in [Spans -> {"none", "fetching", "value", "error"}]
        /\ call \in [NodeCalls -> {"new", "entered", "asking", "ran", "mocked", "failed"}]
    BY DEF MocksInit
  <2>4. /\ strategy \in {"none", "all", "marked"} /\ present \in SUBSET Spans /\ expired \in BOOLEAN
        /\ tree \in {"unread", "nil", "empty", "read", "failed"}
    BY DEF MocksInit
  <2> QED
    BY <1>1, <2>1, <2>2, <2>3, <2>4 DEF MocksTyped
<1>3. NumberedInTurn
  BY DEF MocksInit, NumberedInTurn
<1>4. DecidedOnce
  BY DEF MocksInit, DecidedOnce
<1>5. FetchedByOne
  BY DEF MocksInit, FetchedByOne, Lead
<1>6. ToldTrue
  BY DEF MocksInit, ToldTrue
<1> QED
  BY <1>2, <1>3, <1>4, <1>5, <1>6 DEF MocksInv

(* Before the tree is read no call has entered.                            *)
LEMMA PrepareKeeps ==
  ASSUME MocksInv, Prepare
  PROVE  MocksInv'
<1>1. /\ tree = "unread" /\ tree' \in {"nil", "empty", "read", "failed"}
      /\ UNCHANGED <<strategy, overrides, counters, entered, index, call, ask, cache, fetches, expired>>
  BY DEF Prepare, MayPrepare
<1>2. present' \in SUBSET Spans
  BY MocksAssumption DEF Prepare, MocksInv, MocksTyped
<1>3. \A c \in NodeCalls : call[c] = "new" /\ \A a \in Asks : ask[c][a] = "no"
  BY <1>1 DEF MocksInv, DecidedOnce
<1>4. MocksTyped'
  BY <1>1, <1>2 DEF MocksInv, MocksTyped
<1>5. NumberedInTurn'
  BY <1>1 DEF MocksInv, NumberedInTurn
<1>6. DecidedOnce'
  BY <1>1, <1>3 DEF DecidedOnce
<1>7. \A s \in Spans : cache[s] # "fetching"
  BY <1>3 DEF MocksInv, FetchedByOne, Lead
<1>8. FetchedByOne'
  BY <1>1, <1>3, <1>7 DEF MocksInv, FetchedByOne, Lead
<1>9. ToldTrue'
  BY <1>1, <1>3 DEF ToldTrue
<1> QED
  BY <1>4, <1>5, <1>6, <1>8, <1>9 DEF MocksInv

(* What depends on the requests stays when these, the tree and the numbers *)
(* of the calls that have made some do.                                    *)
LEMMA RequestsStay ==
  ASSUME MocksInv, UNCHANGED <<tree, present, ask, cache, fetches>>, expired => expired',
         \A d \in NodeCalls : index'[d] = index[d] \/ \A a \in Asks : ask[d][a] = "no"
  PROVE  FetchedByOne' /\ ToldTrue'
<1>1. ASSUME NEW d \in NodeCalls, NEW a \in Asks, ask[d][a] # "no"
      PROVE  Recording(d)' = Recording(d) /\ Recorded(d)' = Recorded(d)
  BY <1>1 DEF Recording, Recorded
<1>2. \A d \in NodeCalls, a \in Asks : Lead(d, a)' = Lead(d, a)
  BY DEF Lead
<1>3. \A d \in NodeCalls, a \in Asks : Lead(d, a) => Recording(d)' = Recording(d)
  BY <1>1 DEF Lead
<1>4. FetchedByOne'
  <2>1. (\A c \in NodeCalls, a \in Asks :
           Lead(c, a) => Recording(c) \notin present /\ cache[Recording(c)] = "fetching")'
    BY <1>2, <1>3 DEF MocksInv, FetchedByOne
  <2>2. (\A c, d \in NodeCalls, a, b \in Asks :
           Lead(c, a) /\ Lead(d, b) /\ Recording(c) = Recording(d) => c = d /\ a = b)'
    BY <1>2, <1>3 DEF MocksInv, FetchedByOne
  <2>3. (\A s \in Spans : cache[s] = "fetching" =>
           \E c \in NodeCalls, a \in Asks : Lead(c, a) /\ Recording(c) = s)'
    BY <1>2, <1>3 DEF MocksInv, FetchedByOne
  <2>4. (\A s \in Spans : fetches[s] <= 1 /\ (cache[s] = "none" => fetches[s] = 0))'
    BY DEF MocksInv, FetchedByOne
  <2> QED
    BY <2>1, <2>2, <2>3, <2>4 DEF FetchedByOne
<1>5. ToldTrue'
  BY <1>1 DEF MocksInv, ToldTrue
<1> QED
  BY <1>4, <1>5

LEMMA NumberKeeps ==
  ASSUME MocksInv, NEW c \in NodeCalls, Number(c)
  PROVE  MocksInv'
<1>1. /\ call[c] = "new" /\ tree # "unread"
      /\ UNCHANGED <<strategy, overrides, tree, present, ask, cache, fetches, expired>>
  BY DEF Number, MayNumber
<1>2. \A a \in Asks : ask[c][a] = "no"
  BY <1>1 DEF MocksInv, DecidedOnce
<1>3. \A d \in NodeCalls : d # c => call'[d] = call[d] /\ index'[d] = index[d]
  BY DEF Number, MocksInv, MocksTyped
<1>4. call'[c] \in {"ran", "entered"}
  BY DEF Number, MocksInv, MocksTyped
<1>5. FetchedByOne' /\ ToldTrue'
  <2>1. \A d \in NodeCalls : index'[d] = index[d] \/ \A a \in Asks : ask[d][a] = "no"
    BY <1>2, <1>3
  <2> QED
    BY <1>1, <2>1, RequestsStay
<1>6. DecidedOnce'
  <2>1. \A d \in NodeCalls : d # c => Recorded(d)' = Recorded(d) /\ Selected(d)' = Selected(d)
    BY <1>1, <1>3 DEF Recorded, Selected
  <2> QED
    BY <1>1, <1>2, <1>3, <1>4, <2>1 DEF MocksInv, DecidedOnce
<1>7. CASE tree = "nil"
  <2>1. UNCHANGED <<counters, entered, index>> /\ call' = [call EXCEPT ![c] = "ran"]
    BY <1>7 DEF Number
  <2>2. MocksTyped'
    BY <1>1, <2>1 DEF MocksInv, MocksTyped
  <2>3. NumberedInTurn'
    <3>1. \A d \in NodeCalls : call[d] # "new" => call'[d] # "new"
      BY <1>1, <1>3
    <3>2. \A k \in Keys : \A i \in DOMAIN entered[k] : entered[k][i] \in NodeCalls
      BY DEF MocksInv, MocksTyped
    <3> QED
      BY <2>1, <3>1, <3>2 DEF MocksInv, NumberedInTurn
  <2> QED
    BY <1>5, <1>6, <2>2, <2>3 DEF MocksInv
<1>8. CASE tree # "nil"
  <2> DEFINE key == KeyOf[c]
  <2>1. /\ call' = [call EXCEPT ![c] = "entered"]
        /\ index' = [index EXCEPT ![c] = counters[key]]
        /\ counters' = [counters EXCEPT ![key] = @ + 1]
        /\ entered' = [entered EXCEPT ![key] = Append(@, c)]
    BY <1>8 DEF Number, Counted
  <2>2. key \in Keys
    BY DEF Keys
  <2>3. counters[key] \in Nat /\ entered[key] \in Seq(NodeCalls) /\ counters[key] = Len(entered[key])
    BY <2>2 DEF MocksInv, MocksTyped, NumberedInTurn
  <2>4. Append(entered[key], c) \in Seq(NodeCalls)
    BY <2>3
  <2>5. MocksTyped'
    <3>1. call' \in [NodeCalls -> {"new", "entered", "asking", "ran", "mocked", "failed"}]
      BY <2>1 DEF MocksInv, MocksTyped
    <3>2. index' \in [NodeCalls -> Nat]
      BY <2>1, <2>3 DEF MocksInv, MocksTyped
    <3>3. counters' \in [Keys -> Nat]
      <4>1. PICK n : n = counters[key] + 1
        OBVIOUS
      <4>2. n \in Nat
        BY <2>3, <4>1
      <4>3. counters' = [counters EXCEPT ![key] = n]
        BY <2>1, <4>1
      <4> QED
        BY <4>2, <4>3 DEF MocksInv, MocksTyped
    <3>4. entered' \in [Keys -> Seq(NodeCalls)]
      BY <2>1, <2>4 DEF MocksInv, MocksTyped
    <3> QED
      BY <1>1, <3>1, <3>2, <3>3, <3>4 DEF MocksInv, MocksTyped
  <2>6. \A k \in Keys : k # key => entered'[k] = entered[k] /\ counters'[k] = counters[k]
    BY <2>1 DEF MocksInv, MocksTyped
  <2>7. entered'[key] = Append(entered[key], c) /\ counters'[key] = counters[key] + 1
    BY <2>1, <2>2 DEF MocksInv, MocksTyped
  <2>8. index'[c] = counters[key] /\ call'[c] = "entered"
    BY <2>1 DEF MocksInv, MocksTyped
  <2> HIDE DEF key
  <2>9. ASSUME NEW k \in Keys, NEW i \in DOMAIN entered[k]
        PROVE  /\ index'[entered[k][i]] = i - 1
               /\ KeyOf[entered[k][i]] = k /\ call'[entered[k][i]] # "new"
    <3>1. index[entered[k][i]] = i - 1 /\ KeyOf[entered[k][i]] = k /\ call[entered[k][i]] # "new"
      BY DEF MocksInv, NumberedInTurn
    <3>2. entered[k][i] \in NodeCalls /\ entered[k][i] # c
      BY <1>1, <3>1 DEF MocksInv, MocksTyped
    <3> QED
      BY <1>3, <3>1, <3>2
  <2>10. ASSUME NEW i \in DOMAIN entered'[key]
         PROVE  /\ index'[entered'[key][i]] = i - 1
                /\ KeyOf[entered'[key][i]] = key /\ call'[entered'[key][i]] # "new"
    <3>1. PICK s : s = entered[key]
      OBVIOUS
    <3>2. s \in Seq(NodeCalls) /\ entered'[key] = Append(s, c)
      BY <2>3, <2>7, <3>1
    <3>3. i \in 1 .. Len(s) + 1 /\ Len(s) \in Nat
      BY <3>2
    <3>4. CASE i = Len(s) + 1
      <4>1. entered'[key][i] = c
        BY <3>2, <3>4
      <4>2. index'[c] = i - 1
        BY <2>3, <2>8, <3>1, <3>3, <3>4
      <4> QED
        BY <2>8, <4>1, <4>2 DEF key
    <3>5. CASE i # Len(s) + 1
      <4>1. i \in 1 .. Len(s) /\ DOMAIN s = 1 .. Len(s)
        BY <3>2, <3>3, <3>5
      <4>2. entered'[key][i] = s[i]
        BY <3>2, <4>1
      <4> QED
        BY <2>2, <2>9, <3>1, <4>1, <4>2
    <3> QED
      BY <3>4, <3>5
  <2>11. ASSUME NEW k \in Keys PROVE counters'[k] = Len(entered'[k])
    <3>1. counters[k] = Len(entered[k])
      BY DEF MocksInv, NumberedInTurn
    <3>2. CASE k = key
      <4>1. Len(Append(entered[key], c)) = Len(entered[key]) + 1
        BY <2>3
      <4> QED
        BY <2>7, <3>1, <3>2, <4>1
    <3>3. CASE k # key
      BY <2>6, <3>1, <3>3
    <3> QED
      BY <3>2, <3>3
  <2>12. ASSUME NEW k \in Keys, NEW i \in DOMAIN entered'[k]
         PROVE  /\ index'[entered'[k][i]] = i - 1
                /\ KeyOf[entered'[k][i]] = k /\ call'[entered'[k][i]] # "new"
    <3>1. CASE k = key
      BY <2>10, <3>1
    <3>2. CASE k # key
      <4>1. entered'[k] = entered[k]
        BY <2>6, <3>2
      <4> QED
        BY <2>9, <4>1
    <3> QED
      BY <3>1, <3>2
  <2>13. NumberedInTurn'
    BY <2>11, <2>12 DEF NumberedInTurn
  <2> QED
    BY <1>5, <1>6, <2>5, <2>13 DEF MocksInv
<1> QED
  BY <1>7, <1>8

(* Only what a call is to be changes, for one that has entered.            *)
LEMMA CallMoves ==
  ASSUME MocksInv, NEW c \in NodeCalls, call[c] # "new",
         NEW to \in {"asking", "ran", "mocked", "failed"}, call' = [call EXCEPT ![c] = to],
         UNCHANGED <<strategy, overrides, tree, present, counters, entered, index, cache, fetches, expired>>
  PROVE  /\ NumberedInTurn' /\ tree # "unread"
         /\ call' \in [NodeCalls -> {"new", "entered", "asking", "ran", "mocked", "failed"}]
         /\ call'[c] = to /\ \A d \in NodeCalls : d # c => call'[d] = call[d]
         /\ \A d \in NodeCalls : /\ Recorded(d)' = Recorded(d) /\ Recording(d)' = Recording(d)
                                 /\ Selected(d)' = Selected(d)
<1>1. call'[c] = to /\ \A d \in NodeCalls : d # c => call'[d] = call[d]
  BY DEF MocksInv, MocksTyped
<1>2. \A d \in NodeCalls : call[d] # "new" => call'[d] # "new"
  BY <1>1
<1>3. \A k \in Keys : \A i \in DOMAIN entered[k] : entered[k][i] \in NodeCalls
  BY DEF MocksInv, MocksTyped
<1>4. NumberedInTurn'
  BY <1>2, <1>3 DEF MocksInv, NumberedInTurn
<1>5. tree # "unread"
  BY DEF MocksInv, DecidedOnce
<1>6. call' \in [NodeCalls -> {"new", "entered", "asking", "ran", "mocked", "failed"}]
  BY DEF MocksInv, MocksTyped
<1>7. \A d \in NodeCalls : /\ Recorded(d)' = Recorded(d) /\ Recording(d)' = Recording(d)
                           /\ Selected(d)' = Selected(d)
  BY DEF Recorded, Recording, Selected
<1> QED
  BY <1>1, <1>4, <1>5, <1>6, <1>7

LEMMA ResolveKeeps ==
  ASSUME MocksInv, NEW c \in NodeCalls, Resolve(c)
  PROVE  MocksInv'
<1>1. /\ call[c] = "entered"
      /\ UNCHANGED <<strategy, overrides, tree, present, counters, entered, index, cache, fetches, expired>>
  BY DEF Resolve, MayResolve
<1>2. \A a \in Asks : ask[c][a] = "no"
  BY <1>1 DEF MocksInv, DecidedOnce
<1>3. PICK to \in {"asking", "ran", "mocked", "failed"} :
        /\ call' = [call EXCEPT ![c] = to]
        /\ overrides[KeyOf[c]] = "no" => to # "mocked"
        /\ overrides[KeyOf[c]] = "no" /\ to = "asking" => Selected(c) /\ Recorded(c)
  BY DEF Resolve
<1>4. PICK g \in [Asks -> {"no", "wants", "error"}] :
        /\ ask' = [ask EXCEPT ![c] = g]
        /\ \A a \in Asks : /\ g[a] = "wants" => Recorded(c)
                           /\ g[a] = "error" => ~Recorded(c)
  <2>1. PICK h : h = ask[c]
    OBVIOUS
  <2>2. h \in [Asks -> {"no", "wants", "error"}] /\ \A a \in Asks : h[a] = "no"
    <3>1. h \in [Asks -> {"no", "wants", "leads", "waits", "value", "error"}]
      BY <2>1 DEF MocksInv, MocksTyped
    <3> QED
      BY <1>2, <2>1, <3>1
  <2>3. ask = [ask EXCEPT ![c] = h]
    BY <2>1 DEF MocksInv, MocksTyped
  <2>4. CASE UNCHANGED ask
    BY <2>2, <2>3, <2>4
  <2>5. CASE \E asked \in {{}, {1}, {1, 2}} :
               ask' = [ask EXCEPT ![c] = [a \in Asks |->
                 IF a \notin asked THEN "no" ELSE IF Recorded(c) THEN "wants" ELSE "error"]]
    <3>1. PICK asked \in {{}, {1}, {1, 2}} :
               ask' = [ask EXCEPT ![c] = [a \in Asks |->
                 IF a \notin asked THEN "no" ELSE IF Recorded(c) THEN "wants" ELSE "error"]]
      BY <2>5
    <3>2. PICK g : g = [a \in Asks |->
                 IF a \notin asked THEN "no" ELSE IF Recorded(c) THEN "wants" ELSE "error"]
      OBVIOUS
    <3>3. g \in [Asks -> {"no", "wants", "error"}]
          /\ \A a \in Asks : (g[a] = "wants" => Recorded(c)) /\ (g[a] = "error" => ~Recorded(c))
      BY <3>2
    <3> QED
      BY <3>1, <3>2, <3>3
  <2>6. CASE Recorded(c) /\ ask' = [ask EXCEPT ![c][1] = "wants"]
    <3>1. PICK g : g = [h EXCEPT ![1] = "wants"]
      OBVIOUS
    <3>2. g \in [Asks -> {"no", "wants", "error"}] /\ \A a \in Asks : g[a] # "error"
      BY <2>2, <3>1 DEF Asks
    <3>3. ask' = [ask EXCEPT ![c] = g]
      BY <2>1, <2>6, <3>1
    <3> QED
      BY <2>6, <3>2, <3>3
  <2> QED
    BY <2>4, <2>5, <2>6 DEF Resolve
<1>5. /\ NumberedInTurn' /\ tree # "unread"
      /\ call' \in [NodeCalls -> {"new", "entered", "asking", "ran", "mocked", "failed"}]
      /\ call'[c] = to /\ \A d \in NodeCalls : d # c => call'[d] = call[d]
      /\ \A d \in NodeCalls : /\ Recorded(d)' = Recorded(d) /\ Recording(d)' = Recording(d)
                              /\ Selected(d)' = Selected(d)
  BY <1>1, <1>3, CallMoves
<1>6. ask'[c] = g /\ \A d \in NodeCalls : d # c => ask'[d] = ask[d]
  BY <1>4 DEF MocksInv, MocksTyped
<1>7. MocksTyped'
  <2>1. g \in [Asks -> {"no", "wants", "leads", "waits", "value", "error"}]
    BY <1>4
  <2>2. ask' \in [NodeCalls -> [Asks -> {"no", "wants", "leads", "waits", "value", "error"}]]
    BY <1>4, <2>1 DEF MocksInv, MocksTyped
  <2> QED
    BY <1>1, <1>5, <2>2 DEF MocksInv, MocksTyped
<1>8. DecidedOnce'
  <2>1. (tree = "unread" => \A d \in NodeCalls : call[d] = "new")'
    BY <1>1, <1>5
  <2>2. (\A d \in NodeCalls : call[d] \in {"new", "entered"} => \A a \in Asks : ask[d][a] = "no")'
    BY <1>5, <1>6 DEF MocksInv, DecidedOnce
  <2>3. (\A d \in NodeCalls : \A a \in Asks : ask[d][a] \notin {"no", "error"} => Recorded(d))'
    BY <1>4, <1>5, <1>6 DEF MocksInv, DecidedOnce
  <2>4. (\A d \in NodeCalls :
           overrides[KeyOf[d]] = "no" /\ call[d] \in {"asking", "mocked"} => Selected(d) /\ Recorded(d))'
    BY <1>1, <1>3, <1>5 DEF MocksInv, DecidedOnce
  <2>5. (\A d \in NodeCalls :
           overrides[KeyOf[d]] = "no" /\ call[d] = "mocked" => ask[d][1] = "value")'
    BY <1>1, <1>3, <1>5, <1>6 DEF MocksInv, DecidedOnce
  <2> QED
    BY <2>1, <2>2, <2>3, <2>4, <2>5 DEF DecidedOnce
<1>9. \A d \in NodeCalls, a \in Asks : Lead(d, a)' = Lead(d, a)
  BY <1>2, <1>4, <1>6 DEF Lead
<1>10. FetchedByOne'
  <2>1. (\A d \in NodeCalls, a \in Asks :
           Lead(d, a) => Recording(d) \notin present /\ cache[Recording(d)] = "fetching")'
    BY <1>1, <1>5, <1>9 DEF MocksInv, FetchedByOne
  <2>2. (\A e, d \in NodeCalls, a, b \in Asks :
           Lead(e, a) /\ Lead(d, b) /\ Recording(e) = Recording(d) => e = d /\ a = b)'
    BY <1>5, <1>9 DEF MocksInv, FetchedByOne
  <2>3. (\A s \in Spans : cache[s] = "fetching" =>
           \E d \in NodeCalls, a \in Asks : Lead(d, a) /\ Recording(d) = s)'
    BY <1>1, <1>5, <1>9 DEF MocksInv, FetchedByOne
  <2>4. (\A s \in Spans : fetches[s] <= 1 /\ (cache[s] = "none" => fetches[s] = 0))'
    BY <1>1 DEF MocksInv, FetchedByOne
  <2> QED
    BY <2>1, <2>2, <2>3, <2>4 DEF FetchedByOne
<1>11. ToldTrue'
  <2>1. \A a \in Asks : g[a] \in {"no", "wants", "error"}
    BY <1>4
  <2> QED
    BY <1>1, <1>4, <1>5, <1>6, <2>1 DEF MocksInv, ToldTrue
<1> QED
  BY <1>5, <1>7, <1>8, <1>10, <1>11 DEF MocksInv

LEMMA SettleKeeps ==
  ASSUME MocksInv, NEW c \in NodeCalls, Settle(c)
  PROVE  MocksInv'
<1>1. /\ call[c] = "asking"
      /\ UNCHANGED <<strategy, overrides, tree, present, counters, entered, index, ask, cache, fetches, expired>>
  BY DEF Settle, MaySettle
<1>2. PICK to \in {"mocked", "failed"} :
        /\ call' = [call EXCEPT ![c] = to]
        /\ overrides[KeyOf[c]] = "no" /\ to = "mocked" => ask[c][1] = "value"
  BY DEF Settle
<1>3. /\ NumberedInTurn' /\ tree # "unread"
      /\ call' \in [NodeCalls -> {"new", "entered", "asking", "ran", "mocked", "failed"}]
      /\ call'[c] = to /\ \A d \in NodeCalls : d # c => call'[d] = call[d]
      /\ \A d \in NodeCalls : /\ Recorded(d)' = Recorded(d) /\ Recording(d)' = Recording(d)
                              /\ Selected(d)' = Selected(d)
  BY <1>1, <1>2, CallMoves
<1>4. MocksTyped'
  BY <1>1, <1>3 DEF MocksInv, MocksTyped
<1>5. DecidedOnce'
  <2>1. (tree = "unread" => \A d \in NodeCalls : call[d] = "new")'
    BY <1>1, <1>3
  <2>2. (\A d \in NodeCalls : call[d] \in {"new", "entered"} => \A a \in Asks : ask[d][a] = "no")'
    BY <1>1, <1>3 DEF MocksInv, DecidedOnce
  <2>3. (\A d \in NodeCalls : \A a \in Asks : ask[d][a] \notin {"no", "error"} => Recorded(d))'
    BY <1>1, <1>3 DEF MocksInv, DecidedOnce
  <2>4. (\A d \in NodeCalls :
           overrides[KeyOf[d]] = "no" /\ call[d] \in {"asking", "mocked"} => Selected(d) /\ Recorded(d))'
    BY <1>1, <1>3 DEF MocksInv, DecidedOnce
  <2>5. (\A d \in NodeCalls :
           overrides[KeyOf[d]] = "no" /\ call[d] = "mocked" => ask[d][1] = "value")'
    BY <1>1, <1>2, <1>3 DEF MocksInv, DecidedOnce
  <2> QED
    BY <2>1, <2>2, <2>3, <2>4, <2>5 DEF DecidedOnce
<1>6. FetchedByOne' /\ ToldTrue'
  BY <1>1, RequestsStay
<1> QED
  BY <1>3, <1>4, <1>5, <1>6 DEF MocksInv

LEMMA ExpireKeeps ==
  ASSUME MocksInv, Expire
  PROVE  MocksInv'
<1>1. /\ expired' = TRUE
      /\ UNCHANGED <<strategy, overrides, tree, present, counters, entered, index, call, ask, cache, fetches>>
  BY DEF Expire
<1>2. MocksTyped' /\ NumberedInTurn' /\ DecidedOnce'
  BY <1>1 DEF MocksInv, MocksTyped, NumberedInTurn, DecidedOnce, Recorded, Selected
<1>3. FetchedByOne' /\ ToldTrue'
  BY <1>1, RequestsStay
<1> QED
  BY <1>2, <1>3 DEF MocksInv

LEMMA MocksStutter ==
  ASSUME MocksInv, UNCHANGED mockVars
  PROVE  MocksInv'
<1>1. UNCHANGED <<strategy, overrides, tree, present, counters, entered, index, call, ask, cache, fetches,
                  expired>>
  BY DEF mockVars
<1>2. MocksTyped' /\ NumberedInTurn' /\ DecidedOnce'
  BY <1>1 DEF MocksInv, MocksTyped, NumberedInTurn, DecidedOnce, Recorded, Selected
<1>3. FetchedByOne' /\ ToldTrue'
  BY <1>1, RequestsStay
<1> QED
  BY <1>2, <1>3 DEF MocksInv

(* A request of a call goes on: what was decided stays, and so do the      *)
(* recordings.                                                             *)
LEMMA AskMoves ==
  ASSUME MocksInv, NEW c \in NodeCalls, NEW a \in Asks, ask[c][a] \in {"wants", "leads", "waits"},
         NEW to \in {"leads", "waits", "value", "error"}, ask' = [ask EXCEPT ![c][a] = to],
         UNCHANGED <<strategy, overrides, tree, present, counters, entered, index, call, expired>>
  PROVE  /\ NumberedInTurn' /\ DecidedOnce'
         /\ ask' \in [NodeCalls -> [Asks -> {"no", "wants", "leads", "waits", "value", "error"}]]
         /\ ask'[c][a] = to
         /\ \A d \in NodeCalls, b \in Asks : d # c \/ b # a => ask'[d][b] = ask[d][b]
         /\ \A d \in NodeCalls : Recorded(d)' = Recorded(d) /\ Recording(d)' = Recording(d)
         /\ Recorded(c) /\ Recording(c) \in Spans
<1>1. ask \in [NodeCalls -> [Asks -> {"no", "wants", "leads", "waits", "value", "error"}]]
  BY DEF MocksInv, MocksTyped
<1>2. PICK g : g = [ask[c] EXCEPT ![a] = to]
  OBVIOUS
<1>3. g \in [Asks -> {"no", "wants", "leads", "waits", "value", "error"}]
  BY <1>1, <1>2
<1>4. ask' = [ask EXCEPT ![c] = g]
  BY <1>2
<1>5. ask' \in [NodeCalls -> [Asks -> {"no", "wants", "leads", "waits", "value", "error"}]]
  BY <1>1, <1>3, <1>4
<1>6. ask'[c] = g /\ \A d \in NodeCalls : d # c => ask'[d] = ask[d]
  BY <1>1, <1>4
<1>7. g[a] = to /\ \A b \in Asks : b # a => g[b] = ask[c][b]
  BY <1>1, <1>2
<1>8. \A d \in NodeCalls, b \in Asks : d # c \/ b # a => ask'[d][b] = ask[d][b]
  BY <1>6, <1>7
<1>9. \A d \in NodeCalls : /\ Recorded(d)' = Recorded(d) /\ Recording(d)' = Recording(d)
                           /\ Selected(d)' = Selected(d)
  BY DEF Recorded, Recording, Selected
<1>10. Recorded(c)
  BY DEF MocksInv, DecidedOnce
<1>11. Recording(c) \in Spans
  BY <1>10, RecordingIsSpan DEF MocksInv
<1>12. NumberedInTurn'
  BY DEF MocksInv, NumberedInTurn
<1>13. DecidedOnce'
  <2>1. call[c] \notin {"new", "entered"}
    BY DEF MocksInv, DecidedOnce
  <2>2. (tree = "unread" => \A d \in NodeCalls : call[d] = "new")'
    BY DEF MocksInv, DecidedOnce
  <2>3. (\A d \in NodeCalls : call[d] \in {"new", "entered"} => \A b \in Asks : ask[d][b] = "no")'
    BY <1>6, <2>1 DEF MocksInv, DecidedOnce
  <2>4. (\A d \in NodeCalls : \A b \in Asks : ask[d][b] \notin {"no", "error"} => Recorded(d))'
    BY <1>6, <1>9, <1>10 DEF MocksInv, DecidedOnce
  <2>5. (\A d \in NodeCalls :
           overrides[KeyOf[d]] = "no" /\ call[d] \in {"asking", "mocked"} => Selected(d) /\ Recorded(d))'
    BY <1>9 DEF MocksInv, DecidedOnce
  <2>6. (\A d \in NodeCalls :
           overrides[KeyOf[d]] = "no" /\ call[d] = "mocked" => ask[d][1] = "value")'
    <3>1. ASSUME NEW d \in NodeCalls, overrides[KeyOf[d]] = "no", call[d] = "mocked"
          PROVE  ask'[d][1] = "value"
      <4>1. ask[d][1] = "value"
        BY <3>1 DEF MocksInv, DecidedOnce
      <4>2. 1 \in Asks /\ (d # c \/ 1 # a)
        BY <4>1 DEF Asks
      <4> QED
        BY <1>8, <4>1, <4>2
    <3> QED
      BY <3>1
  <2> QED
    BY <2>2, <2>3, <2>4, <2>5, <2>6 DEF DecidedOnce
<1> QED
  BY <1>5, <1>6, <1>7, <1>8, <1>9, <1>10, <1>11, <1>12, <1>13

LEMMA AskKeeps ==
  ASSUME MocksInv, NEW c \in NodeCalls, NEW a \in Asks, Ask(c, a)
  PROVE  MocksInv'
<1> DEFINE s == Recording(c)
<1>1. /\ ask[c][a] = "wants"
      /\ UNCHANGED <<strategy, overrides, tree, present, counters, entered, index, call, expired>>
  BY DEF Ask, MayAsk
<1>2. PICK to \in {"leads", "waits", "value"} : ask' = [ask EXCEPT ![c][a] = to]
  BY DEF Ask
<1>3. /\ NumberedInTurn' /\ DecidedOnce'
      /\ ask' \in [NodeCalls -> [Asks -> {"no", "wants", "leads", "waits", "value", "error"}]]
      /\ ask'[c][a] = to
      /\ \A d \in NodeCalls, b \in Asks : d # c \/ b # a => ask'[d][b] = ask[d][b]
      /\ \A d \in NodeCalls : Recorded(d)' = Recorded(d) /\ Recording(d)' = Recording(d)
      /\ Recorded(c) /\ s \in Spans
  BY <1>1, <1>2, AskMoves
<1> HIDE DEF s
<1>4. \/ /\ s \in present /\ to = "value" /\ UNCHANGED <<cache, fetches>>
      \/ /\ s \notin present /\ to = "leads" /\ cache[s] = "none"
         /\ cache' = [cache EXCEPT ![s] = "fetching"] /\ fetches' = [fetches EXCEPT ![s] = @ + 1]
      \/ /\ s \notin present /\ to = "waits" /\ cache[s] # "none" /\ UNCHANGED <<cache, fetches>>
  <2>1. \/ /\ s \in present /\ ask' = [ask EXCEPT ![c][a] = "value"] /\ UNCHANGED <<cache, fetches>>
        \/ /\ s \notin present /\ ask' = [ask EXCEPT ![c][a] = "leads"] /\ cache[s] = "none"
           /\ cache' = [cache EXCEPT ![s] = "fetching"] /\ fetches' = [fetches EXCEPT ![s] = @ + 1]
        \/ /\ s \notin present /\ ask' = [ask EXCEPT ![c][a] = "waits"] /\ cache[s] # "none"
           /\ UNCHANGED <<cache, fetches>>
    BY DEF Ask, Leads, s
  <2>2. \A v : ask' = [ask EXCEPT ![c][a] = v] => to = v
    BY <1>3 DEF MocksInv, MocksTyped
  <2> QED
    BY <2>1, <2>2, Zenon
<1>5. CASE to # "leads"
  <2>1. UNCHANGED <<cache, fetches>>
    BY <1>4, <1>5
  <2>2. \A d \in NodeCalls, b \in Asks : Lead(d, b)' = Lead(d, b)
    BY <1>1, <1>3, <1>5 DEF Lead
  <2>3. MocksTyped'
    BY <1>1, <1>3, <2>1 DEF MocksInv, MocksTyped
  <2>4. FetchedByOne'
    <3>1. (\A d \in NodeCalls, b \in Asks :
             Lead(d, b) => Recording(d) \notin present /\ cache[Recording(d)] = "fetching")'
      BY <1>1, <1>3, <2>1, <2>2 DEF MocksInv, FetchedByOne
    <3>2. (\A e, d \in NodeCalls, b, f \in Asks :
             Lead(e, b) /\ Lead(d, f) /\ Recording(e) = Recording(d) => e = d /\ b = f)'
      BY <1>3, <2>2 DEF MocksInv, FetchedByOne
    <3>3. (\A t \in Spans : cache[t] = "fetching" =>
             \E d \in NodeCalls, b \in Asks : Lead(d, b) /\ Recording(d) = t)'
      BY <1>3, <2>1, <2>2 DEF MocksInv, FetchedByOne
    <3>4. (\A t \in Spans : fetches[t] <= 1 /\ (cache[t] = "none" => fetches[t] = 0))'
      BY <2>1 DEF MocksInv, FetchedByOne
    <3> QED
      BY <3>1, <3>2, <3>3, <3>4 DEF FetchedByOne
  <2>5. ToldTrue'
    <3>1. \/ s \in present /\ to = "value"
          \/ s \notin present /\ cache[s] # "none" /\ to = "waits"
      BY <1>4, <1>5
    <3>2. ASSUME NEW d \in NodeCalls, NEW b \in Asks
          PROVE  /\ ask'[d][b] = "waits" => Recording(d) \notin present /\ cache[Recording(d)] # "none"
                 /\ ask'[d][b] = "value" => Recording(d) \in present \/ cache[Recording(d)] = "value"
                 /\ ask'[d][b] = "error" =>
                      \/ expired \/ ~Recorded(d)
                      \/ Recording(d) \notin present /\ cache[Recording(d)] = "error"
      <4>1. CASE d = c /\ b = a
        BY <1>3, <3>1, <4>1 DEF s
      <4>2. CASE d # c \/ b # a
        <5>1. ask'[d][b] = ask[d][b]
          BY <1>3, <4>2
        <5> QED
          BY <5>1 DEF MocksInv, ToldTrue
      <4> QED
        BY <4>1, <4>2
    <3> QED
      BY <1>1, <1>3, <2>1, <3>2 DEF ToldTrue
  <2> QED
    BY <1>3, <2>3, <2>4, <2>5 DEF MocksInv
<1>6. CASE to = "leads"
  <2>1. /\ s \notin present /\ cache[s] = "none" /\ cache' = [cache EXCEPT ![s] = "fetching"]
        /\ fetches' = [fetches EXCEPT ![s] = @ + 1]
    BY <1>4, <1>6
  <2>2. cache'[s] = "fetching" /\ \A t \in Spans : t # s => cache'[t] = cache[t]
    BY <1>3, <2>1 DEF MocksInv, MocksTyped
  <2>3. fetches[s] = 0
    BY <1>3, <2>1 DEF MocksInv, FetchedByOne
  <2>4. fetches' = [fetches EXCEPT ![s] = 1]
    BY <2>1, <2>3
  <2>5. fetches'[s] = 1 /\ \A t \in Spans : t # s => fetches'[t] = fetches[t]
    BY <1>3, <2>4 DEF MocksInv, MocksTyped
  <2>6. MocksTyped'
    <3>1. cache' \in [Spans -> {"none", "fetching", "value", "error"}]
      BY <2>1 DEF MocksInv, MocksTyped
    <3>2. fetches' \in [Spans -> Nat]
      BY <2>4 DEF MocksInv, MocksTyped
    <3> QED
      BY <1>1, <1>3, <3>1, <3>2 DEF MocksInv, MocksTyped
  <2>7. \A d \in NodeCalls, b \in Asks : Lead(d, b)' <=> Lead(d, b) \/ (d = c /\ b = a)
    BY <1>3, <1>6 DEF Lead
  <2>8. \A d \in NodeCalls, b \in Asks : Lead(d, b) => Recording(d) \in Spans /\ Recording(d) # s
    <3>1. ASSUME NEW d \in NodeCalls, NEW b \in Asks, Lead(d, b)
          PROVE  Recording(d) \in Spans /\ Recording(d) # s
      <4>1. Recorded(d) /\ cache[Recording(d)] = "fetching"
        BY <3>1 DEF MocksInv, DecidedOnce, FetchedByOne, Lead
      <4>2. Recording(d) \in Spans
        BY <4>1, RecordingIsSpan DEF MocksInv
      <4> QED
        BY <2>1, <4>1, <4>2
    <3> QED
      BY <3>1
  <2>9. FetchedByOne'
    <3>1. (\A d \in NodeCalls, b \in Asks :
             Lead(d, b) => Recording(d) \notin present /\ cache[Recording(d)] = "fetching")'
      <4>1. ASSUME NEW d \in NodeCalls, NEW b \in Asks, Lead(d, b)'
            PROVE  Recording(d) \notin present /\ cache'[Recording(d)] = "fetching"
        <5>1. CASE d = c /\ b = a
          BY <2>1, <2>2, <5>1 DEF s
        <5>2. CASE Lead(d, b)
          BY <2>2, <2>8, <5>2 DEF MocksInv, FetchedByOne
        <5> QED
          BY <2>7, <4>1, <5>1, <5>2
      <4> QED
        BY <1>1, <1>3, <4>1
    <3>2. (\A e, d \in NodeCalls, b, f \in Asks :
             Lead(e, b) /\ Lead(d, f) /\ Recording(e) = Recording(d) => e = d /\ b = f)'
      <4>1. ASSUME NEW e \in NodeCalls, NEW d \in NodeCalls, NEW b \in Asks, NEW f \in Asks,
                   Lead(e, b)', Lead(d, f)', Recording(e) = Recording(d)
            PROVE  e = d /\ b = f
        <5>1. CASE Lead(e, b) /\ Lead(d, f)
          BY <4>1, <5>1 DEF MocksInv, FetchedByOne
        <5>2. CASE e = c /\ b = a /\ d = c /\ f = a
          BY <5>2
        <5>3. CASE Lead(e, b) /\ d = c
          BY <2>8, <4>1, <5>3 DEF s
        <5>4. CASE Lead(d, f) /\ e = c
          BY <2>8, <4>1, <5>4 DEF s
        <5> QED
          BY <2>7, <4>1, <5>1, <5>2, <5>3, <5>4
      <4> QED
        BY <1>3, <4>1
    <3>3. (\A t \in Spans : cache[t] = "fetching" =>
             \E d \in NodeCalls, b \in Asks : Lead(d, b) /\ Recording(d) = t)'
      <4>1. ASSUME NEW t \in Spans, cache'[t] = "fetching"
            PROVE  \E d \in NodeCalls, b \in Asks : Lead(d, b)' /\ Recording(d) = t
        <5>1. CASE t = s
          BY <2>7, <5>1 DEF s
        <5>2. CASE t # s
          <6>1. cache[t] = "fetching"
            BY <2>2, <4>1, <5>2
          <6>2. PICK d \in NodeCalls, b \in Asks : Lead(d, b) /\ Recording(d) = t
            BY <6>1 DEF MocksInv, FetchedByOne
          <6> QED
            BY <2>7, <6>2
        <5> QED
          BY <5>1, <5>2
      <4> QED
        BY <1>3, <4>1
    <3>4. (\A t \in Spans : fetches[t] <= 1 /\ (cache[t] = "none" => fetches[t] = 0))'
      <4>1. ASSUME NEW t \in Spans PROVE fetches'[t] <= 1 /\ (cache'[t] = "none" => fetches'[t] = 0)
        <5>1. CASE t = s
          BY <2>2, <2>5, <5>1
        <5>2. CASE t # s
          BY <2>2, <2>5, <5>2 DEF MocksInv, FetchedByOne
        <5> QED
          BY <5>1, <5>2
      <4> QED
        BY <4>1
    <3> QED
      BY <3>1, <3>2, <3>3, <3>4 DEF FetchedByOne
  <2>10. ToldTrue'
    <3>1. ASSUME NEW d \in NodeCalls, NEW b \in Asks
          PROVE  /\ ask'[d][b] = "waits" => Recording(d) \notin present /\ cache'[Recording(d)] # "none"
                 /\ ask'[d][b] = "value" => Recording(d) \in present \/ cache'[Recording(d)] = "value"
                 /\ ask'[d][b] = "error" =>
                      \/ expired \/ ~Recorded(d)
                      \/ Recording(d) \notin present /\ cache'[Recording(d)] = "error"
      <4>1. CASE d = c /\ b = a
        BY <1>3, <1>6, <4>1
      <4>2. CASE d # c \/ b # a
        <5>1. ask'[d][b] = ask[d][b]
          BY <1>3, <4>2
        <5>2. Recorded(d) => Recording(d) \in Spans
          BY RecordingIsSpan DEF MocksInv
        <5>3. ask[d][b] \in {"waits", "value"} => Recorded(d)
          BY DEF MocksInv, DecidedOnce
        <5>4. Recorded(d) /\ cache[Recording(d)] # "none" => cache'[Recording(d)] = cache[Recording(d)]
          BY <2>1, <2>2, <5>2
        <5> QED
          BY <5>1, <5>3, <5>4 DEF MocksInv, ToldTrue
      <4> QED
        BY <4>1, <4>2
    <3> QED
      BY <1>1, <1>3, <3>1 DEF ToldTrue
  <2> QED
    BY <1>3, <2>6, <2>9, <2>10 DEF MocksInv
<1> QED
  BY <1>5, <1>6

LEMMA FetchedKeeps ==
  ASSUME MocksInv, NEW c \in NodeCalls, NEW a \in Asks, Fetched(c, a)
  PROVE  MocksInv'
<1> DEFINE s == Recording(c)
<1>1. /\ ask[c][a] = "leads"
      /\ UNCHANGED <<strategy, overrides, tree, present, counters, entered, index, call, fetches, expired>>
  BY DEF Fetched, MayFetch
<1>2. PICK to \in {"value", "error"} :
        ask' = [ask EXCEPT ![c][a] = to] /\ cache' = [cache EXCEPT ![s] = to]
  BY DEF Fetched
<1>3. /\ NumberedInTurn' /\ DecidedOnce'
      /\ ask' \in [NodeCalls -> [Asks -> {"no", "wants", "leads", "waits", "value", "error"}]]
      /\ ask'[c][a] = to
      /\ \A d \in NodeCalls, b \in Asks : d # c \/ b # a => ask'[d][b] = ask[d][b]
      /\ \A d \in NodeCalls : Recorded(d)' = Recorded(d) /\ Recording(d)' = Recording(d)
      /\ Recorded(c) /\ s \in Spans
  BY <1>1, <1>2, AskMoves
<1>4. s \notin present /\ cache[s] = "fetching"
  BY <1>1 DEF MocksInv, FetchedByOne, Lead
<1>5. \A d \in NodeCalls, b \in Asks : Lead(d, b) /\ Recording(d) = s => d = c /\ b = a
  BY <1>1 DEF MocksInv, FetchedByOne, Lead
<1> HIDE DEF s
<1>6. cache'[s] = to /\ \A t \in Spans : t # s => cache'[t] = cache[t]
  BY <1>2, <1>3 DEF MocksInv, MocksTyped
<1>7. MocksTyped'
  <2>1. cache' \in [Spans -> {"none", "fetching", "value", "error"}]
    BY <1>2 DEF MocksInv, MocksTyped
  <2> QED
    BY <1>1, <1>3, <2>1 DEF MocksInv, MocksTyped
<1>8. \A d \in NodeCalls, b \in Asks : Lead(d, b)' <=> Lead(d, b) /\ ~(d = c /\ b = a)
  BY <1>3 DEF Lead
<1>9. \A d \in NodeCalls, b \in Asks : Lead(d, b) => Recording(d) \in Spans
  <2>1. \A d \in NodeCalls, b \in Asks : Lead(d, b) => Recorded(d)
    BY DEF MocksInv, DecidedOnce, Lead
  <2> QED
    BY <2>1, RecordingIsSpan DEF MocksInv
<1>10. FetchedByOne'
  <2>1. (\A d \in NodeCalls, b \in Asks :
           Lead(d, b) => Recording(d) \notin present /\ cache[Recording(d)] = "fetching")'
    <3>1. ASSUME NEW d \in NodeCalls, NEW b \in Asks, Lead(d, b)'
          PROVE  Recording(d) \notin present /\ cache'[Recording(d)] = "fetching"
      <4>1. Lead(d, b) /\ Recording(d) # s /\ Recording(d) \in Spans
        BY <1>5, <1>8, <1>9, <3>1
      <4> QED
        BY <1>6, <4>1 DEF MocksInv, FetchedByOne
    <3> QED
      BY <1>1, <1>3, <3>1
  <2>2. (\A e, d \in NodeCalls, b, f \in Asks :
           Lead(e, b) /\ Lead(d, f) /\ Recording(e) = Recording(d) => e = d /\ b = f)'
    BY <1>3, <1>8 DEF MocksInv, FetchedByOne
  <2>3. (\A t \in Spans : cache[t] = "fetching" =>
           \E d \in NodeCalls, b \in Asks : Lead(d, b) /\ Recording(d) = t)'
    <3>1. ASSUME NEW t \in Spans, cache'[t] = "fetching"
          PROVE  \E d \in NodeCalls, b \in Asks : Lead(d, b)' /\ Recording(d) = t
      <4>1. t # s
        BY <1>6, <3>1
      <4>2. cache[t] = "fetching"
        BY <1>6, <3>1, <4>1
      <4>3. PICK d \in NodeCalls, b \in Asks : Lead(d, b) /\ Recording(d) = t
        BY <4>2 DEF MocksInv, FetchedByOne
      <4>4. Lead(d, b)'
        BY <1>8, <4>1, <4>3 DEF s
      <4> QED
        BY <4>3, <4>4
    <3> QED
      BY <1>3, <3>1
  <2>4. (\A t \in Spans : fetches[t] <= 1 /\ (cache[t] = "none" => fetches[t] = 0))'
    <3>1. \A t \in Spans : cache'[t] = "none" => cache[t] = "none"
      BY <1>6
    <3> QED
      BY <1>1, <3>1 DEF MocksInv, FetchedByOne
  <2> QED
    BY <2>1, <2>2, <2>3, <2>4 DEF FetchedByOne
<1>11. ToldTrue'
  <2>1. ASSUME NEW d \in NodeCalls, NEW b \in Asks
        PROVE  /\ ask'[d][b] = "waits" => Recording(d) \notin present /\ cache'[Recording(d)] # "none"
               /\ ask'[d][b] = "value" => Recording(d) \in present \/ cache'[Recording(d)] = "value"
               /\ ask'[d][b] = "error" =>
                    \/ expired \/ ~Recorded(d)
                    \/ Recording(d) \notin present /\ cache'[Recording(d)] = "error"
    <3>1. CASE d = c /\ b = a
      BY <1>3, <1>4, <1>6, <3>1 DEF s
    <3>2. CASE d # c \/ b # a
      <4>1. ask'[d][b] = ask[d][b]
        BY <1>3, <3>2
      <4>2. Recorded(d) => Recording(d) \in Spans
        BY RecordingIsSpan DEF MocksInv
      <4>3. ask[d][b] \in {"waits", "value"} => Recorded(d)
        BY DEF MocksInv, DecidedOnce
      <4>4. Recorded(d) => \/ Recording(d) = s
                           \/ cache'[Recording(d)] = cache[Recording(d)]
        BY <1>6, <4>2
      <4>5. Recorded(d) /\ cache[Recording(d)] \in {"value", "error"} =>
              cache'[Recording(d)] = cache[Recording(d)]
        BY <1>4, <4>4
      <4>6. Recorded(d) /\ cache[Recording(d)] # "none" => cache'[Recording(d)] # "none"
        BY <1>6, <4>4
      <4> QED
        BY <4>1, <4>3, <4>5, <4>6 DEF MocksInv, ToldTrue
    <3> QED
      BY <3>1, <3>2
  <2> QED
    BY <1>1, <1>3, <2>1 DEF ToldTrue
<1> QED
  BY <1>3, <1>7, <1>10, <1>11 DEF MocksInv

LEMMA FollowKeeps ==
  ASSUME MocksInv, NEW c \in NodeCalls, NEW a \in Asks, Follow(c, a)
  PROVE  MocksInv'
<1>1. /\ ask[c][a] = "waits"
      /\ UNCHANGED <<strategy, overrides, tree, present, counters, entered, index, call, cache, fetches, expired>>
  BY DEF Follow, MayFollow
<1>2. PICK to \in {"value", "error"} :
        /\ ask' = [ask EXCEPT ![c][a] = to]
        /\ cache[Recording(c)] = to \/ (expired /\ to = "error")
  BY DEF Follow, MayFollow
<1>3. /\ NumberedInTurn' /\ DecidedOnce'
      /\ ask' \in [NodeCalls -> [Asks -> {"no", "wants", "leads", "waits", "value", "error"}]]
      /\ ask'[c][a] = to
      /\ \A d \in NodeCalls, b \in Asks : d # c \/ b # a => ask'[d][b] = ask[d][b]
      /\ \A d \in NodeCalls : Recorded(d)' = Recorded(d) /\ Recording(d)' = Recording(d)
  BY <1>1, <1>2, AskMoves
<1>4. MocksTyped'
  BY <1>1, <1>3 DEF MocksInv, MocksTyped
<1>5. \A d \in NodeCalls, b \in Asks : Lead(d, b)' = Lead(d, b)
  BY <1>1, <1>3 DEF Lead
<1>6. FetchedByOne'
  <2>1. (\A d \in NodeCalls, b \in Asks :
           Lead(d, b) => Recording(d) \notin present /\ cache[Recording(d)] = "fetching")'
    BY <1>1, <1>3, <1>5 DEF MocksInv, FetchedByOne
  <2>2. (\A e, d \in NodeCalls, b, f \in Asks :
           Lead(e, b) /\ Lead(d, f) /\ Recording(e) = Recording(d) => e = d /\ b = f)'
    BY <1>3, <1>5 DEF MocksInv, FetchedByOne
  <2>3. (\A t \in Spans : cache[t] = "fetching" =>
           \E d \in NodeCalls, b \in Asks : Lead(d, b) /\ Recording(d) = t)'
    BY <1>1, <1>3, <1>5 DEF MocksInv, FetchedByOne
  <2>4. (\A t \in Spans : fetches[t] <= 1 /\ (cache[t] = "none" => fetches[t] = 0))'
    BY <1>1 DEF MocksInv, FetchedByOne
  <2> QED
    BY <2>1, <2>2, <2>3, <2>4 DEF FetchedByOne
<1>7. ToldTrue'
  <2>1. Recording(c) \notin present
    BY <1>1 DEF MocksInv, ToldTrue
  <2>2. ASSUME NEW d \in NodeCalls, NEW b \in Asks
        PROVE  /\ ask'[d][b] = "waits" => Recording(d) \notin present /\ cache[Recording(d)] # "none"
               /\ ask'[d][b] = "value" => Recording(d) \in present \/ cache[Recording(d)] = "value"
               /\ ask'[d][b] = "error" =>
                    \/ expired \/ ~Recorded(d)
                    \/ Recording(d) \notin present /\ cache[Recording(d)] = "error"
    <3>1. CASE d = c /\ b = a
      BY <1>2, <1>3, <2>1, <3>1
    <3>2. CASE d # c \/ b # a
      <4>1. ask'[d][b] = ask[d][b]
        BY <1>3, <3>2
      <4> QED
        BY <4>1 DEF MocksInv, ToldTrue
    <3> QED
      BY <3>1, <3>2
  <2> QED
    BY <1>1, <1>3, <2>2 DEF ToldTrue
<1> QED
  BY <1>3, <1>4, <1>6, <1>7 DEF MocksInv

LEMMA NextMocks ==
  MocksInv /\ [MocksNext]_mockVars => MocksInv'
BY PrepareKeeps, NumberKeeps, ResolveKeeps, SettleKeeps, ExpireKeeps, AskKeeps, FetchedKeeps, FollowKeeps,
   MocksStutter DEF MocksNext

------------------------------------------------------------------------------
LEMMA InvOccurrence == MocksInv => OccurrenceExact
<1> SUFFICES ASSUME MocksInv, NEW k \in Keys, NEW i \in DOMAIN entered[k]
             PROVE  /\ index[entered[k][i]] = i - 1
                    /\ call[entered[k][i]] = "mocked" /\ overrides[k] = "no" =>
                         /\ Selected(entered[k][i]) /\ i <= Len(Occurrences(k))
                         /\ LET s == Occurrences(k)[i] IN s \in present \/ cache[s] = "value"
  BY DEF OccurrenceExact
<1>1. PICK c : c = entered[k][i]
  OBVIOUS
<1>2. c \in NodeCalls
  BY <1>1 DEF MocksInv, MocksTyped
<1>3. index[c] = i - 1 /\ KeyOf[c] = k
  BY <1>1 DEF MocksInv, NumberedInTurn
<1>4. ASSUME call[c] = "mocked", overrides[k] = "no"
      PROVE  /\ Selected(c) /\ i <= Len(Occurrences(k))
             /\ Occurrences(k)[i] \in present \/ cache[Occurrences(k)[i]] = "value"
  <2>1. Selected(c) /\ Recorded(c) /\ ask[c][1] = "value"
    BY <1>2, <1>3, <1>4 DEF MocksInv, DecidedOnce
  <2>2. i \in Int /\ i - 1 + 1 = i
    <3>1. entered[k] \in Seq(NodeCalls)
      BY DEF MocksInv, MocksTyped
    <3>2. i \in 1 .. Len(entered[k]) /\ Len(entered[k]) \in Nat
      BY <3>1
    <3> QED
      BY <3>2
  <2>3. PICK s : s = Occurrences(k)
    OBVIOUS
  <2>4. s \in Seq(Spans)
    BY <2>3, MocksAssumption
  <2>5. i - 1 < Len(s) /\ Len(s) \in Nat
    BY <1>3, <2>1, <2>3, <2>4 DEF Recorded
  <2>6. i <= Len(s)
    BY <2>2, <2>5
  <2>7. Recording(c) = s[i]
    BY <1>3, <2>2, <2>3 DEF Recording
  <2>8. Recording(c) \in present \/ cache[Recording(c)] = "value"
    <3>1. 1 \in Asks
      BY DEF Asks
    <3> QED
      BY <1>2, <2>1, <3>1 DEF MocksInv, ToldTrue
  <2> QED
    BY <2>1, <2>3, <2>6, <2>7, <2>8
<1> QED
  BY <1>1, <1>3, <1>4

LEMMA InvFetched == MocksInv => FetchedOnce
<1> SUFFICES ASSUME MocksInv PROVE FetchedOnce
  OBVIOUS
<1>1. \A s \in Spans : fetches[s] <= 1
  BY DEF MocksInv, FetchedByOne
<1>2. ASSUME NEW c \in NodeCalls, NEW a \in Asks, NEW b \in Asks, ask[c][a] = "value", ask[c][b] = "error"
      PROVE  expired
  <2>1. Recorded(c)
    BY <1>2 DEF MocksInv, DecidedOnce
  <2>2. Recording(c) \in present \/ cache[Recording(c)] = "value"
    BY <1>2 DEF MocksInv, ToldTrue
  <2>3. expired \/ ~Recorded(c) \/ (Recording(c) \notin present /\ cache[Recording(c)] = "error")
    BY <1>2 DEF MocksInv, ToldTrue
  <2> QED
    BY <2>1, <2>2, <2>3
<1> QED
  BY <1>1, <1>2 DEF FetchedOnce

LEMMA InvSettle == MocksInv => MocksSettle
<1> SUFFICES ASSUME MocksInv, tree # "failed", NEW c \in NodeCalls, call[c] \in {"new", "entered", "asking"}
             PROVE  MayProceed
  BY DEF MocksSettle
<1>1. CASE tree = "unread"
  BY <1>1 DEF MayProceed, MayPrepare
<1>2. CASE tree # "unread" /\ call[c] = "new"
  <2>1. MayNumber(c)
    BY <1>2 DEF MayNumber, MocksInv, MocksTyped
  <2> QED
    BY <2>1 DEF MayProceed
<1>3. CASE call[c] = "entered"
  BY <1>3 DEF MayProceed, MayResolve
<1>4. CASE call[c] = "asking"
  <2>1. CASE \A a \in Asks : ask[c][a] \in {"no", "value", "error"}
    BY <1>4, <2>1 DEF MayProceed, MaySettle
  <2>2. CASE \E a \in Asks : ask[c][a] \notin {"no", "value", "error"}
    <3>1. PICK a \in Asks : ask[c][a] \in {"wants", "leads", "waits"}
      BY <2>2 DEF MocksInv, MocksTyped
    <3>2. CASE ask[c][a] \in {"wants", "leads"}
      BY <3>2 DEF MayProceed, MayAsk, MayFetch
    <3>3. CASE ask[c][a] = "waits"
      <4>1. Recorded(c) /\ cache[Recording(c)] # "none"
        BY <3>3 DEF MocksInv, DecidedOnce, ToldTrue
      <4>2. Recording(c) \in Spans
        BY <4>1, RecordingIsSpan DEF MocksInv
      <4>3. CASE cache[Recording(c)] \in {"value", "error"}
        BY <3>3, <4>3 DEF MayProceed, MayFollow
      <4>4. CASE cache[Recording(c)] = "fetching"
        <5>1. PICK d \in NodeCalls, b \in Asks : Lead(d, b)
          BY <4>2, <4>4 DEF MocksInv, FetchedByOne
        <5> QED
          BY <5>1 DEF MayProceed, MayFetch, Lead
      <4> QED
        BY <4>1, <4>2, <4>3, <4>4 DEF MocksInv, MocksTyped
    <3> QED
      BY <3>1, <3>2, <3>3
  <2> QED
    BY <2>1, <2>2
<1> QED
  BY <1>1, <1>2, <1>3, <1>4

(* The n-th call of a key stands for the n-th span recorded for it, an     *)
(* output is fetched at most once and all who ask are told the same, and   *)
(* no call waits for a fetch that nobody makes: for any recording, any     *)
(* calls, strategy and overrides, and any interleaving (replay_mock.go).   *)
THEOREM MocksAreExact == MocksSpec => []MocksExact
<1>1. MocksInit => MocksInv
  BY MocksStart
<1>2. MocksInv /\ [MocksNext]_mockVars => MocksInv'
  BY NextMocks
<1>3. MocksInv => MocksExact
  BY InvOccurrence, InvFetched, InvSettle DEF MocksExact
<1> QED
  BY <1>1, <1>2, <1>3, PTL DEF MocksSpec
============================================================================
