----------------------------- MODULE CaptureProofs -----------------------------
(***************************************************************************)
(* Proofs about what is captured. The subtrees of automatic capture, for   *)
(* every finite set of calls, however they are nested, every set of roots  *)
(* and every limit (AutoSubtree); its scopes, for every finite set of      *)
(* calls on any goroutines (AutoScope); and the functions that size the    *)
(* values captured, for any goroutines and types (SizeCache). The three    *)
(* share no variable.                                                      *)
(***************************************************************************)
EXTENDS AutoSubtree, AutoScope, SizeCache, FiniteSetTheorems, SequenceTheorems, TLAPS

Pending == {"deep", "dropping", "adding"}     \* a record on its way into a root
Kept == {"live", "finalize", "send"}
Stages == {"none"} \cup Pending \cup Kept \cup {"try", "gone"}
Record == [at : Stages, interceptionOnly : BOOLEAN, leftOut : BOOLEAN]

Typed ==
  /\ opts \in Options
  /\ call \in [FnCalls -> {"new", "running", "over"}]
  /\ entering \in [FnCalls -> SUBSET Roots]
  /\ record \in [Roots -> [FnCalls -> Record]]
  /\ opened \in SUBSET Roots /\ closed \in SUBSET opened /\ complete \in SUBSET Roots
  /\ captured \in [Roots -> Nat] /\ dropped \in [Roots -> Nat]
  /\ completions \in [Roots -> Nat] /\ reported \in [Roots -> Nat]

(* A call enters the roots it is below, each once: a record that was       *)
(* refused is not tried again, and one refused for its depth is not        *)
(* refused for the span limit as well.                                     *)
CallGood(c) ==
  /\ call[c] = "new" => entering[c] = {} /\ \A r \in Roots : record[r][c] = NoRecord
  /\ \A r \in entering[c] : Opens[r] \in Around[c]

RecordGood(r, c) ==
  /\ record[r][c].at \in Pending => r \in entering[c] /\ Opens[r] \in Around[c]
  /\ record[r][c].at \in {"deep", "dropping"} =>
       /\ c \in TooDeep /\ ~record[r][c].leftOut
       /\ Selective => record[r][c].interceptionOnly
  /\ record[r][c].at = "adding" /\ record[r][c].leftOut => record[r][c].interceptionOnly
  /\ record[r][c].at = "none" /\ r \in entering[c] => ~record[r][c].leftOut
  /\ record[r][c].leftOut /\ c \in Declared => c \in TooDeep

(* A root that is completed has no record left and gets none.              *)
RootGood(r) ==
  /\ r \in opened => call[Opens[r]] # "new"
  /\ completions[r] <= 1
  /\ completions[r] = 1 => r \in closed /\ Records(r) = {} /\ (Managed(r) => r \in complete)

Good ==
  /\ \A c \in FnCalls : CallGood(c)
  /\ \A r \in Roots, c \in FnCalls : RecordGood(r, c)
  /\ \A r \in Roots : RootGood(r)

(* What is counted, in terms of the records.                               *)
CapturedBy(r) == {c \in Admitted(r) \ Declared : Opens[r] # c /\ ~record[r][c].interceptionOnly}
CountGood(r) ==
  /\ captured[r] = Cardinality(CapturedBy(r)) /\ captured[r] <= opts.maxSpans
  /\ dropped[r] = Cardinality(LeftOut(r))
  /\ completions[r] = 1 => reported[r] \in Cardinality(LeftOut(r) \ TooDeep) .. Cardinality(LeftOut(r))

IInv == Typed /\ Good /\ \A r \in Roots : CountGood(r)

------------------------------------------------------------------------------
(* A record that moves changes in nothing else.                            *)
LEMMA Moved ==
  ASSUME NEW old \in Record, NEW there \in Stages, NEW new, new = [old EXCEPT !.at = there]
  PROVE  /\ new \in Record /\ new.at = there
         /\ new.leftOut = old.leftOut /\ new.interceptionOnly = old.interceptionOnly
BY DEF Record

(* Only the record of one call in one root changes.                        *)
Only(r, c) == \A q \in Roots, d \in FnCalls : q # r \/ d # c => record'[q][d] = record[q][d]

LEMMA AtEffect ==
  ASSUME Typed, NEW r \in Roots, NEW c \in FnCalls, NEW there \in Stages, At(r, c, there)
  PROVE  /\ record' \in [Roots -> [FnCalls -> Record]] /\ Only(r, c)
         /\ record'[r][c] = [record[r][c] EXCEPT !.at = there]
<1> DEFINE new == [record[r][c] EXCEPT !.at = there]
<1>1. record' = [record EXCEPT ![r] = [record[r] EXCEPT ![c] = new]]
  BY DEF At
<1>2. record[r] \in [FnCalls -> Record] /\ record[r][c] \in Record
  BY DEF Typed
<1>3. new \in Record
  BY <1>2 DEF Record
<1> HIDE DEF new
<1>4. [record[r] EXCEPT ![c] = new] \in [FnCalls -> Record]
  BY <1>2, <1>3
<1>5. record' \in [Roots -> [FnCalls -> Record]] /\ record'[r][c] = new
  BY <1>1, <1>2, <1>4 DEF Typed
<1>6. Only(r, c)
  BY <1>1, <1>2 DEF Typed, Only
<1> QED
  BY <1>5, <1>6 DEF new

(* A call that is too deep for a root has more calls around it than the    *)
(* limit allows, for each level is one of them.                            *)
LEMMA DepthBound ==
  ASSUME Typed, NEW r \in Roots, NEW c \in FnCalls, Opens[r] \in Around[c],
         Depth(r, c) > opts.maxDepth
  PROVE  c \in TooDeep
<1> DEFINE Levels == {a \in Around[c] \cap Admitted(r) : Opens[r] # a /\ ~record[r][a].interceptionOnly}
<1>1. IsFiniteSet(Around[c]) /\ Around[c] \subseteq FnCalls
  BY SubtreeAssumption, FS_Subset
<1>2. Levels \subseteq Around[c] \ {Opens[r]} /\ IsFiniteSet(Around[c] \ {Opens[r]})
  BY <1>1, FS_RemoveElement
<1>3. Cardinality(Levels) <= Cardinality(Around[c] \ {Opens[r]}) /\ IsFiniteSet(Levels)
  BY <1>2, FS_Subset
<1>4. Cardinality(Around[c] \ {Opens[r]}) = Cardinality(Around[c]) - 1
  BY <1>1, FS_RemoveElement
<1>5. Cardinality(Levels) \in Nat /\ Cardinality(Around[c]) \in Nat /\ opts.maxDepth \in Nat
       /\ Cardinality(Around[c] \ {Opens[r]}) \in Nat
  BY <1>1, <1>2, <1>3, FS_CardinalityType, SubtreeAssumption DEF Typed
<1>6. Depth(r, c) = 1 + Cardinality(Levels)
  BY DEF Depth
<1> QED
  BY <1>3, <1>4, <1>5, <1>6 DEF TooDeep

------------------------------------------------------------------------------
AdmittedAt == Kept \cup {"try", "gone"}

(* Records that move on, or are refused without a count, change no set     *)
(* that is counted.                                                        *)
Still ==
  \A r \in Roots, c \in FnCalls :
    /\ record'[r][c].leftOut = record[r][c].leftOut
    /\ record'[r][c].at \in AdmittedAt <=> record[r][c].at \in AdmittedAt
    /\ record[r][c].at \in AdmittedAt => record'[r][c].interceptionOnly = record[r][c].interceptionOnly

LEMMA StillCounts ==
  ASSUME Still, \A r \in Roots : CountGood(r), UNCHANGED <<opts, captured, dropped, completions, reported>>
  PROVE  \A r \in Roots : CountGood(r)'
<1> SUFFICES ASSUME NEW r \in Roots PROVE CountGood(r)'
  OBVIOUS
<1>1. CapturedBy(r)' = CapturedBy(r)
  BY DEF Still, CapturedBy, Admitted, Records, In, AdmittedAt, Kept
<1>2. LeftOut(r)' = LeftOut(r)
  BY DEF Still, LeftOut
<1>3. TooDeep' = TooDeep
  BY DEF TooDeep
<1> QED
  BY <1>1, <1>2, <1>3 DEF CountGood

(* One more call in a set is one more in its count.                        *)
LEMMA OneMore ==
  ASSUME NEW S \in SUBSET FnCalls, NEW c \in FnCalls \ S
  PROVE  Cardinality(S) \in Nat /\ Cardinality(S \cup {c}) = Cardinality(S) + 1
BY SubtreeAssumption, FS_Subset, FS_AddElement, FS_CardinalityType

LEMMA Smaller ==
  ASSUME NEW S \in SUBSET FnCalls, NEW T \in SUBSET S
  PROVE  Cardinality(S) \in Nat /\ Cardinality(T) \in Nat /\ Cardinality(T) <= Cardinality(S)
BY SubtreeAssumption, FS_Subset, FS_CardinalityType

LEMMA InitIInv == Init => IInv
<1> SUFFICES ASSUME Init PROVE IInv
  OBVIOUS
<1>1. NoRecord \in Record
  BY DEF NoRecord, Record, Stages
<1>2. Typed
  BY <1>1 DEF Init, Typed
<1>3. ASSUME NEW r \in Roots, NEW c \in FnCalls PROVE record[r][c] = NoRecord
  BY DEF Init
<1>4. Good
  BY <1>3 DEF Init, Good, CallGood, RecordGood, RootGood, NoRecord, Pending
<1>5. ASSUME NEW r \in Roots PROVE CountGood(r)
  <2>1. CapturedBy(r) = {}
    BY <1>3 DEF CapturedBy, Admitted, Records, In, NoRecord
  <2>2. LeftOut(r) = {}
    BY <1>3 DEF LeftOut, NoRecord
  <2>3. opts.maxSpans \in Nat
    BY SubtreeAssumption DEF Init
  <2> QED
    BY <2>1, <2>2, <2>3, FS_EmptySet DEF CountGood, Init
<1> QED
  BY <1>2, <1>4, <1>5 DEF IInv

LEMMA EnterKeeps ==
  ASSUME IInv, NEW c \in FnCalls, Enter(c)
  PROVE  IInv'
<1> USE DEF IInv
<1>1. ASSUME NEW r \in Roots PROVE record[r][c] = NoRecord
  BY DEF Good, CallGood, Enter
<1>2. ASSUME NEW r \in Own(c) PROVE r \in Roots /\ Opens[r] = c /\ r \notin opened
  BY DEF Own, Enter, Good, RootGood
<1>3. ASSUME NEW r \in Roots, NEW d \in FnCalls
      PROVE  record'[r][d] = IF r \in Own(c) /\ d = c THEN [NoRecord EXCEPT !.at = "live"] ELSE record[r][d]
  BY <1>1 DEF Enter, Typed
<1>4. record' \in [Roots -> [FnCalls -> Record]]
  <2>1. ASSUME NEW r \in Roots PROVE record'[r] \in [FnCalls -> Record]
    <3>1. [NoRecord EXCEPT !.at = "live"] \in Record
      BY DEF NoRecord, Record, Stages, Kept
    <3>2. [record[r][c] EXCEPT !.at = "live"] \in Record
      BY <1>1, <3>1
    <3>3. [record[r] EXCEPT ![c].at = "live"] = [record[r] EXCEPT ![c] = [record[r][c] EXCEPT !.at = "live"]]
      OBVIOUS
    <3> QED
      BY <3>2, <3>3 DEF Enter, Typed
  <2> QED
    BY <2>1 DEF Enter
<1>5. Typed'
  BY <1>2, <1>4 DEF Typed, Enter, Own
<1>6. \A d \in FnCalls : CallGood(d)'
  BY <1>3 DEF Good, CallGood, Enter, Typed
<1>7. \A r \in Roots, d \in FnCalls : RecordGood(r, d)'
  <2> SUFFICES ASSUME NEW r \in Roots, NEW d \in FnCalls PROVE RecordGood(r, d)'
    OBVIOUS
  <2>1. TooDeep' = TooDeep /\ Selective' = Selective
    BY DEF TooDeep, Selective, Enter
  <2>2. CASE d = c
    BY <1>1, <1>3, <2>1, <2>2 DEF RecordGood, NoRecord, Pending
  <2>3. CASE d # c
    BY <1>3, <2>1, <2>3 DEF Good, RecordGood, Enter, Typed
  <2> QED
    BY <2>2, <2>3
<1>8. \A r \in Roots : RootGood(r)'
  <2> SUFFICES ASSUME NEW r \in Roots PROVE RootGood(r)'
    OBVIOUS
  <2>1. r \in opened' => call'[Opens[r]] # "new"
    BY <1>2 DEF Good, RootGood, Enter, Typed
  <2>2. r \notin Own(c) => Records(r)' = Records(r)
    BY <1>3 DEF Records, In
  <2>3. r \in closed => r \notin Own(c)
    BY <1>2 DEF Typed
  <2> QED
    BY <2>1, <2>2, <2>3 DEF Good, RootGood, Enter, Managed
<1>9. \A r \in Roots : CountGood(r)'
  <2> SUFFICES ASSUME NEW r \in Roots PROVE CountGood(r)'
    OBVIOUS
  <2>1. CapturedBy(r)' = CapturedBy(r)
    BY <1>1, <1>2, <1>3 DEF CapturedBy, Admitted, Records, In, NoRecord
  <2>2. LeftOut(r)' = LeftOut(r)
    BY <1>1, <1>3 DEF LeftOut, NoRecord
  <2> QED
    BY <2>1, <2>2 DEF CountGood, Enter, TooDeep
<1> QED
  BY <1>5, <1>6, <1>7, <1>8, <1>9 DEF Good

(* A step of one record leaves the calls and the other records good ...    *)
LEMMA OneRecordRest ==
  ASSUME IInv, NEW r \in Roots, NEW c \in FnCalls, Only(r, c), call[c] # "new",
         UNCHANGED <<opts, call>>,
         UNCHANGED entering \/ Entered(r, c),
         RecordGood(r, c)'
  PROVE  (\A d \in FnCalls : CallGood(d)') /\ \A q \in Roots, d \in FnCalls : RecordGood(q, d)'
<1> USE DEF IInv, Typed
<1>1. \A q \in Roots, d \in FnCalls : q # r \/ d # c => (q \in entering'[d] <=> q \in entering[d])
  BY DEF Entered
<1>2. \A d \in FnCalls : entering'[d] \subseteq entering[d]
  BY DEF Entered
<1>3. \A d \in FnCalls : CallGood(d)'
  BY <1>2 DEF Good, CallGood, Only
<1>4. ASSUME NEW q \in Roots, NEW d \in FnCalls PROVE RecordGood(q, d)'
  <2>1. TooDeep' = TooDeep /\ Selective' = Selective
    BY DEF TooDeep, Selective
  <2>2. CASE q # r \/ d # c
    BY <1>1, <2>1, <2>2 DEF Good, RecordGood, Only
  <2> QED
    BY <2>2
<1> QED
  BY <1>3, <1>4

(* ... and the roots, if it adds no record to one that is completed.       *)
LEMMA OneRecord ==
  ASSUME IInv, NEW r \in Roots, NEW c \in FnCalls, Only(r, c), call[c] # "new",
         UNCHANGED <<opts, call, opened, closed, complete, completions>>,
         UNCHANGED entering \/ Entered(r, c),
         record'[r][c].at \in Kept => record[r][c].at \in Kept \/ r \notin closed,
         RecordGood(r, c)'
  PROVE  Good'
<1> USE DEF IInv, Typed
<1>1. ASSUME NEW q \in Roots PROVE RootGood(q)'
  <2>1. completions[q] = 1 => Records(q)' \subseteq Records(q)
    BY DEF Records, In, Only, Good, RootGood, Kept
  <2> QED
    BY <2>1 DEF Good, RootGood, Managed
<1> QED
  BY <1>1, OneRecordRest DEF Good

LEMMA CheckKeeps ==
  ASSUME IInv, NEW r \in Roots, NEW c \in FnCalls, Check(r, c)
  PROVE  IInv'
<1> USE DEF IInv
<1>1. r \in entering[c] /\ record[r][c].at = "none" /\ call[c] # "new" /\ Opens[r] \in Around[c]
       /\ ~record[r][c].leftOut
  BY DEF Check, Outermost, Good, CallGood, RecordGood, Typed
<1>2. CASE UNCHANGED record /\ Entered(r, c)
  <2>1. Typed'
    BY <1>2 DEF Typed, Check, Entered
  <2>2. RecordGood(r, c)'
    BY <1>1, <1>2 DEF Good, RecordGood, Check, TooDeep, Selective, Pending
  <2>3. Only(r, c)
    BY <1>2 DEF Only
  <2>4. Good'
    BY <1>1, <1>2, <2>2, <2>3, OneRecord DEF Check, Kept
  <2>5. Still
    BY <1>2 DEF Still
  <2> QED
    BY <2>1, <2>4, <2>5, StillCounts DEF Check
<1>3. CASE ~(UNCHANGED record /\ Entered(r, c))
  <2> DEFINE deep == Depth(r, c) > opts.maxDepth
             new == [at |-> IF deep THEN "deep" ELSE "adding",
                     interceptionOnly |-> c \in opts.exclude \/ (deep /\ Selective), leftOut |-> FALSE]
  <2>1. record' = [record EXCEPT ![r] = [record[r] EXCEPT ![c] = new]] /\ UNCHANGED entering
    BY <1>3 DEF Check
  <2>2. new \in Record /\ new.leftOut = FALSE /\ new.at \in {"deep", "adding"}
         /\ (new.at = "deep" => deep /\ (Selective => new.interceptionOnly))
    BY DEF Record, Stages, Pending
  <2> HIDE DEF new
  <2>3. record' \in [Roots -> [FnCalls -> Record]] /\ record'[r][c] = new /\ Only(r, c)
    BY <2>1, <2>2 DEF Typed, Only
  <2>4. Typed'
    BY <2>1, <2>3 DEF Typed, Check
  <2>5. deep => c \in TooDeep
    BY <1>1, DepthBound
  <2>6. RecordGood(r, c)'
    BY <1>1, <2>1, <2>2, <2>3, <2>5 DEF RecordGood, Check, TooDeep, Selective, Pending
  <2>7. Good'
    BY <1>1, <2>1, <2>2, <2>3, <2>6, OneRecord DEF Check, Kept
  <2>8. Still
    <3>1. record[r][c].leftOut = FALSE
      BY <1>1 DEF Typed, Record
    <3>2. record[r][c].at \notin AdmittedAt /\ record'[r][c].at \notin AdmittedAt
      BY <1>1, <2>2, <2>3 DEF AdmittedAt, Kept
    <3> QED
      BY <2>2, <2>3, <3>1, <3>2 DEF Still, Only
  <2> QED
    BY <2>4, <2>7, <2>8, StillCounts DEF Check
<1> QED
  BY <1>2, <1>3

(* A record that moves on from the lock, or past it.                       *)
LEMMA MoveKeeps ==
  ASSUME IInv, NEW r \in Roots, NEW c \in FnCalls, NEW there \in Stages \ {"deep"},
         At(r, c, there), call[c] # "new",
         UNCHANGED <<opts, call, opened, closed, complete, completions>>,
         UNCHANGED entering \/ Entered(r, c),
         there \in Pending => UNCHANGED entering /\ record[r][c].at \in {"deep", "dropping"},
         there \in Kept => record[r][c].at \in Kept,
         there = "none" => Entered(r, c)
  PROVE  Good' /\ Only(r, c) /\ record' \in [Roots -> [FnCalls -> Record]]
         /\ record'[r][c] = [record[r][c] EXCEPT !.at = there]
<1> USE DEF IInv
<1>1. record' \in [Roots -> [FnCalls -> Record]] /\ Only(r, c) /\ record'[r][c] = [record[r][c] EXCEPT !.at = there]
  BY AtEffect
<1>2. /\ record'[r][c].at = there /\ record'[r][c].leftOut = record[r][c].leftOut
      /\ record'[r][c].interceptionOnly = record[r][c].interceptionOnly
  BY <1>1 DEF Typed, Record
<1>3. there = "none" => r \notin entering'[c]
  BY DEF Entered, Typed
<1>4. RecordGood(r, c)
  BY DEF Good
<1>5. RecordGood(r, c)'
  BY <1>2, <1>3, <1>4 DEF RecordGood, TooDeep, Selective, Pending
<1>6. Good'
  BY <1>1, <1>2, <1>5, OneRecord
<1> QED
  BY <1>1, <1>6

LEMMA DropDeepKeeps ==
  ASSUME IInv, NEW r \in Roots, NEW c \in FnCalls, DropDeep(r, c)
  PROVE  IInv'
<1>1. record[r][c].at = "deep" /\ call[c] # "new"
  BY DEF DropDeep, IInv, Good, CallGood, NoRecord
<1>2. \E there \in {"none", "adding", "dropping"} :
         /\ At(r, c, there)
         /\ UNCHANGED entering \/ Entered(r, c)
         /\ there \in Pending => UNCHANGED entering
         /\ there = "none" => Entered(r, c)
  BY DEF DropDeep, Onward, Dropped, Pending
<1>3. PICK there \in {"none", "adding", "dropping"} :
         /\ At(r, c, there)
         /\ UNCHANGED entering \/ Entered(r, c)
         /\ there \in Pending => UNCHANGED entering
         /\ there = "none" => Entered(r, c)
  BY <1>2
<1>4. there \in Stages \ {"deep"} /\ there \notin Kept
  BY DEF Stages, Pending, Kept
<1>5. /\ Good' /\ Only(r, c) /\ record' \in [Roots -> [FnCalls -> Record]]
      /\ record'[r][c] = [record[r][c] EXCEPT !.at = there]
  BY <1>1, <1>3, <1>4, MoveKeeps DEF DropDeep
<1>6. Typed'
  BY <1>3, <1>5 DEF IInv, Typed, DropDeep, Entered
<1>7. Still
  <2>1. record'[r][c].at = there /\ record'[r][c].leftOut = record[r][c].leftOut
    BY <1>5 DEF IInv, Typed, Record
  <2>2. record[r][c].at \notin AdmittedAt /\ record'[r][c].at \notin AdmittedAt
    BY <1>1, <2>1, <1>3 DEF AdmittedAt, Kept
  <2> QED
    BY <1>5, <2>1, <2>2 DEF Still, Only
<1> QED
  BY <1>5, <1>6, <1>7, StillCounts DEF IInv, DropDeep

LEMMA CountDropKeeps ==
  ASSUME IInv, NEW r \in Roots, NEW c \in FnCalls, CountDrop(r, c)
  PROVE  IInv'
<1> USE DEF IInv
<1>1. /\ record[r][c].at = "dropping" /\ call[c] # "new" /\ record[r][c].leftOut = FALSE
      /\ c \in TooDeep /\ (Selective => record[r][c].interceptionOnly)
  BY DEF CountDrop, Good, CallGood, RecordGood, NoRecord, Typed, Record
<1> DEFINE new == [record[r][c] EXCEPT !.at = Onward, !.leftOut = TRUE]
<1>2. /\ new \in Record /\ new.at = Onward /\ new.leftOut = TRUE
      /\ new.interceptionOnly = record[r][c].interceptionOnly
  <2>1. record[r][c] \in Record /\ Onward \in Stages
    BY DEF Typed, Onward, Stages, Pending
  <2> QED
    BY <2>1 DEF Record
<1>3. record' = [record EXCEPT ![r] = [record[r] EXCEPT ![c] = new]]
  <2>1. record[r] \in [FnCalls -> Record] /\ record \in [Roots -> [FnCalls -> Record]]
    BY DEF Typed
  <2> QED
    BY <2>1 DEF CountDrop
<1> HIDE DEF new
<1>4. record' \in [Roots -> [FnCalls -> Record]] /\ record'[r][c] = new /\ Only(r, c)
  BY <1>2, <1>3 DEF Typed, Only
<1>5. Typed'
  BY <1>4 DEF Typed, CountDrop, Dropped, Entered
<1>6. Onward = "none" => r \notin entering'[c]
  BY DEF Onward, CountDrop, Dropped, Entered, Typed
<1>7. Onward = "adding" => UNCHANGED entering /\ Selective
  BY DEF Onward, CountDrop, Dropped
<1>8. RecordGood(r, c)'
  BY <1>1, <1>2, <1>4, <1>6, <1>7 DEF Good, RecordGood, CountDrop, TooDeep, Selective, Pending, Onward
<1>9. Good'
  BY <1>1, <1>2, <1>4, <1>8, OneRecord DEF CountDrop, Dropped, Onward, Kept
<1>10. ASSUME NEW q \in Roots PROVE CountGood(q)'
  <2>1. CapturedBy(q)' = CapturedBy(q)
    BY <1>1, <1>2, <1>4 DEF CapturedBy, Admitted, Records, In, Only, Onward
  <2>2. CASE q # r
    <3>1. LeftOut(q)' = LeftOut(q)
      BY <1>4, <2>2 DEF LeftOut, Only
    <3> QED
      BY <2>1, <2>2, <3>1 DEF CountGood, CountDrop, TooDeep, Typed
  <2>3. CASE q = r
    <3>1. LeftOut(r)' = LeftOut(r) \cup {c} /\ c \notin LeftOut(r)
      BY <1>1, <1>2, <1>4 DEF LeftOut, Only
    <3>2. LeftOut(r)' \ TooDeep' = LeftOut(r) \ TooDeep
      BY <1>1, <3>1 DEF TooDeep, CountDrop
    <3>3. /\ Cardinality(LeftOut(r)) \in Nat
          /\ Cardinality(LeftOut(r)') = Cardinality(LeftOut(r)) + 1
          /\ Cardinality(LeftOut(r) \ TooDeep) \in Nat
      BY <3>1, OneMore, Smaller DEF LeftOut
    <3>4. captured'[r] = captured[r] /\ dropped'[r] = dropped[r] + 1 /\ UNCHANGED <<opts, completions, reported>>
      BY DEF CountDrop, Typed
    <3>5. CountGood(r) /\ TooDeep' = TooDeep /\ completions[r] \in Nat /\ reported[r] \in Nat
      BY DEF CountDrop, TooDeep, Typed
    <3>6. Cardinality(LeftOut(r)' \ TooDeep') = Cardinality(LeftOut(r) \ TooDeep)
      BY <3>2
    <3>7. completions'[r] = 1 => reported'[r] \in Cardinality(LeftOut(r)' \ TooDeep') .. Cardinality(LeftOut(r)')
      BY <3>3, <3>4, <3>5, <3>6 DEF CountGood
    <3>8. captured'[r] = Cardinality(CapturedBy(r)') /\ captured'[r] <= opts'.maxSpans
      BY <2>1, <2>3, <3>4, <3>5 DEF CountGood
    <3>9. dropped'[r] = Cardinality(LeftOut(r)')
      BY <3>3, <3>4, <3>5 DEF CountGood
    <3> QED
      BY <2>3, <3>7, <3>8, <3>9 DEF CountGood
  <2> QED
    BY <2>2, <2>3
<1> QED
  BY <1>5, <1>9, <1>10

(* A step of one record changes no count of another root.                  *)
LEMMA OtherRoots ==
  ASSUME IInv, NEW r \in Roots, NEW c \in FnCalls, Only(r, c), UNCHANGED <<opts, completions, reported>>,
         \A q \in Roots \ {r} : captured'[q] = captured[q] /\ dropped'[q] = dropped[q]
  PROVE  \A q \in Roots \ {r} : CountGood(q)'
<1> SUFFICES ASSUME NEW q \in Roots \ {r} PROVE CountGood(q)'
  OBVIOUS
<1>1. CapturedBy(q)' = CapturedBy(q)
  BY DEF CapturedBy, Admitted, Records, In, Only
<1>2. LeftOut(q)' = LeftOut(q)
  BY DEF LeftOut, Only
<1>3. TooDeep' = TooDeep
  BY DEF TooDeep
<1> QED
  BY <1>1, <1>2, <1>3 DEF CountGood, IInv

LEMMA AddKeeps ==
  ASSUME IInv, NEW r \in Roots, NEW c \in FnCalls, Add(r, c)
  PROVE  IInv'
<1> USE DEF IInv
<1>1. /\ record[r][c].at = "adding" /\ call[c] # "new" /\ r \in entering[c]
      /\ Opens[r] # c /\ RecordGood(r, c) /\ CountGood(r)
      /\ record[r][c] \in Record /\ opts.maxSpans \in Nat
  BY SubtreeAssumption DEF Add, Good, CallGood, RecordGood, NoRecord, Pending, Typed
<1>2. UNCHANGED <<opts, call, opened, closed, complete, completions, reported>> /\ Entered(r, c)
       /\ r \notin entering'[c]
  BY DEF Add, Entered, Typed
<1>3. entering' \in [FnCalls -> SUBSET Roots]
  BY <1>2 DEF Entered, Typed
<1>4. TooDeep' = TooDeep /\ Selective' = Selective /\ c \notin CapturedBy(r)
  BY <1>1, <1>2 DEF TooDeep, Selective, CapturedBy, Admitted, Records, In
<1>5. CASE ~Active(r) /\ At(r, c, "none") /\ UNCHANGED <<captured, dropped>>
  <2>1. /\ Good' /\ Only(r, c) /\ record' \in [Roots -> [FnCalls -> Record]]
        /\ record'[r][c] = [record[r][c] EXCEPT !.at = "none"]
    BY <1>1, <1>2, <1>5, MoveKeeps DEF Stages, Pending, Kept
  <2>2. record'[r][c].at = "none" /\ record'[r][c].leftOut = record[r][c].leftOut
    BY <2>1, <1>1 DEF Record
  <2>3. Still
    BY <1>1, <2>1, <2>2 DEF Still, Only, AdmittedAt, Kept
  <2> QED
    BY <1>2, <1>3, <1>5, <2>1, <2>3, StillCounts DEF Typed
<1>6. CASE /\ Active(r) /\ Full(r, c) /\ UNCHANGED captured
           /\ dropped' = [dropped EXCEPT ![r] = @ + 1]
           /\ record' = [record EXCEPT ![r][c] =
                [at |-> IF Selective THEN "live" ELSE "none", interceptionOnly |-> Selective, leftOut |-> TRUE]]
  <2> DEFINE new == [at |-> IF Selective THEN "live" ELSE "none", interceptionOnly |-> Selective, leftOut |-> TRUE]
  <2>1. record' = [record EXCEPT ![r] = [record[r] EXCEPT ![c] = new]]
    BY <1>6
  <2>2. /\ new \in Record /\ new.leftOut = TRUE /\ new.at \in {"live", "none"}
        /\ new.at = "live" => new.interceptionOnly
    BY DEF Record, Stages, Kept, Selective
  <2> HIDE DEF new
  <2>3. record' \in [Roots -> [FnCalls -> Record]] /\ record'[r][c] = new /\ Only(r, c)
    BY <2>1, <2>2 DEF Typed, Only
  <2>4. record[r][c].leftOut = FALSE /\ c \notin Declared
    BY <1>1, <1>6 DEF Full, Captures, RecordGood, Record
  <2>5. RecordGood(r, c)'
    BY <1>2, <2>2, <2>3, <2>4 DEF RecordGood, Pending
  <2>6. Good'
    BY <1>1, <1>2, <1>6, <2>3, <2>5, OneRecord DEF Active
  <2>7. Typed'
    BY <1>2, <1>3, <1>6, <2>3 DEF Typed
  <2>8. CapturedBy(r)' = CapturedBy(r)
    BY <1>1, <2>2, <2>3 DEF CapturedBy, Admitted, Records, In, Only
  <2>9. LeftOut(r)' = LeftOut(r) \cup {c} /\ c \notin LeftOut(r)
    BY <2>2, <2>3, <2>4 DEF LeftOut, Only
  <2>10. Cardinality(LeftOut(r)') = Cardinality(LeftOut(r)) + 1
    BY <2>9, OneMore DEF LeftOut
  <2>11. completions'[r] # 1
    BY <1>2, <1>6 DEF Active, Good, RootGood
  <2>12. dropped'[r] = dropped[r] + 1
    BY <1>6 DEF Typed
  <2>13. CountGood(r)'
    BY <1>1, <1>2, <1>6, <2>8, <2>10, <2>11, <2>12 DEF CountGood
  <2>14. \A q \in Roots \ {r} : CountGood(q)'
    BY <1>2, <1>6, <2>3, OtherRoots DEF Typed
  <2> QED
    BY <2>6, <2>7, <2>13, <2>14
<1>7. CASE /\ Active(r) /\ ~Full(r, c) /\ At(r, c, "live") /\ UNCHANGED dropped
           /\ captured' = [captured EXCEPT ![r] = IF Captures(r, c) THEN @ + 1 ELSE @]
  <2>1. /\ record' \in [Roots -> [FnCalls -> Record]] /\ Only(r, c)
        /\ record'[r][c] = [record[r][c] EXCEPT !.at = "live"]
    BY <1>7, AtEffect DEF Stages, Kept
  <2>2. /\ record'[r][c].at = "live" /\ record'[r][c].leftOut = record[r][c].leftOut
        /\ record'[r][c].interceptionOnly = record[r][c].interceptionOnly
    BY <1>1, <2>1 DEF Record
  <2>3. RecordGood(r, c)'
    BY <1>1, <1>4, <2>2 DEF RecordGood, Pending
  <2>4. Good'
    BY <1>1, <1>2, <1>7, <2>1, <2>3, OneRecord DEF Active
  <2>5. Typed'
    <3>1. captured' \in [Roots -> Nat]
      BY <1>7 DEF Typed
    <3> QED
      BY <1>2, <1>3, <1>7, <2>1, <3>1 DEF Typed
  <2>6. LeftOut(r)' = LeftOut(r)
    BY <2>1, <2>2 DEF LeftOut, Only
  <2>7. CapturedBy(r)' = IF Captures(r, c) THEN CapturedBy(r) \cup {c} ELSE CapturedBy(r)
    BY <1>1, <2>1, <2>2 DEF CapturedBy, Admitted, Records, In, Only, Captures
  <2>8. Cardinality(CapturedBy(r) \cup {c}) = Cardinality(CapturedBy(r)) + 1
    BY <1>4, OneMore DEF CapturedBy, Admitted, Records, In
  <2>9. captured'[r] = IF Captures(r, c) THEN captured[r] + 1 ELSE captured[r]
    BY <1>7 DEF Typed
  <2>10. Captures(r, c) => captured[r] + 1 <= opts.maxSpans
    BY <1>1, <1>7 DEF Full, Typed
  <2>11. captured'[r] = Cardinality(CapturedBy(r)') /\ captured'[r] <= opts'.maxSpans
    BY <1>1, <1>2, <2>7, <2>8, <2>9, <2>10 DEF CountGood
  <2>12. completions'[r] # 1 /\ dropped'[r] = Cardinality(LeftOut(r)')
    BY <1>1, <1>2, <1>7, <2>6 DEF Active, Good, RootGood, CountGood
  <2>13. CountGood(r)'
    BY <2>11, <2>12 DEF CountGood
  <2>14. \A q \in Roots \ {r} : CountGood(q)'
    BY <1>2, <1>7, <2>1, OtherRoots DEF Typed
  <2> QED
    BY <2>4, <2>5, <2>13, <2>14
<1> QED
  BY <1>5, <1>6, <1>7 DEF Add

------------------------------------------------------------------------------
(* The records of an ended call move on in all roots at once.              *)
LEMMA EndedKeeps ==
  ASSUME IInv, NEW c \in FnCalls, call[c] # "new",
         NEW from \in Kept, NEW there \in Kept,
         record' = [r \in Roots |-> IF record[r][c].at = from
                                    THEN [record[r] EXCEPT ![c].at = there] ELSE record[r]],
         call' \in [FnCalls -> {"new", "running", "over"}],
         \A d \in FnCalls : call'[d] = "new" <=> call[d] = "new",
         UNCHANGED <<opts, entering, opened, closed, captured, dropped, complete, completions, reported>>
  PROVE  IInv'
<1> USE DEF IInv
<1> DEFINE new(r) == [record[r][c] EXCEPT !.at = there]
<1>1. ASSUME NEW r \in Roots
      PROVE  /\ new(r) \in Record /\ new(r).at = there /\ new(r).leftOut = record[r][c].leftOut
             /\ new(r).interceptionOnly = record[r][c].interceptionOnly
  <2>1. record[r][c] \in Record /\ there \in Stages
    BY DEF Typed, Stages
  <2> QED
    BY <2>1, Moved
<1>2. ASSUME NEW r \in Roots
      PROVE  /\ record'[r] = IF record[r][c].at = from THEN [record[r] EXCEPT ![c] = new(r)] ELSE record[r]
             /\ record[r] \in [FnCalls -> Record]
  BY DEF Typed
<1> HIDE DEF new
<1>3. record' \in [Roots -> [FnCalls -> Record]]
  <2>1. ASSUME NEW r \in Roots PROVE record'[r] \in [FnCalls -> Record]
    BY <1>1, <1>2
  <2> QED
    BY <2>1
<1>4. ASSUME NEW r \in Roots, NEW d \in FnCalls
      PROVE  record'[r][d] = IF d = c /\ record[r][d].at = from THEN new(r) ELSE record[r][d]
  BY <1>2
<1>5. ASSUME NEW r \in Roots, NEW d \in FnCalls
      PROVE  /\ record'[r][d].leftOut = record[r][d].leftOut
             /\ record'[r][d].interceptionOnly = record[r][d].interceptionOnly
             /\ record'[r][d].at = IF d = c /\ record[r][d].at = from THEN there ELSE record[r][d].at
  <2>1. CASE d = c /\ record[r][d].at = from
    <3>1. record'[r][d] = new(r)
      BY <1>4, <2>1
    <3> QED
      BY <1>1, <2>1, <3>1
  <2>2. CASE ~(d = c /\ record[r][d].at = from)
    <3>1. record'[r][d] = record[r][d]
      BY <1>4, <2>2
    <3> QED
      BY <2>2, <3>1
  <2> QED
    BY <2>1, <2>2
<1>6. Typed'
  BY <1>3 DEF Typed
<1>7. \A d \in FnCalls : CallGood(d)'
  BY <1>4 DEF Good, CallGood
<1>8. \A r \in Roots, d \in FnCalls : RecordGood(r, d)'
  <2> SUFFICES ASSUME NEW r \in Roots, NEW d \in FnCalls PROVE RecordGood(r, d)'
    OBVIOUS
  <2>1. TooDeep' = TooDeep /\ Selective' = Selective /\ RecordGood(r, d)
    BY DEF TooDeep, Selective, Good
  <2>2. there \notin Pending \cup {"none"}
    BY DEF Kept, Pending
  <2> QED
    BY <1>5, <2>1, <2>2 DEF RecordGood, Pending
<1>9. \A r \in Roots : RootGood(r)'
  <2> SUFFICES ASSUME NEW r \in Roots PROVE RootGood(r)'
    OBVIOUS
  <2>1. Records(r)' = Records(r)
    BY <1>5 DEF Records, In, Kept
  <2> QED
    BY <2>1, SubtreeAssumption DEF Good, RootGood, Managed
<1>10. Still
  BY <1>5 DEF Still, AdmittedAt
<1> QED
  BY <1>6, <1>7, <1>8, <1>9, <1>10, StillCounts DEF Good

LEMMA EndKeeps ==
  ASSUME IInv, NEW c \in FnCalls, End(c)
  PROVE  IInv'
<1>1. PICK there \in {"finalize", "send"} :
         record' = [r \in Roots |-> IF record[r][c].at = "live"
                                    THEN [record[r] EXCEPT ![c].at = there] ELSE record[r]]
  <2>1. PICK there \in {"finalize", "send"} :
           record' = [r \in Roots |-> IF r \in {q \in Roots : record[q][c].at = "live"}
                                      THEN [record[r] EXCEPT ![c].at = there] ELSE record[r]]
    BY DEF End
  <2> QED
    BY <2>1
<1>2. call' \in [FnCalls -> {"new", "running", "over"}] /\ \A d \in FnCalls : call'[d] = "new" <=> call[d] = "new"
  BY DEF End, IInv, Typed
<1>3. "live" \in Kept /\ there \in Kept
  BY DEF Kept
<1>4. call[c] # "new"
       /\ UNCHANGED <<opts, entering, opened, closed, captured, dropped, complete, completions, reported>>
  BY DEF End
<1> QED
  BY <1>1, <1>2, <1>3, <1>4, EndedKeeps

LEMMA RunFinalizerKeeps ==
  ASSUME IInv, NEW c \in FnCalls, RunFinalizer(c)
  PROVE  IInv'
<1>1. call[c] # "new"
  BY DEF RunFinalizer, IInv, Good, CallGood, NoRecord
<1>2. "finalize" \in Kept /\ "send" \in Kept
  BY DEF Kept
<1> QED
  BY <1>1, <1>2, EndedKeeps DEF RunFinalizer, IInv, Typed

LEMMA FinishKeeps ==
  ASSUME IInv, NEW r \in Roots, NEW c \in FnCalls, Finish(r, c)
  PROVE  IInv'
<1>1. call[c] # "new" /\ record[r][c].at = "send" /\ At(r, c, "try")
  BY DEF Finish, IInv, Good, CallGood, NoRecord
<1>2. /\ Good' /\ Only(r, c) /\ record' \in [Roots -> [FnCalls -> Record]]
      /\ record'[r][c] = [record[r][c] EXCEPT !.at = "try"]
  BY <1>1, MoveKeeps DEF Finish, Stages, Pending, Kept
<1>3. Typed'
  BY <1>2 DEF IInv, Typed, Finish
<1>4. Still
  <2>1. /\ record'[r][c].at = "try" /\ record'[r][c].leftOut = record[r][c].leftOut
        /\ record'[r][c].interceptionOnly = record[r][c].interceptionOnly
    BY <1>2 DEF IInv, Typed, Record
  <2> QED
    BY <1>1, <1>2, <2>1 DEF Still, Only, AdmittedAt, Kept
<1> QED
  BY <1>2, <1>3, <1>4, StillCounts DEF IInv, Finish

------------------------------------------------------------------------------
(* tryComplete: a root is completed when nothing is left in it, and the    *)
(* number it reports is the number of calls left out so far.               *)
LEMMA Completes ==
  ASSUME IInv, NEW r \in Roots, TryComplete(r), Still, \A q \in Roots : Records(q)' = Records(q),
         UNCHANGED <<opts, call, opened, closed, captured, dropped, complete>>
  PROVE  /\ completions' \in [Roots -> Nat] /\ reported' \in [Roots -> Nat]
         /\ \A q \in Roots : RootGood(q)' /\ CountGood(q)'
<1> USE DEF IInv
<1>1. completions' \in [Roots -> Nat] /\ reported' \in [Roots -> Nat]
  <2>1. /\ completions \in [Roots -> Nat] /\ reported \in [Roots -> Nat]
        /\ completions[r] + 1 \in Nat /\ dropped[r] \in Nat
    BY DEF Typed
  <2>2. CASE Ready(r) /\ First(r)
    BY <2>1, <2>2 DEF TryComplete
  <2>3. CASE ~(Ready(r) /\ First(r))
    BY <2>1, <2>3 DEF TryComplete
  <2> QED
    BY <2>2, <2>3
<1>2. ASSUME NEW q \in Roots PROVE RootGood(q)'
  BY DEF Good, RootGood, TryComplete, Ready, First, Managed, Typed
<1>3. ASSUME NEW q \in Roots PROVE CountGood(q)'
  <2>1. CapturedBy(q)' = CapturedBy(q)
    BY DEF Still, CapturedBy, Admitted, Records, In, AdmittedAt, Kept
  <2>2. LeftOut(q)' = LeftOut(q) /\ TooDeep' = TooDeep /\ CountGood(q)
    BY DEF Still, LeftOut, TooDeep
  <2>3. CASE UNCHANGED <<completions, reported>> \/ q # r
    BY <2>1, <2>2, <2>3 DEF CountGood, TryComplete, Typed
  <2>4. CASE q = r /\ reported' = [reported EXCEPT ![r] = dropped[r]]
    <3>1. reported'[q] = Cardinality(LeftOut(q))
      BY <2>2, <2>4 DEF CountGood, Typed
    <3>2. Cardinality(LeftOut(q)) \in Nat /\ Cardinality(LeftOut(q) \ TooDeep) \in Nat
           /\ Cardinality(LeftOut(q) \ TooDeep) <= Cardinality(LeftOut(q))
      BY Smaller DEF LeftOut
    <3>3. reported'[q] \in Cardinality(LeftOut(q)' \ TooDeep') .. Cardinality(LeftOut(q)')
      BY <2>2, <3>1, <3>2
    <3>4. captured'[q] = Cardinality(CapturedBy(q)') /\ captured'[q] <= opts'.maxSpans
           /\ dropped'[q] = Cardinality(LeftOut(q)')
      BY <2>1, <2>2 DEF CountGood
    <3> QED
      BY <3>3, <3>4 DEF CountGood
  <2> QED
    BY <2>3, <2>4 DEF TryComplete
<1> QED
  BY <1>1, <1>2, <1>3

LEMMA LeaveKeeps ==
  ASSUME IInv, NEW r \in Roots, NEW c \in FnCalls, Leave(r, c)
  PROVE  IInv'
<1> USE DEF IInv
<1>1. call[c] # "new" /\ record[r][c].at = "try" /\ RecordGood(r, c)
  BY DEF Leave, Good, CallGood, NoRecord
<1>2. /\ record' \in [Roots -> [FnCalls -> Record]] /\ Only(r, c)
      /\ record'[r][c] = [record[r][c] EXCEPT !.at = "gone"]
  BY AtEffect DEF Leave, Stages
<1>3. /\ record'[r][c].at = "gone" /\ record'[r][c].leftOut = record[r][c].leftOut
      /\ record'[r][c].interceptionOnly = record[r][c].interceptionOnly
  BY <1>2 DEF Typed, Record
<1>4. Still
  BY <1>1, <1>2, <1>3 DEF Still, Only, AdmittedAt, Kept
<1>5. \A q \in Roots : Records(q)' = Records(q)
  BY <1>1, <1>2, <1>3 DEF Records, In, Only
<1>6. /\ completions' \in [Roots -> Nat] /\ reported' \in [Roots -> Nat]
      /\ \A q \in Roots : RootGood(q)' /\ CountGood(q)'
  BY <1>4, <1>5, Completes DEF Leave
<1>7. RecordGood(r, c)'
  BY <1>1, <1>3 DEF RecordGood, Pending, TooDeep, Leave
<1>8. (\A d \in FnCalls : CallGood(d)') /\ \A q \in Roots, d \in FnCalls : RecordGood(q, d)'
  BY <1>1, <1>2, <1>7, OneRecordRest DEF Leave
<1> QED
  BY <1>2, <1>6, <1>8 DEF Good, Typed, Leave

LEMMA TryRootKeeps ==
  ASSUME IInv, NEW r \in Roots, NEW who, TryRoot(r, who)
  PROVE  IInv'
<1>1. Still /\ \A q \in Roots : Records(q)' = Records(q)
  BY DEF TryRoot, Still, Records, In
<1>2. /\ completions' \in [Roots -> Nat] /\ reported' \in [Roots -> Nat]
      /\ \A q \in Roots : RootGood(q)' /\ CountGood(q)'
  BY <1>1, Completes DEF TryRoot
<1>3. \A c \in FnCalls : CallGood(c)'
  BY DEF IInv, Good, CallGood, TryRoot
<1>4. \A q \in Roots, c \in FnCalls : RecordGood(q, c)'
  BY DEF IInv, Good, RecordGood, TryRoot, Selective, TooDeep
<1> QED
  BY <1>2, <1>3, <1>4 DEF IInv, Good, Typed, TryRoot

LEMMA CloseKeeps ==
  ASSUME IInv, NEW r \in Roots, Close(r)
  PROVE  IInv'
<1> USE DEF IInv
<1> DEFINE new(c) == [record[r][c] EXCEPT !.at = "send"]
           left == [c \in FnCalls |-> IF c \in Unfinished(r) THEN new(c) ELSE record[r][c]]
<1>1. ASSUME NEW c \in FnCalls
      PROVE  /\ new(c) \in Record /\ new(c).at = "send" /\ new(c).leftOut = record[r][c].leftOut
             /\ new(c).interceptionOnly = record[r][c].interceptionOnly
  <2>1. record[r][c] \in Record /\ "send" \in Stages
    BY DEF Typed, Stages, Kept
  <2> QED
    BY <2>1, Moved
<1>2. record' = [record EXCEPT ![r] = left]
  BY DEF Close, Typed
<1> HIDE DEF new
<1>3. left \in [FnCalls -> Record]
  BY <1>1 DEF Typed
<1>4. ASSUME NEW q \in Roots, NEW c \in FnCalls
      PROVE  record'[q][c] = IF q = r /\ record[q][c].at = "live" THEN new(c) ELSE record[q][c]
  BY <1>2 DEF Typed, Unfinished, In
<1>5. record' \in [Roots -> [FnCalls -> Record]]
  BY <1>2, <1>3 DEF Typed
<1> HIDE DEF left
<1>6. ASSUME NEW q \in Roots, NEW c \in FnCalls
      PROVE  /\ record'[q][c].leftOut = record[q][c].leftOut
             /\ record'[q][c].interceptionOnly = record[q][c].interceptionOnly
             /\ record'[q][c].at = IF q = r /\ record[q][c].at = "live" THEN "send" ELSE record[q][c].at
  BY <1>1, <1>4
<1>7. Typed'
  BY <1>5 DEF Typed, Close
<1>8. \A c \in FnCalls : CallGood(c)'
  <2> SUFFICES ASSUME NEW c \in FnCalls PROVE CallGood(c)'
    OBVIOUS
  <2>1. CallGood(c) /\ UNCHANGED <<call, entering>>
    BY DEF Good, Close
  <2>2. ASSUME NEW q \in Roots, record[q][c] = NoRecord PROVE record'[q][c] = NoRecord
    <3>1. record[q][c].at # "live"
      BY <2>2 DEF NoRecord
    <3> QED
      BY <1>4, <2>2, <3>1
  <2> QED
    BY <2>1, <2>2 DEF CallGood
<1>9. \A q \in Roots, c \in FnCalls : RecordGood(q, c)'
  <2> SUFFICES ASSUME NEW q \in Roots, NEW c \in FnCalls PROVE RecordGood(q, c)'
    OBVIOUS
  <2>1. TooDeep' = TooDeep /\ Selective' = Selective /\ RecordGood(q, c) /\ UNCHANGED entering
    BY DEF TooDeep, Selective, Good, Close
  <2> QED
    BY <1>6, <2>1 DEF RecordGood, Pending
<1>10. \A q \in Roots : RootGood(q)'
  <2> SUFFICES ASSUME NEW q \in Roots PROVE RootGood(q)'
    OBVIOUS
  <2>1. Records(q)' = Records(q)
    BY <1>6 DEF Records, In
  <2> QED
    BY <2>1 DEF Good, RootGood, Managed, Close
<1>11. Still
  BY <1>6 DEF Still, AdmittedAt, Kept
<1> QED
  BY <1>7, <1>8, <1>9, <1>10, <1>11, StillCounts DEF Good, Close

LEMMA HandOverKeeps ==
  ASSUME IInv, NEW r \in Roots, HandOver(r)
  PROVE  IInv'
<1> USE DEF IInv, HandOver
<1>1. Typed'
  BY DEF Typed
<1>2. \A c \in FnCalls : CallGood(c)'
  BY DEF Good, CallGood
<1>3. \A q \in Roots, c \in FnCalls : RecordGood(q, c)'
  BY DEF Good, RecordGood, TooDeep, Selective
<1>4. \A q \in Roots : RootGood(q)'
  BY DEF Good, RootGood, Records, In, Managed
<1>5. Still
  BY DEF Still
<1> QED
  BY <1>1, <1>2, <1>3, <1>4, <1>5, StillCounts DEF Good

LEMMA StutterKeeps ==
  ASSUME IInv, UNCHANGED vars
  PROVE  IInv'
<1> USE DEF IInv, vars
<1>1. Typed'
  BY DEF Typed
<1>2. \A c \in FnCalls : CallGood(c)'
  BY DEF Good, CallGood
<1>3. \A q \in Roots, c \in FnCalls : RecordGood(q, c)'
  BY DEF Good, RecordGood, TooDeep, Selective
<1>4. \A q \in Roots : RootGood(q)'
  BY DEF Good, RootGood, Records, In, Managed
<1>5. Still
  BY DEF Still
<1> QED
  BY <1>1, <1>2, <1>3, <1>4, <1>5, StillCounts DEF Good

LEMMA NextIInv == IInv /\ [Next]_vars => IInv'
<1> SUFFICES ASSUME IInv, [Next]_vars PROVE IInv'
  OBVIOUS
<1>1. CASE \E r \in Roots : Close(r) \/ HandOver(r) \/ \E who \in {"close", "handOver"} : TryRoot(r, who)
  BY <1>1, CloseKeeps, HandOverKeeps, TryRootKeeps
<1>2. CASE \E c \in FnCalls : RunFinalizer(c) \/ Enter(c) \/ End(c)
  BY <1>2, RunFinalizerKeeps, EnterKeeps, EndKeeps
<1>3. CASE \E r \in Roots, c \in FnCalls : Check(r, c) \/ DropDeep(r, c) \/ CountDrop(r, c)
  BY <1>3, CheckKeeps, DropDeepKeeps, CountDropKeeps
<1>4. CASE \E r \in Roots, c \in FnCalls : Add(r, c) \/ Finish(r, c) \/ Leave(r, c)
  BY <1>4, AddKeeps, FinishKeeps, LeaveKeeps
<1>5. CASE UNCHANGED vars
  BY <1>5, StutterKeeps
<1> QED
  BY <1>1, <1>2, <1>3, <1>4, <1>5 DEF Next, SDKStep

LEMMA Invariance == Spec => []IInv
BY InitIInv, NextIInv, PTL DEF Spec

------------------------------------------------------------------------------
(* The completion of a trace is sent once, with nothing of the trace left  *)
(* behind it, and reports the calls the limits left out (tryComplete).     *)
THEOREM CompletionComesLast == Spec => []CompletionLast
<1>1. IInv => CompletionLast
  BY DEF IInv, Good, RootGood, CountGood, CompletionLast
<1> QED
  BY <1>1, Invariance, PTL

(* The span limit counts the calls it is about and no others, and refuses  *)
(* no call the plan does not apply to (autoRoot.add).                      *)
THEOREM LimitIsExact == Spec => []LimitExact
<1>1. ASSUME IInv, NEW r \in Roots PROVE LeftOut(r) \cap Declared \subseteq TooDeep
  BY <1>1 DEF IInv, Good, RecordGood, LeftOut
<1>2. IInv => LimitExact
  BY <1>1 DEF IInv, CountGood, CapturedBy, LimitExact
<1> QED
  BY <1>2, Invariance, PTL

------------------------------------------------------------------------------
(* The scopes.                                                             *)

(* A scope that is in use is that of a call that has begun.                *)
Begun(s) == s = None \/ state[s] # "new"

ScopesTyped ==
  /\ state \in [Calls -> {"new", "open", "over"}]
  /\ scope \in [Calls -> Calls \cup {None}] /\ previous \in [Calls -> Calls \cup {None}]
  /\ home \in [Calls -> Goroutines \cup {0}]
  /\ frames \in [Calls -> SUBSET Calls]
  /\ current \in [Goroutines -> Calls \cup {None}]
  /\ stack \in [Goroutines -> Seq(Calls)]

(* A call inherits the traces of the scope it found; a span is not entered *)
(* in a scope that records, and has none to restore.                       *)
Inherits(c) ==
  /\ \A t \in frames[c] : Kind[t] = "trace" /\ state[t] # "new"
  /\ state[c] # "new" =>
       /\ home[c] \in Goroutines /\ Begun(scope[c]) /\ Begun(previous[c])
       /\ Kind[c] # "go" => scope[c] = c
       /\ Kind[c] \in {"trace", "node"} => Traces(previous[c]) \subseteq frames[c]
       /\ Kind[c] \in {"span", "start"} => ~Recording(previous[c])

(* What the call at place k of a goroutine's stack restores: the scope of  *)
(* the call it is in, as far as either of them records.                    *)
Puts(g, k) ==
  LET c == stack[g][k] IN
  /\ k = 1 => ~Recording(previous[c])
  /\ k > 1 => /\ Recording(previous[c]) => scope[stack[g][k - 1]] = previous[c]
              /\ Recording(stack[g][k - 1]) => previous[c] = stack[g][k - 1]

Place(g, k) ==
  /\ state[stack[g][k]] # "new" /\ home[stack[g][k]] = g /\ Kind[stack[g][k]] # "start"
  /\ IF Kind[stack[g][k]] = "go" THEN k = 1 /\ g \notin Main ELSE Puts(g, k)

Nested(g) == Begun(current[g]) /\ \A k \in 1 .. Len(stack[g]) : Place(g, k)

Exact(g) ==
  Running(g) =>
    /\ Recording(current[g]) => stack[g] # <<>> /\ scope[Innermost(g)] = current[g]
    /\ stack[g] # <<>> /\ Recording(Innermost(g)) => current[g] = Innermost(g)

ScopeInv ==
  /\ ScopesTyped
  /\ \A c \in Calls : Inherits(c)
  /\ \A g \in Goroutines : Nested(g) /\ Exact(g)

LEMMA InitScopes == ScopeInit => ScopeInv
<1> SUFFICES ASSUME ScopeInit PROVE ScopeInv
  OBVIOUS
<1>1. ScopesTyped
  BY DEF ScopeInit, ScopesTyped
<1>2. ASSUME NEW c \in Calls PROVE Inherits(c)
  BY <1>2 DEF ScopeInit, Inherits
<1>3. ASSUME NEW g \in Goroutines PROVE Nested(g) /\ Exact(g)
  <2>1. current[g] = None /\ stack[g] = <<>>
    BY DEF ScopeInit
  <2>2. Len(stack[g]) = 0
    BY <2>1
  <2>3. ~Recording(current[g])
    BY <2>1 DEF Recording, Automatic
  <2> QED
    BY <2>1, <2>2, <2>3 DEF Nested, Exact, Begun
<1> QED
  BY <1>1, <1>2, <1>3 DEF ScopeInv

(* A step leaves the calls that have begun as they are, but for their end; *)
(* a trace that is over stays so.                                          *)
Steady ==
  \A c \in Calls : state[c] # "new" =>
    /\ scope'[c] = scope[c] /\ previous'[c] = previous[c] /\ home'[c] = home[c]
    /\ frames'[c] = frames[c] /\ state'[c] # "new"
    /\ state'[c] = "open" => state[c] = "open"

(* So a scope in use never starts to record.                               *)
LEMMA RecordingFades ==
  ASSUME ScopeInv, Steady
  PROVE  \A s \in Calls \cup {None} :
           Begun(s) => /\ Begun(s)' /\ Traces(s)' = Traces(s)
                       /\ (Recording(s)' => Recording(s))
<1> SUFFICES ASSUME NEW s \in Calls \cup {None}, Begun(s)
             PROVE  Begun(s)' /\ Traces(s)' = Traces(s) /\ (Recording(s)' => Recording(s))
  OBVIOUS
<1>1. CASE s = None
  BY <1>1 DEF Begun, Traces, Recording, Automatic
<1>2. CASE s \in Calls /\ s # None
  <2>1. state[s] # "new" /\ frames'[s] = frames[s] /\ state'[s] # "new"
    BY <1>2 DEF Begun, Steady
  <2>2. Traces(s)' = frames[s] /\ Traces(s) = frames[s]
    BY <1>2, <2>1 DEF Traces
  <2>3. \A t \in frames[s] : t \in Calls /\ state[t] # "new"
    BY <1>2 DEF ScopeInv, Inherits, ScopesTyped
  <2>4. \A t \in frames[s] : state'[t] = "open" => state[t] = "open"
    BY <2>3 DEF Steady
  <2> QED
    BY <2>1, <2>2, <2>4 DEF Begun, Recording, Automatic
<1> QED
  BY <1>1, <1>2

(* Only a call that is under way records, and then a Trace is active.      *)
LEMMA RecordingIsActive ==
  ASSUME ScopeInv, NEW s \in Calls \cup {None}, Recording(s)
  PROVE  autoActiveRoots > 0 /\ Automatic(s)
<1>1. PICK t \in Traces(s) : state[t] = "open"
  BY DEF Recording
<1>2. s \in Calls /\ t \in frames[s]
  BY <1>1 DEF Traces
<1>3. t \in Calls /\ Kind[t] = "trace"
  BY <1>2 DEF ScopeInv, ScopesTyped, Inherits
<1>4. t \in Open({"trace"})
  BY <1>1, <1>3 DEF Open
<1>5. IsFiniteSet(Open({"trace"}))
  BY ScopeAssumption, FS_Subset DEF Open
<1>6. Cardinality(Open({"trace"})) \in Nat /\ Cardinality(Open({"trace"})) # 0
  BY <1>4, <1>5, FS_CardinalityType, FS_EmptySet
<1> QED
  BY <1>6 DEF autoActiveRoots, Recording

(* What a push does, call by call.                                         *)
LEMMA PushEffect ==
  ASSUME ScopeInv, NEW c \in Calls, NEW g \in Goroutines, NEW s \in Calls \cup {None},
         Push(c, g, s), s # c => Begun(s)
  PROVE  /\ ScopesTyped' /\ Steady
         /\ state[c] = "new" /\ state'[c] = "open"
         /\ scope'[c] = s /\ previous'[c] = current[g] /\ home'[c] = g /\ current'[g] = s
         /\ frames'[c] = IF Kind[c] = "trace" THEN Traces(current[g]) \cup {c}
                         ELSE IF Kind[c] = "node" THEN Traces(current[g]) ELSE {}
         /\ \A d \in Calls \ {c} : /\ state'[d] = state[d] /\ scope'[d] = scope[d]
                                   /\ previous'[d] = previous[d] /\ home'[d] = home[d]
                                   /\ frames'[d] = frames[d]
         /\ \A h \in Goroutines \ {g} : current'[h] = current[h] /\ stack'[h] = stack[h]
         /\ stack'[g] = IF Kind[c] = "start" THEN stack[g] ELSE Append(stack[g], c)
<1> USE DEF ScopeInv, ScopesTyped
<1>1. Traces(current[g]) \in SUBSET Calls
  BY DEF Traces
<1> DEFINE new == IF Kind[c] = "trace" THEN Traces(current[g]) \cup {c}
                  ELSE IF Kind[c] = "node" THEN Traces(current[g]) ELSE {}
<1>2. new \in SUBSET Calls
  BY <1>1
<1>3. frames' = [frames EXCEPT ![c] = new]
  BY DEF Push
<1> HIDE DEF new
<1>4. frames' \in [Calls -> SUBSET Calls] /\ frames'[c] = new
        /\ \A d \in Calls \ {c} : frames'[d] = frames[d]
  BY <1>2, <1>3
<1>5. /\ stack' \in [Goroutines -> Seq(Calls)]
      /\ \A h \in Goroutines \ {g} : stack'[h] = stack[h]
      /\ stack'[g] = IF Kind[c] = "start" THEN stack[g] ELSE Append(stack[g], c)
  BY DEF Push
<1>6. /\ state' \in [Calls -> {"new", "open", "over"}]
      /\ scope' \in [Calls -> Calls \cup {None}] /\ previous' \in [Calls -> Calls \cup {None}]
      /\ home' \in [Calls -> Goroutines \cup {0}]
      /\ current' \in [Goroutines -> Calls \cup {None}]
  BY DEF Push
<1>7. /\ state[c] = "new" /\ state'[c] = "open"
      /\ scope'[c] = s /\ previous'[c] = current[g] /\ home'[c] = g /\ current'[g] = s
      /\ \A d \in Calls \ {c} : /\ state'[d] = state[d] /\ scope'[d] = scope[d]
                                /\ previous'[d] = previous[d] /\ home'[d] = home[d]
      /\ \A h \in Goroutines \ {g} : current'[h] = current[h]
  BY DEF Push
<1>8. Steady
  BY <1>4, <1>7 DEF Steady
<1> QED
  BY <1>4, <1>5, <1>6, <1>7, <1>8 DEF new

LEMMA PlaceKept ==
  ASSUME ScopeInv, Steady, NEW g \in Goroutines, NEW k \in 1 .. Len(stack[g]),
         stack'[g][k] = stack[g][k], k > 1 => stack'[g][k - 1] = stack[g][k - 1]
  PROVE  Place(g, k)'
<1>0. stack[g] \in Seq(Calls) /\ (k > 1 => k - 1 \in 1 .. Len(stack[g]))
  BY DEF ScopeInv, ScopesTyped
<1>1. PICK c \in Calls : c = stack[g][k]
  BY <1>0
<1>2. Place(g, k) /\ (k > 1 => Place(g, k - 1))
  BY <1>0 DEF ScopeInv, Nested
<1>3. state[c] # "new" /\ Inherits(c)
  BY <1>1, <1>2 DEF Place, ScopeInv
<1>4. previous[c] \in Calls \cup {None} /\ Begun(previous[c])
  BY <1>1, <1>3 DEF ScopeInv, ScopesTyped, Inherits
<1>5. state'[c] # "new" /\ home'[c] = home[c] /\ previous'[c] = previous[c]
  BY <1>1, <1>3 DEF Steady
<1>6. Recording(previous[c])' => Recording(previous[c])
  <2>1. PICK p \in Calls \cup {None} : p = previous[c]
    BY <1>4
  <2>2. Recording(p)' => Recording(p)
    BY <1>4, <2>1, RecordingFades
  <2> QED
    BY <1>5, <2>1, <2>2
<1>7. ASSUME k > 1, NEW d, d = stack[g][k - 1]
      PROVE  scope'[d] = scope[d] /\ (Recording(d)' => Recording(d))
  <2>1. d \in Calls /\ state[d] # "new"
    BY <1>0, <1>2, <1>7 DEF Place
  <2> QED
    BY <2>1, RecordingFades DEF Steady, Begun
<1>8. Puts(g, k) => Puts(g, k)'
  BY <1>1, <1>5, <1>6, <1>7 DEF Puts
<1> QED
  BY <1>1, <1>2, <1>5, <1>8 DEF Place

(* A goroutine that nothing happens on.                                    *)
LEMMA GoroutineKept ==
  ASSUME ScopeInv, Steady, NEW g \in Goroutines,
         current'[g] = current[g], stack'[g] = stack[g]
  PROVE  Nested(g)' /\ Exact(g)'
<1>1. Nested(g) /\ Exact(g)
  BY DEF ScopeInv
<1>2. current[g] \in Calls \cup {None} /\ stack[g] \in Seq(Calls)
  BY DEF ScopeInv, ScopesTyped
<1>3. Begun(current[g])' /\ (Recording(current[g])' => Recording(current[g]))
  BY <1>1, <1>2, RecordingFades DEF Nested
<1>4. \A k \in 1 .. Len(stack[g]) : Place(g, k)'
  BY PlaceKept
<1>5. Nested(g)'
  BY <1>3, <1>4 DEF Nested
<1>6. ASSUME stack[g] # <<>>
      PROVE  /\ Innermost(g)' = Innermost(g) /\ scope'[Innermost(g)] = scope[Innermost(g)]
             /\ Recording(Innermost(g))' => Recording(Innermost(g))
  <2>1. Len(stack[g]) \in 1 .. Len(stack[g])
    BY <1>2, <1>6
  <2>2. Innermost(g) \in Calls /\ state[Innermost(g)] # "new"
    BY <1>1, <1>2, <2>1 DEF Nested, Place, Innermost
  <2>3. Innermost(g)' = Innermost(g)
    BY DEF Innermost
  <2> QED
    BY <2>2, <2>3, RecordingFades DEF Steady, Begun
<1>7. Exact(g)'
  BY <1>1, <1>3, <1>6 DEF Exact, Running
<1> QED
  BY <1>5, <1>7

LEMMA InheritsKept ==
  ASSUME ScopeInv, Steady, NEW d \in Calls, state[d] # "new" \/ (state'[d] = "new" /\ frames'[d] = frames[d])
  PROVE  Inherits(d)'
<1>1. Inherits(d) /\ ScopesTyped
  BY DEF ScopeInv
<1>2. frames'[d] = frames[d] /\ frames[d] \in SUBSET Calls
  BY <1>1 DEF Steady, ScopesTyped
<1>3. \A t \in frames'[d] : Kind[t] = "trace" /\ state'[t] # "new"
  BY <1>1, <1>2 DEF Inherits, Steady
<1>4. CASE state[d] # "new"
  <2>1. /\ scope'[d] = scope[d] /\ previous'[d] = previous[d] /\ home'[d] = home[d]
        /\ scope[d] \in Calls \cup {None} /\ previous[d] \in Calls \cup {None}
    BY <1>1, <1>4 DEF ScopesTyped, Steady
  <2>2. Begun(scope[d]) /\ Begun(previous[d])
    BY <1>1, <1>4 DEF Inherits
  <2>3. /\ Begun(scope[d])' /\ Begun(previous[d])'
        /\ Traces(previous[d])' = Traces(previous[d])
        /\ Recording(previous[d])' => Recording(previous[d])
    BY <2>1, <2>2, RecordingFades
  <2> QED
    BY <1>1, <1>2, <1>3, <1>4, <2>1, <2>3 DEF Inherits
<1>5. CASE state'[d] = "new"
  BY <1>3, <1>5 DEF Inherits
<1> QED
  BY <1>4, <1>5

(* The calls and the other goroutines, at a push.                          *)
LEMMA PushRest ==
  ASSUME ScopeInv, NEW c \in Calls, NEW g \in Goroutines, NEW s \in Calls \cup {None},
         Push(c, g, s), s # c => Begun(s),
         Kind[c] # "go" => s = c,
         Kind[c] \in {"span", "start"} => ~Recording(current[g])
  PROVE  /\ ScopesTyped' /\ \A d \in Calls : Inherits(d)'
         /\ \A h \in Goroutines \ {g} : Nested(h)' /\ Exact(h)'
<1>0. ScopesTyped
  BY DEF ScopeInv
<1>1. ScopesTyped' /\ Steady
  BY PushEffect
<1>2. \A x \in Calls \cup {None} :
        Begun(x) => Begun(x)' /\ Traces(x)' = Traces(x) /\ (Recording(x)' => Recording(x))
  BY <1>1, RecordingFades
<1>3. /\ state[c] = "new" /\ state'[c] = "open"
      /\ scope'[c] = s /\ previous'[c] = current[g] /\ home'[c] = g
      /\ frames'[c] = IF Kind[c] = "trace" THEN Traces(current[g]) \cup {c}
                      ELSE IF Kind[c] = "node" THEN Traces(current[g]) ELSE {}
  BY PushEffect
<1>4. \A d \in Calls \ {c} : /\ state'[d] = state[d] /\ scope'[d] = scope[d]
                             /\ previous'[d] = previous[d] /\ home'[d] = home[d]
                             /\ frames'[d] = frames[d]
  BY PushEffect
<1>5. Begun(current[g]) /\ current[g] \in Calls \cup {None}
  BY <1>0 DEF ScopeInv, ScopesTyped, Nested
<1>6. Begun(s)'
  BY <1>2, <1>3 DEF Begun
<1>7. Inherits(c)'
  <2>1. \A t \in Traces(current[g]) : t \in Calls /\ Kind[t] = "trace" /\ state[t] # "new"
    BY <1>0, <1>5 DEF ScopeInv, ScopesTyped, Inherits, Traces, Begun
  <2>2. \A t \in Traces(current[g]) : state'[t] # "new"
    BY <2>1, <1>1 DEF Steady
  <2>3. \A t \in frames'[c] : Kind[t] = "trace" /\ state'[t] # "new"
    BY <1>3, <2>1, <2>2
  <2>4. Begun(scope[c])' /\ Begun(previous[c])'
    BY <1>2, <1>3, <1>5, <1>6
  <2>5. Kind[c] \in {"trace", "node"} => (Traces(previous[c]) \subseteq frames[c])'
    <3>1. Traces(previous[c])' = Traces(current[g])
      BY <1>2, <1>3, <1>5
    <3> QED
      BY <3>1, <1>3
  <2>6. Kind[c] \in {"span", "start"} => ~Recording(previous[c])'
    BY <1>2, <1>3, <1>5
  <2> QED
    BY <1>3, <2>3, <2>4, <2>5, <2>6 DEF Inherits
<1>8. ASSUME NEW d \in Calls \ {c} PROVE Inherits(d)'
  BY <1>1, <1>4, InheritsKept
<1>9. ASSUME NEW h \in Goroutines \ {g} PROVE Nested(h)' /\ Exact(h)'
  <2>1. current'[h] = current[h] /\ stack'[h] = stack[h]
    BY PushEffect
  <2> QED
    BY <1>1, <2>1, GoroutineKept
<1> QED
  BY <1>1, <1>7, <1>8, <1>9

(* A span, a Trace or a node is entered.                                   *)
LEMMA EnterScopeKeeps ==
  ASSUME ScopeInv, NEW c \in Calls, NEW g \in Goroutines, EnterScope(c, g)
  PROVE  ScopeInv'
<1>1. Push(c, g, c) /\ Running(g) /\ Kind[c] # "go" /\ ~Mixed(c, g)
  BY DEF EnterScope
<1>2. Nested(g) /\ Exact(g) /\ ScopesTyped
  BY DEF ScopeInv
<1>3. Begun(current[g]) /\ current[g] \in Calls \cup {None} /\ stack[g] \in Seq(Calls)
  BY <1>2 DEF Nested, ScopesTyped
<1>4. Kind[c] \in {"span", "start"} => ~Recording(current[g])
  <2> SUFFICES ASSUME Kind[c] \in {"span", "start"}, Recording(current[g]) PROVE FALSE
    OBVIOUS
  <2>1. autoActiveRoots > 0 /\ Automatic(current[g])
    BY <1>3, RecordingIsActive
  <2> QED
    BY <1>1, <2>1 DEF Mixed
<1>5. ScopesTyped' /\ (\A d \in Calls : Inherits(d)')
        /\ \A h \in Goroutines \ {g} : Nested(h)' /\ Exact(h)'
  BY <1>1, <1>4, PushRest
<1>6. /\ Steady /\ state[c] = "new" /\ state'[c] = "open"
      /\ scope'[c] = c /\ previous'[c] = current[g] /\ home'[c] = g /\ current'[g] = c
      /\ stack'[g] = IF Kind[c] = "start" THEN stack[g] ELSE Append(stack[g], c)
  BY <1>1, PushEffect
<1>7. c # None
  BY ScopeAssumption
<1>8. Begun(current[g])'
  BY <1>6 DEF Begun
<1>9. CASE Kind[c] = "start"
  <2>1. stack'[g] = stack[g]
    BY <1>6, <1>9
  <2>2. \A k \in 1 .. Len(stack[g]) : Place(g, k)'
    BY <1>6, <2>1, PlaceKept
  <2>3. Nested(g)'
    BY <1>8, <2>1, <2>2 DEF Nested
  <2>4. ~Recording(current[g])'
    BY <1>6, <1>9 DEF Recording, Automatic
  <2>5. ASSUME stack[g] # <<>> PROVE ~Recording(Innermost(g))'
    <3>1. Len(stack[g]) \in 1 .. Len(stack[g])
      BY <1>3, <2>5
    <3>2. Innermost(g) \in Calls /\ state[Innermost(g)] # "new"
      BY <1>2, <1>3, <3>1 DEF Nested, Place, Innermost
    <3>3. ~Recording(Innermost(g))
      BY <1>1, <1>2, <1>4, <1>9, <2>5 DEF Exact
    <3>4. Innermost(g)' = Innermost(g)
      BY <2>1 DEF Innermost
    <3>5. PICK x \in Calls : x = Innermost(g)
      BY <3>2
    <3>6. ~Recording(x)'
      BY <1>6, <3>2, <3>3, <3>5, RecordingFades DEF Begun
    <3> QED
      BY <3>4, <3>5, <3>6
  <2>6. Exact(g)'
    BY <2>1, <2>4, <2>5 DEF Exact
  <2> QED
    BY <1>5, <2>3, <2>6 DEF ScopeInv
<1>10. CASE Kind[c] # "start"
  <2>1. PICK n \in Nat : n = Len(stack[g])
    BY <1>3
  <2>2. /\ Len(stack'[g]) = n + 1 /\ stack'[g][n + 1] = c /\ stack'[g] # <<>>
        /\ \A k \in 1 .. n : stack'[g][k] = stack[g][k]
    BY <1>3, <1>6, <1>10, <2>1
  <2>3. ASSUME NEW k \in 1 .. n PROVE Place(g, k)'
    <3>1. k \in 1 .. Len(stack[g]) /\ stack'[g][k] = stack[g][k]
            /\ (k > 1 => stack'[g][k - 1] = stack[g][k - 1])
      BY <2>1, <2>2, <2>3
    <3> QED
      BY <1>6, <3>1, PlaceKept
  <2>4. Puts(g, n + 1)'
    <3>1. PICK p \in Calls \cup {None} : p = current[g]
      BY <1>3
    <3>2. previous'[c] = p /\ (Recording(p)' => Recording(p))
      BY <1>3, <1>6, <3>1, RecordingFades
    <3>3. n = 0 => ~Recording(p)
      <4>1. stack[g] # <<>> => Len(stack[g]) > 0
        BY <1>3
      <4>2. n = 0 => stack[g] = <<>>
        BY <2>1, <4>1
      <4> QED
        BY <1>1, <1>2, <3>1, <4>2 DEF Exact
    <3>4. ASSUME n > 0, NEW d, d = stack[g][n]
          PROVE  /\ stack'[g][n] = d
                 /\ Recording(p)' => scope'[d] = p
                 /\ Recording(d)' => p = d
      <4>1. d \in Calls /\ state[d] # "new" /\ stack[g] # <<>> /\ Innermost(g) = d /\ n \in 1 .. n
        BY <1>2, <1>3, <2>1, <3>4 DEF Nested, Place, Innermost
      <4>2. scope'[d] = scope[d] /\ (Recording(d)' => Recording(d))
        BY <1>6, <4>1, RecordingFades DEF Steady, Begun
      <4>3. /\ Recording(p) => scope[d] = p
            /\ Recording(d) => p = d
        BY <1>1, <1>2, <3>1, <4>1 DEF Exact
      <4> QED
        BY <2>2, <3>2, <3>4, <4>1, <4>2, <4>3
    <3> QED
      BY <2>2, <3>2, <3>3, <3>4 DEF Puts
  <2>5. Place(g, n + 1)'
    BY <1>1, <1>6, <1>10, <2>2, <2>4 DEF Place
  <2>6. Nested(g)'
    BY <1>8, <2>2, <2>3, <2>5 DEF Nested
  <2>7. Exact(g)'
    BY <1>6, <2>1, <2>2 DEF Exact, Innermost
  <2> QED
    BY <1>5, <2>6, <2>7 DEF ScopeInv
<1> QED
  BY <1>9, <1>10

(* A goroutine that is launched takes the scope of the one that launches   *)
(* it; nothing has run on it before.                                       *)
LEMMA GoKeeps ==
  ASSUME ScopeInv, NEW c \in Calls, NEW g \in Goroutines, NEW h \in Goroutines, Go(c, g, h)
  PROVE  ScopeInv'
<1>1. Push(c, h, current[g]) /\ ~Running(h) /\ Kind[c] = "go"
  BY DEF Go
<1>2. Begun(current[g]) /\ current[g] \in Calls \cup {None}
  BY DEF ScopeInv, ScopesTyped, Nested
<1>3. ScopesTyped' /\ (\A d \in Calls : Inherits(d)')
        /\ \A i \in Goroutines \ {h} : Nested(i)' /\ Exact(i)'
  BY <1>1, <1>2, PushRest
<1>4. /\ Steady /\ state'[c] = "open"
      /\ scope'[c] = current[g] /\ home'[c] = h /\ current'[h] = current[g]
      /\ stack'[h] = Append(stack[h], c)
  BY <1>1, <1>2, PushEffect
<1>5. stack[h] = <<>> /\ h \notin Main
  BY <1>1 DEF Running
<1>6. Len(stack'[h]) = 1 /\ stack'[h][1] = c /\ stack'[h] # <<>>
  BY <1>4, <1>5
<1>7. Begun(current[h])'
  <2>1. PICK p \in Calls \cup {None} : p = current[g]
    BY <1>2
  <2> QED
    BY <1>2, <1>4, <2>1, RecordingFades
<1>8. Place(h, 1)'
  BY <1>1, <1>4, <1>5, <1>6 DEF Place
<1>9. Nested(h)'
  BY <1>6, <1>7, <1>8 DEF Nested
<1>10. Innermost(h)' = c /\ ~Recording(c)'
  BY <1>1, <1>6 DEF Innermost, Recording, Automatic
<1>11. Exact(h)'
  BY <1>4, <1>6, <1>10 DEF Exact
<1> QED
  BY <1>3, <1>9, <1>11 DEF ScopeInv

(* The call a goroutine is in is over: the scope it restores is that of    *)
(* the call around it, if either records.                                  *)
LEMMA ReturnKeeps ==
  ASSUME ScopeInv, NEW g \in Goroutines, Return(g)
  PROVE  ScopeInv'
<1>1. ScopesTyped /\ stack[g] \in Seq(Calls) /\ stack[g] # <<>> /\ Nested(g) /\ Exact(g)
  BY DEF ScopeInv, ScopesTyped, Return
<1>2. PICK n \in Nat : n = Len(stack[g])
  BY <1>1
<1>3. n \in 1 .. n /\ n > 0
  BY <1>1, <1>2
<1>4. PICK c \in Calls : c = stack[g][n]
  BY <1>1, <1>2, <1>3
<1>5. Place(g, n) /\ Inherits(c) /\ Innermost(g) = c
  BY <1>1, <1>2, <1>3, <1>4 DEF Nested, ScopeInv, Innermost
<1>6. home[c] = g /\ state[c] # "new" /\ previous[c] \in Calls \cup {None} /\ Begun(previous[c])
        /\ Kind[c] # "start"
  BY <1>1, <1>4, <1>5 DEF Place, Inherits, ScopesTyped
<1>7. /\ state' = [state EXCEPT ![c] = "over"]
      /\ scope' = scope /\ previous' = previous /\ home' = home /\ frames' = frames
      /\ current' = IF current[g] = scope[c] THEN [current EXCEPT ![g] = previous[c]] ELSE current
      /\ stack' = [stack EXCEPT ![g] = SubSeq(stack[g], 1, n - 1)]
  BY <1>2, <1>4, <1>6 DEF Return, Restore, Restores
<1>8. /\ stack'[g] \in Seq(Calls) /\ Len(stack'[g]) = n - 1
      /\ \A k \in 1 .. n - 1 : stack'[g][k] = stack[g][k]
      /\ \A h \in Goroutines \ {g} : stack'[h] = stack[h] /\ current'[h] = current[h]
  BY <1>1, <1>2, <1>3, <1>7 DEF ScopesTyped
<1>9. ScopesTyped'
  BY <1>1, <1>6, <1>7, <1>8 DEF ScopesTyped
<1>10. Steady
  BY <1>1, <1>7 DEF Steady, ScopesTyped
<1>11. ASSUME NEW d \in Calls PROVE Inherits(d)'
  <2>1. frames'[d] = frames[d] /\ (state[d] = "new" => state'[d] = "new")
    BY <1>1, <1>6, <1>7 DEF ScopesTyped
  <2> QED
    BY <1>10, <2>1, InheritsKept
<1>12. \A h \in Goroutines \ {g} : Nested(h)' /\ Exact(h)'
  BY <1>8, <1>10, GoroutineKept
<1>13. current'[g] \in Calls \cup {None} /\ Begun(current[g])'
  <2>1. Begun(current[g]) /\ current[g] \in Calls \cup {None}
    BY <1>1 DEF Nested, ScopesTyped
  <2>2. PICK p \in Calls \cup {None} : p = current'[g]
    BY <1>9 DEF ScopesTyped
  <2>3. p = current[g] \/ p = previous[c]
    BY <1>1, <1>7, <2>2 DEF ScopesTyped
  <2>4. Begun(p)'
    BY <1>6, <1>10, <2>1, <2>3, RecordingFades
  <2> QED
    BY <2>2, <2>4
<1>14. Nested(g)'
  <2>1. ASSUME NEW k \in 1 .. n - 1 PROVE Place(g, k)'
    <3>1. k \in 1 .. Len(stack[g]) /\ stack'[g][k] = stack[g][k]
            /\ (k > 1 => stack'[g][k - 1] = stack[g][k - 1])
      BY <1>2, <1>8
    <3> QED
      BY <1>10, <3>1, PlaceKept
  <2> QED
    BY <1>8, <1>13, <2>1 DEF Nested
<1>15. Exact(g)'
  <2>1. CASE Kind[c] = "go"
    <3>1. n = 1 /\ g \notin Main
      BY <1>4, <1>5, <2>1 DEF Place
    <3>2. stack'[g] = <<>>
      BY <1>8, <3>1
    <3> QED
      BY <3>1, <3>2 DEF Exact, Running
  <2>2. CASE Kind[c] # "go"
    <3>1. Puts(g, n) /\ scope[c] = c
      BY <1>4, <1>5, <1>6, <2>2 DEF Place, Inherits
    <3>2. Running(g)
      BY <1>1 DEF Running
    <3>3. PICK now \in Calls \cup {None} : now = current[g] /\ Begun(now)
      BY <1>1 DEF Nested, ScopesTyped
    <3>4. PICK p \in Calls \cup {None} : p = previous[c] /\ Begun(p)
      BY <1>6
    <3>5. CASE n = 1
      <4>1. stack'[g] = <<>>
        BY <1>8, <3>5
      <4>2. ~Recording(p)
        BY <1>4, <3>1, <3>4, <3>5 DEF Puts
      <4>3. now # c => ~Recording(now)
        BY <1>1, <1>5, <3>1, <3>2, <3>3 DEF Exact
      <4>4. current'[g] = IF now = c THEN p ELSE now
        BY <1>1, <1>7, <3>1, <3>3, <3>4 DEF ScopesTyped
      <4>5. PICK q \in Calls \cup {None} : q = current'[g] /\ Begun(q) /\ ~Recording(q)
        BY <3>3, <3>4, <4>2, <4>3, <4>4
      <4>6. ~Recording(q)'
        BY <1>10, <4>5, RecordingFades
      <4> QED
        BY <4>1, <4>5, <4>6 DEF Exact
    <3>6. CASE n > 1
      <4>1. PICK x \in Calls : x = stack[g][n - 1] /\ state[x] # "new"
        <5>1. n - 1 \in 1 .. Len(stack[g])
          BY <1>2, <3>6
        <5> QED
          BY <1>1, <5>1 DEF Nested, Place
      <4>2. Innermost(g)' = x
        BY <1>8, <3>6, <4>1 DEF Innermost
      <4>3. stack'[g] # <<>>
        BY <1>8, <3>6
      <4>4. (Recording(p) => scope[x] = p) /\ (Recording(x) => p = x)
        BY <1>4, <3>1, <3>4, <3>6, <4>1 DEF Puts
      <4>5. (Recording(now) => now = c) /\ (Recording(c) => now = c)
        BY <1>1, <1>5, <3>1, <3>2, <3>3 DEF Exact
      <4>6. /\ Recording(p)' => Recording(p)
            /\ Recording(x)' => Recording(x)
            /\ Recording(now)' => Recording(now)
        BY <1>10, <3>3, <3>4, <4>1, RecordingFades DEF Begun
      <4>7. scope'[x] = scope[x]
        BY <1>7
      <4>8. CASE now = c
        <5>1. current'[g] = p
          BY <1>1, <1>7, <3>1, <3>3, <3>4, <4>8 DEF ScopesTyped
        <5> QED
          BY <4>2, <4>3, <4>4, <4>6, <4>7, <5>1 DEF Exact
      <4>9. CASE now # c
        <5>1. current'[g] = now
          BY <1>1, <1>7, <3>1, <3>3, <4>9 DEF ScopesTyped
        <5>2. ~Recording(x)
          <6> SUFFICES ASSUME Recording(x) PROVE FALSE
            OBVIOUS
          <6>1. p = x /\ Recording(p)
            BY <4>4
          <6>2. Kind[c] \in {"trace", "node"}
            BY <1>5, <1>6, <2>2, <3>4, <6>1, ScopeAssumption DEF Inherits
          <6>3. Traces(p) \subseteq frames[c]
            BY <1>5, <1>6, <3>4, <6>2 DEF Inherits
          <6>4. Traces(c) = frames[c] /\ c # None
            BY ScopeAssumption DEF Traces
          <6>5. Recording(c)
            BY <6>1, <6>2, <6>3, <6>4 DEF Recording, Automatic
          <6> QED
            BY <4>5, <4>9, <6>5
        <5> QED
          BY <4>2, <4>3, <4>5, <4>6, <4>9, <5>1, <5>2 DEF Exact
      <4> QED
        BY <4>8, <4>9
    <3> QED
      BY <1>3, <3>5, <3>6
  <2> QED
    BY <2>1, <2>2
<1> QED
  BY <1>9, <1>11, <1>12, <1>14, <1>15 DEF ScopeInv

(* A span from Start ends: what it restores does not record.               *)
LEMMA EndSpanKeeps ==
  ASSUME ScopeInv, NEW c \in Calls, EndSpan(c)
  PROVE  ScopeInv'
<1>1. ScopesTyped /\ Inherits(c) /\ Kind[c] = "start" /\ state[c] = "open"
  BY DEF ScopeInv, EndSpan
<1>2. PICK g \in Goroutines : g = home[c]
  BY <1>1 DEF Inherits
<1>3. PICK p \in Calls \cup {None} : p = previous[c] /\ Begun(p) /\ ~Recording(p)
  BY <1>1 DEF Inherits, ScopesTyped
<1>4. scope[c] = c /\ Nested(g) /\ Exact(g) /\ stack[g] \in Seq(Calls)
  BY <1>1 DEF Inherits, ScopeInv, ScopesTyped
<1>5. /\ state' = [state EXCEPT ![c] = "over"]
      /\ scope' = scope /\ previous' = previous /\ home' = home /\ frames' = frames
      /\ current' = IF current[g] = c THEN [current EXCEPT ![g] = p] ELSE current
      /\ stack' = stack
  BY <1>2, <1>3, <1>4 DEF EndSpan, Restore, Restores
<1>6. ScopesTyped'
  BY <1>1, <1>5 DEF ScopesTyped
<1>7. Steady
  BY <1>1, <1>5 DEF Steady, ScopesTyped
<1>8. ASSUME NEW d \in Calls PROVE Inherits(d)'
  <2>1. frames'[d] = frames[d] /\ (state[d] = "new" => state'[d] = "new")
    BY <1>1, <1>5 DEF ScopesTyped
  <2> QED
    BY <1>7, <2>1, InheritsKept
<1>9. ASSUME NEW h \in Goroutines, h # g \/ current[g] # c PROVE Nested(h)' /\ Exact(h)'
  <2>1. current'[h] = current[h] /\ stack'[h] = stack[h]
    BY <1>1, <1>5, <1>9 DEF ScopesTyped
  <2> QED
    BY <1>7, <2>1, GoroutineKept
<1>10. ASSUME current[g] = c PROVE Nested(g)' /\ Exact(g)'
  <2>1. current'[g] = p /\ stack'[g] = stack[g]
    BY <1>1, <1>5, <1>10 DEF ScopesTyped
  <2>2. Begun(p)' /\ ~Recording(p)'
    BY <1>3, <1>7, RecordingFades
  <2>3. \A k \in 1 .. Len(stack[g]) : Place(g, k)'
    BY <1>7, <2>1, PlaceKept
  <2>4. Nested(g)'
    BY <2>1, <2>2, <2>3 DEF Nested
  <2>5. ASSUME stack[g] # <<>> PROVE ~Recording(Innermost(g))'
    <3>1. Len(stack[g]) \in 1 .. Len(stack[g])
      BY <1>4, <2>5
    <3>2. PICK x \in Calls : x = Innermost(g) /\ state[x] # "new" /\ Kind[x] # "start"
      BY <1>4, <3>1 DEF Nested, Place, Innermost
    <3>3. ~Recording(x)
      BY <1>1, <1>4, <1>10, <2>5, <3>2 DEF Exact, Running
    <3>4. ~Recording(x)'
      BY <1>7, <3>2, <3>3, RecordingFades DEF Begun
    <3>5. Innermost(g)' = x
      BY <2>1, <3>2 DEF Innermost
    <3> QED
      BY <3>4, <3>5
  <2>6. Exact(g)'
    BY <2>1, <2>2, <2>5 DEF Exact
  <2> QED
    BY <2>4, <2>6
<1> QED
  BY <1>6, <1>8, <1>9, <1>10 DEF ScopeInv

LEMMA NextScopes == ScopeInv /\ [ScopeNext]_scopeVars => ScopeInv'
<1> SUFFICES ASSUME ScopeInv, [ScopeNext]_scopeVars PROVE ScopeInv'
  OBVIOUS
<1>1. ASSUME NEW c \in Calls, NEW g \in Goroutines, EnterScope(c, g) PROVE ScopeInv'
  BY <1>1, EnterScopeKeeps
<1>2. ASSUME NEW c \in Calls, NEW g \in Goroutines, NEW h \in Goroutines, Go(c, g, h)
      PROVE  ScopeInv'
  BY <1>2, GoKeeps
<1>3. ASSUME NEW g \in Goroutines, Return(g) PROVE ScopeInv'
  BY <1>3, ReturnKeeps
<1>4. ASSUME NEW c \in Calls, EndSpan(c) PROVE ScopeInv'
  BY <1>4, EndSpanKeeps
<1>5. CASE UNCHANGED scopeVars
  <2>1. ScopesTyped' /\ Steady
    BY <1>5 DEF scopeVars, ScopeInv, ScopesTyped, Steady
  <2>2. \A c \in Calls : Inherits(c)'
    BY <1>5, <2>1, InheritsKept DEF scopeVars
  <2>3. \A g \in Goroutines : Nested(g)' /\ Exact(g)'
    BY <1>5, <2>1, GoroutineKept DEF scopeVars
  <2> QED
    BY <2>1, <2>2, <2>3 DEF ScopeInv
<1> QED
  BY <1>1, <1>2, <1>3, <1>4, <1>5 DEF ScopeNext

(* Whatever the host's spans do, a call that is captured finds its own     *)
(* scope, and a goroutine is not left in the scope of a trace that is over *)
(* (auto_scope.go pushAutoScope, checkMixedAutoSpan, RunAutoContext).      *)
THEOREM ScopesAreExact == ScopeSpec => []AutoScopeExact
<1>1. ScopeInv => AutoScopeExact
  BY DEF ScopeInv, Exact, AutoScopeExact
<1> QED
  BY InitScopes, NextScopes, <1>1, PTL DEF ScopeSpec

------------------------------------------------------------------------------
(* The functions that size values (SizeCache). *)
Frames == [type : Types, parts : Nat]

CacheTyped ==
  /\ functions \in [Types -> {"none", "forward", "built", "unknown"}]
  /\ ready \in SUBSET Types
  /\ building \in [Sizers -> Seq(Frames)]
  /\ panicking \in SUBSET Sizers
  /\ pc \in [Sizers -> {"begin", "build", "walk", "done"}]
  /\ walked \in [Sizers -> SUBSET Types]
  /\ sized \in [Sizers -> {"none", "known", "unknown"}]

(* A frame under another one waits for that one's function; the last one   *)
(* may have its own, once it has all parts or has failed.                  *)
FrameOk(g, i) ==
  LET t == building[g][i].type
      parts == building[g][i].parts
  IN  /\ t \notin ready
      /\ parts <= Len(Parts[t])
      /\ \A j \in 1 .. parts : functions[Parts[t][j]] # "none"
      /\ i < Len(building[g]) =>
           /\ functions[t] = "forward" /\ parts < Len(Parts[t])
           /\ building[g][i + 1].type = Parts[t][parts + 1]
      /\ \/ functions[t] = "forward"
         \/ functions[t] # "none" /\ (g \in panicking \/ parts = Len(Parts[t]))

StackOk(g) ==
  /\ pc[g] = "build" <=> building[g] # <<>>
  /\ building[g] # <<>> => building[g][1].type = TypeOf[g]
  /\ \A i \in DOMAIN building[g] : FrameOk(g, i)

(* A type is under construction once at most, and by somebody while it is  *)
(* not ready; what was built has the functions of its parts, and what      *)
(* could not be has a reason.                                              *)
Owned == \A g, h \in Sizers : \A i \in DOMAIN building[g], j \in DOMAIN building[h] :
           building[g][i].type = building[h][j].type => g = h /\ i = j
TypeOk(t) ==
  /\ t \in ready => functions[t] \in {"built", "unknown"}
  /\ functions[t] # "none" /\ t \notin ready =>
       \E g \in Sizers : \E i \in DOMAIN building[g] : building[g][i].type = t
  /\ functions[t] = "unknown" => DependsOnFailing(t)
  /\ functions[t] = "built" => t \notin Failing /\ \A p \in ToSet(Parts[t]) : functions[p] # "none"

(* A goroutine that fails builds what depends on a failing type; one that  *)
(* walks has only been through what was built.                             *)
RunOk(g) ==
  /\ g \in panicking => pc[g] \in {"build", "done"}
  /\ g \in panicking /\ pc[g] = "build" => DependsOnFailing(Top(g).type)
  /\ pc[g] \in {"begin", "build"} => walked[g] = {}
  /\ pc[g] = "walk" => functions[TypeOf[g]] # "none"
  /\ walked[g] \subseteq Reached(g) /\ \A t \in walked[g] : functions[t] = "built"
  /\ \A t \in Reached(g) : DependsOnFailing(t) => DependsOnFailing(TypeOf[g])
  /\ pc[g] = "done" =>
       \/ sized[g] = "unknown" /\ DependsOnFailing(TypeOf[g])
       \/ sized[g] = "known" /\ Reached(g) = walked[g]

CacheInv ==
  /\ CacheTyped /\ Owned
  /\ \A t \in Types : TypeOk(t)
  /\ \A g \in Sizers : StackOk(g) /\ RunOk(g)

LEMMA PartTypes ==
  ASSUME NEW t \in Types
  PROVE  /\ Parts[t] \in Seq(Types) /\ ToSet(Parts[t]) \subseteq Types
         /\ DOMAIN Parts[t] = 1 .. Len(Parts[t]) /\ Len(Parts[t]) \in Nat
         /\ \A j \in 1 .. Len(Parts[t]) : Parts[t][j] \in ToSet(Parts[t])
         /\ \A p \in ToSet(Parts[t]) : \E j \in 1 .. Len(Parts[t]) : Parts[t][j] = p
<1>1. Parts[t] \in Seq(Types)
  BY SizeCacheAssumption
<1> QED
  BY <1>1 DEF ToSet

LEMMA FailingDepends == ASSUME NEW t \in Failing PROVE DependsOnFailing(t)
BY DEF DependsOnFailing

LEMMA PartDepends ==
  ASSUME NEW t \in Types, NEW p \in ToSet(Parts[t]), DependsOnFailing(p)
  PROVE  DependsOnFailing(t)
BY DEF DependsOnFailing, Closed

LEMMA WholeKnown ==
  ASSUME NEW S \in SUBSET Types, NEW t \in S, Closed(S), S \cap Failing = {}
  PROVE  ~DependsOnFailing(t)
BY DEF DependsOnFailing

LEMMA BuilderSteps ==
  ASSUME CacheInv, NEW g \in Sizers, pc[g] = "build"
  PROVE  MayStep(g)
<1>1. PICK n : n = Len(building[g])
  OBVIOUS
<1>2. building[g] \in Seq(Frames) /\ building[g] # <<>>
  BY DEF CacheInv, CacheTyped, StackOk
<1>3. n \in DOMAIN building[g]
  BY <1>1, <1>2
<1>4. FrameOk(g, n)
  BY <1>3 DEF CacheInv, StackOk
<1>5. PICK frame : frame = building[g][n]
  OBVIOUS
<1>6. frame \in Frames /\ Top(g) = frame
  BY <1>1, <1>2, <1>3, <1>5 DEF Top
<1>7. frame.type \in Types /\ frame.parts \in Nat /\ Len(Parts[frame.type]) \in Nat
  BY <1>6, PartTypes DEF Frames
<1>8. frame.parts <= Len(Parts[frame.type])
  BY <1>4, <1>5 DEF FrameOk
<1>9. CASE functions[frame.type] # "forward"
  BY <1>6, <1>9 DEF MayStep, MayEnd
<1>10. CASE functions[frame.type] = "forward" /\ (Panics(g) \/ frame.parts = Len(Parts[frame.type]))
  BY <1>6, <1>10 DEF MayStep, MayStore
<1>11. CASE functions[frame.type] = "forward" /\ ~Panics(g) /\ frame.parts # Len(Parts[frame.type])
  <2>1. frame.parts < Len(Parts[frame.type])
    BY <1>7, <1>8, <1>11
  <2> QED
    BY <1>6, <1>11, <2>1 DEF MayStep, MayLook, MayGet, Available, Panics
<1> QED
  BY <1>9, <1>10, <1>11

LEMMA InvEnds == CacheInv => SizingEnds
<1> SUFFICES ASSUME CacheInv PROVE SizingEnds
  OBVIOUS
<1>1. ASSUME NEW g \in Sizers, pc[g] # "done" PROVE \E h \in Sizers : MayStep(h)
  <2>1. pc[g] \in {"begin", "build", "walk", "done"}
    BY DEF CacheInv, CacheTyped
  <2>2. CASE pc[g] = "begin"
    BY <2>2 DEF MayStep, MayBegin, MayGet, Available
  <2>3. CASE pc[g] = "build"
    BY <2>3, BuilderSteps
  <2>4. CASE pc[g] = "walk"
    <3>1. RunOk(g) /\ \A t \in Types : TypeOk(t)
      BY DEF CacheInv
    <3>2. CASE Reached(g) = walked[g]
      BY <2>4, <3>2 DEF MayStep, MayReturn
    <3>3. CASE Reached(g) # walked[g]
      <4>1. PICK t \in Reached(g) \ walked[g] : TRUE
        BY <3>1, <3>3 DEF RunOk
      <4>2. t \in Types /\ functions[t] # "none"
        <5>1. CASE t = TypeOf[g]
          BY <2>4, <3>1, <5>1, SizeCacheAssumption DEF RunOk
        <5>2. CASE t # TypeOf[g]
          <6>1. PICK u \in walked[g] : t \in ToSet(Parts[u])
            BY <4>1, <5>2 DEF Reached
          <6>2. u \in Types /\ functions[u] = "built"
            BY <3>1 DEF RunOk, CacheInv, CacheTyped
          <6> QED
            BY <3>1, <6>1, <6>2, PartTypes DEF TypeOk
        <5> QED
          BY <5>1, <5>2
      <4>3. CASE t \in ready
        BY <2>4, <4>1, <4>2, <4>3 DEF MayStep, MayWalk
      <4>4. CASE t \notin ready
        <5>1. PICK h \in Sizers : \E i \in DOMAIN building[h] : building[h][i].type = t
          BY <3>1, <4>2, <4>4 DEF TypeOk
        <5>2. building[h] # <<>>
          BY <5>1
        <5>3. pc[h] = "build"
          BY <5>2 DEF CacheInv, StackOk
        <5> QED
          BY <5>3, BuilderSteps
      <4> QED
        BY <4>3, <4>4
    <3> QED
      BY <3>2, <3>3
  <2> QED
    BY <1>1, <2>1, <2>2, <2>3, <2>4
<1>2. ASSUME NEW g \in Sizers, pc[g] = "done"
      PROVE  sized[g] = IF DependsOnFailing(TypeOf[g]) THEN "unknown" ELSE "known"
  <2>1. RunOk(g)
    BY DEF CacheInv
  <2>2. CASE sized[g] = "unknown" /\ DependsOnFailing(TypeOf[g])
    BY <2>2
  <2>3. CASE sized[g] = "known" /\ Reached(g) = walked[g]
    <3>1. walked[g] \in SUBSET Types
      BY DEF CacheInv, CacheTyped
    <3>2. TypeOf[g] \in walked[g] /\ Closed(walked[g])
      BY <2>3 DEF Reached, Closed
    <3>3. walked[g] \cap Failing = {}
      BY <2>1, <3>1 DEF RunOk, CacheInv, TypeOk
    <3>4. ~DependsOnFailing(TypeOf[g])
      BY <3>1, <3>2, <3>3, WholeKnown
    <3> QED
      BY <2>3, <3>4
  <2> QED
    BY <1>2, <2>1, <2>2, <2>3 DEF RunOk
<1> QED
  BY <1>1, <1>2 DEF SizingEnds

------------------------------------------------------------------------------
LEMMA InitCache == CacheInit => CacheInv
<1> SUFFICES ASSUME CacheInit PROVE CacheInv
  OBVIOUS
<1>1. CacheTyped
  BY DEF CacheInit, CacheTyped
<1>2. \A g \in Sizers : building[g] = <<>> /\ DOMAIN building[g] = {}
  BY DEF CacheInit
<1>3. Owned
  BY <1>2 DEF Owned
<1>4. \A t \in Types : TypeOk(t)
  BY DEF CacheInit, TypeOk
<1>5. ASSUME NEW g \in Sizers PROVE StackOk(g) /\ RunOk(g)
  <2>1. pc[g] = "begin" /\ walked[g] = {} /\ panicking = {}
    BY DEF CacheInit
  <2>2. Reached(g) = {TypeOf[g]}
    BY <2>1 DEF Reached
  <2> QED
    BY <1>2, <2>1, <2>2 DEF StackOk, RunOk
<1> QED
  BY <1>1, <1>3, <1>4, <1>5 DEF CacheInv

(* What a step leaves of a frame, a type and a goroutine it is not about.  *)
LEMMA FrameStays ==
  ASSUME CacheTyped, NEW g \in Sizers, NEW i \in DOMAIN building[g], FrameOk(g, i),
         building'[g] = building[g], g \in panicking => g \in panicking',
         functions'[building[g][i].type] = functions[building[g][i].type],
         building[g][i].type \notin ready',
         \A t \in Types : functions[t] # "none" => functions'[t] # "none"
  PROVE  FrameOk(g, i)'
<1>1. PICK t : t = building[g][i].type
  OBVIOUS
<1>2. PICK parts : parts = building[g][i].parts
  OBVIOUS
<1>3. building[g][i] \in Frames
  BY DEF CacheTyped
<1>4. t \in Types /\ parts \in Nat
  BY <1>1, <1>2, <1>3 DEF Frames
<1>5. building'[g][i].type = t /\ building'[g][i].parts = parts
  BY <1>1, <1>2
<1>6. parts <= Len(Parts[t]) /\ t \notin ready' /\ \A j \in 1 .. parts : functions[Parts[t][j]] # "none"
  BY <1>1, <1>2 DEF FrameOk
<1>7. \A j \in 1 .. parts : Parts[t][j] \in Types
  BY <1>4, <1>6, PartTypes
<1>8. i < Len(building[g]) =>
        /\ functions'[t] = "forward" /\ parts < Len(Parts[t])
        /\ building[g][i + 1].type = Parts[t][parts + 1]
  BY <1>1, <1>2 DEF FrameOk
<1>9. \/ functions'[t] = "forward"
      \/ functions'[t] # "none" /\ (g \in panicking' \/ parts = Len(Parts[t]))
  BY <1>1, <1>2 DEF FrameOk
<1> QED
  BY <1>5, <1>6, <1>7, <1>8, <1>9 DEF FrameOk

LEMMA RunStays ==
  ASSUME CacheTyped, NEW g \in Sizers, RunOk(g), building'[g] = building[g],
         pc'[g] = pc[g], walked'[g] = walked[g], sized'[g] = sized[g],
         g \in panicking' <=> g \in panicking,
         \A t \in Types : /\ functions[t] # "none" => functions'[t] # "none"
                          /\ functions[t] = "built" => functions'[t] = "built"
  PROVE  RunOk(g)'
<1>1. Reached(g)' = Reached(g) /\ Top(g)' = Top(g)
  BY DEF Reached, Top
<1>2. walked[g] \subseteq Types /\ TypeOf[g] \in Types
  BY SizeCacheAssumption DEF CacheTyped
<1> QED
  BY <1>1, <1>2 DEF RunOk

LEMMA StackStays ==
  ASSUME CacheTyped, NEW g \in Sizers, StackOk(g), building'[g] = building[g], pc'[g] = pc[g],
         g \in panicking => g \in panicking',
         \A i \in DOMAIN building[g] :
           /\ functions'[building[g][i].type] = functions[building[g][i].type]
           /\ building[g][i].type \notin ready',
         \A t \in Types : functions[t] # "none" => functions'[t] # "none"
  PROVE  StackOk(g)'
<1>1. \A i \in DOMAIN building[g] : FrameOk(g, i)
  BY DEF StackOk
<1>2. \A i \in DOMAIN building[g] : FrameOk(g, i)'
  BY <1>1, FrameStays
<1> QED
  BY <1>2 DEF StackOk

(* A function that nobody has: a goroutine builds it.                      *)
LEMMA PushKeeps ==
  ASSUME CacheInv, NEW g \in Sizers, NEW t \in Types, functions[t] = "none", g \notin panicking,
         pc[g] \in {"begin", "build"},
         pc[g] = "begin" => t = TypeOf[g],
         pc[g] = "build" => Top(g).parts < Len(Parts[Top(g).type]) /\ t = Sought(g),
         functions' = [functions EXCEPT ![t] = "forward"],
         building' = [building EXCEPT ![g] = Append(@, Frame(t))],
         pc' = [pc EXCEPT ![g] = "build"],
         UNCHANGED <<ready, panicking, walked, sized>>
  PROVE  CacheInv'
<1> /\ CacheTyped /\ Owned /\ \A x \in Types : TypeOk(x)
    /\ \A h \in Sizers : StackOk(h) /\ RunOk(h)
  BY DEF CacheInv
<1>1. PICK s : s = building[g]
  OBVIOUS
<1>2. PICK n : n = Len(s)
  OBVIOUS
<1>3. s \in Seq(Frames) /\ n \in Nat /\ DOMAIN s = 1 .. n
  BY <1>1, <1>2 DEF CacheTyped
<1>4. Frame(t) \in Frames /\ Frame(t).type = t /\ Frame(t).parts = 0
  BY DEF Frame, Frames
<1>5. PICK u : u = Append(s, Frame(t))
  OBVIOUS
<1>6. /\ u \in Seq(Frames) /\ Len(u) = n + 1 /\ DOMAIN u = 1 .. n + 1 /\ u # <<>>
      /\ u[n + 1] = Frame(t) /\ \A i \in 1 .. n : u[i] = s[i]
  BY <1>2, <1>3, <1>4, <1>5
<1>7. /\ building'[g] = u /\ pc'[g] = "build"
      /\ \A h \in Sizers \ {g} : building'[h] = building[h] /\ pc'[h] = pc[h]
  BY <1>1, <1>5 DEF CacheTyped
<1>8. functions'[t] = "forward" /\ \A x \in Types \ {t} : functions'[x] = functions[x]
  BY DEF CacheTyped
<1>9. \A h \in Sizers : \A i \in DOMAIN building[h] :
        /\ building[h][i].type # t /\ building[h][i].type \in Types
        /\ building[h][i].type \notin ready
  <2> SUFFICES ASSUME NEW h \in Sizers, NEW i \in DOMAIN building[h]
               PROVE  /\ building[h][i].type # t /\ building[h][i].type \in Types
                      /\ building[h][i].type \notin ready
    OBVIOUS
  <2>1. building[h][i] \in Frames
    BY DEF CacheTyped
  <2>2. FrameOk(h, i)
    BY DEF StackOk
  <2> QED
    BY <2>1, <2>2 DEF Frames, FrameOk
<1>10. CacheTyped'
  <2>1. functions' \in [Types -> {"none", "forward", "built", "unknown"}]
    BY DEF CacheTyped
  <2>2. building' \in [Sizers -> Seq(Frames)]
    BY <1>1, <1>5, <1>6 DEF CacheTyped
  <2>3. pc' \in [Sizers -> {"begin", "build", "walk", "done"}]
    BY DEF CacheTyped
  <2> QED
    BY <2>1, <2>2, <2>3 DEF CacheTyped
<1>11. Owned'
  <2> SUFFICES ASSUME NEW h \in Sizers, NEW k \in Sizers,
                      NEW i \in DOMAIN building'[h], NEW j \in DOMAIN building'[k],
                      building'[h][i].type = building'[k][j].type
               PROVE  h = k /\ i = j
    BY DEF Owned
  <2>1. \A e \in Sizers : \A m \in DOMAIN building'[e] :
          IF e = g /\ m = n + 1 THEN building'[e][m].type = t
          ELSE m \in DOMAIN building[e] /\ building'[e][m].type = building[e][m].type
                                        /\ building[e][m].type # t
    <3> TAKE e \in Sizers
    <3> TAKE m \in DOMAIN building'[e]
    <3>1. CASE e = g /\ m = n + 1
      BY <1>4, <1>6, <1>7, <3>1
    <3>2. CASE e = g /\ m # n + 1
      <4>1. m \in 1 .. n
        BY <1>3, <1>6, <1>7, <3>2
      <4> QED
        BY <1>1, <1>3, <1>6, <1>7, <1>9, <3>2, <4>1
    <3>3. CASE e # g
      BY <1>7, <1>9, <3>3
    <3> QED
      BY <3>1, <3>2, <3>3
  <2> QED
    BY <2>1 DEF Owned
<1>12. \A x \in Types : TypeOk(x)'
  <2> SUFFICES ASSUME NEW x \in Types PROVE TypeOk(x)'
    OBVIOUS
  <2>1. CASE x = t
    <3>1. t \notin ready
      BY DEF TypeOk
    <3>2. n + 1 \in DOMAIN building'[g] /\ building'[g][n + 1].type = t
      BY <1>3, <1>4, <1>6, <1>7
    <3> QED
      BY <1>8, <2>1, <3>1, <3>2 DEF TypeOk
  <2>2. CASE x # t
    <3>1. TypeOk(x) /\ functions'[x] = functions[x] /\ ready' = ready
      BY <1>8, <2>2
    <3>2. \A p \in ToSet(Parts[x]) : functions[p] # "none" => functions'[p] # "none"
      BY <1>8, PartTypes
    <3>3. ASSUME NEW h \in Sizers, NEW i \in DOMAIN building[h], building[h][i].type = x
          PROVE  \E e \in Sizers : \E m \in DOMAIN building'[e] : building'[e][m].type = x
      <4>1. CASE h # g
        BY <1>7, <3>3, <4>1
      <4>2. CASE h = g
        <5>1. i \in 1 .. n /\ s[i].type = x
          BY <1>1, <1>3, <3>3, <4>2
        <5>2. i \in DOMAIN u /\ u[i] = s[i]
          BY <1>3, <1>6, <5>1
        <5> QED
          BY <1>7, <5>1, <5>2
      <4> QED
        BY <4>1, <4>2
    <3> QED
      BY <3>1, <3>2, <3>3 DEF TypeOk
  <2> QED
    BY <2>1, <2>2
<1>13. \A x \in Types : /\ functions[x] # "none" => functions'[x] # "none"
                        /\ functions[x] = "built" => functions'[x] = "built"
  BY <1>8
<1>14. ASSUME NEW h \in Sizers \ {g} PROVE StackOk(h)' /\ RunOk(h)'
  <2>1. StackOk(h)'
    BY <1>7, <1>8, <1>9, <1>13, StackStays
  <2>2. RunOk(h)'
    BY <1>7, <1>13, RunStays
  <2> QED
    BY <2>1, <2>2
<1>15. StackOk(g)'
  <2>1. ASSUME NEW i \in 1 .. n PROVE FrameOk(g, i)'
    <3>1. PICK x : x = s[i].type
      OBVIOUS
    <3>2. PICK parts : parts = s[i].parts
      OBVIOUS
    <3>3. x \in Types /\ parts \in Nat /\ x # t /\ x \notin ready /\ functions'[x] = functions[x]
      <4>1. i \in DOMAIN building[g] /\ building[g][i] = s[i] /\ s[i] \in Frames
        BY <1>1, <1>3
      <4>2. x # t /\ x \in Types /\ x \notin ready
        BY <1>9, <3>1, <4>1
      <4>3. parts \in Nat
        BY <3>2, <4>1 DEF Frames
      <4> QED
        BY <1>8, <4>2, <4>3
    <3>4. FrameOk(g, i)
      BY <1>1, <1>3 DEF StackOk
    <3>5. parts <= Len(Parts[x]) /\ \A j \in 1 .. parts : functions'[Parts[x][j]] # "none"
      <4>1. parts <= Len(Parts[x]) /\ \A j \in 1 .. parts : functions[Parts[x][j]] # "none"
        BY <1>1, <3>1, <3>2, <3>4 DEF FrameOk
      <4>2. \A j \in 1 .. parts : Parts[x][j] \in Types
        BY <3>3, <4>1, PartTypes
      <4> QED
        BY <1>13, <4>1, <4>2
    <3>6. functions[x] = "forward" /\ parts < Len(Parts[x]) /\ u[i + 1].type = Parts[x][parts + 1]
      <4>1. CASE i < n
        <5>1. u[i + 1] = s[i + 1]
          BY <1>3, <1>6, <4>1
        <5> QED
          BY <1>1, <1>2, <3>1, <3>2, <3>4, <4>1, <5>1 DEF FrameOk
      <4>2. CASE i = n
        <5>1. s # <<>> /\ pc[g] = "build"
          BY <1>1, <1>2, <4>2 DEF StackOk
        <5>2. Top(g) = s[n]
          BY <1>1, <1>2 DEF Top
        <5>3. parts < Len(Parts[x]) /\ t = Parts[x][parts + 1]
          BY <3>1, <3>2, <4>2, <5>1, <5>2 DEF Sought
        <5>4. functions[x] = "forward"
          BY <1>1, <3>1, <3>2, <3>3, <3>4, <5>3, PartTypes DEF FrameOk
        <5> QED
          BY <1>4, <1>6, <4>2, <5>3, <5>4
      <4> QED
        BY <1>3, <4>1, <4>2
    <3>7. building'[g][i].type = x /\ building'[g][i].parts = parts /\ building'[g][i + 1].type = Parts[x][parts + 1]
      BY <1>6, <1>7, <3>1, <3>2, <3>6
    <3> QED
      BY <3>3, <3>5, <3>6, <3>7 DEF FrameOk
  <2>2. FrameOk(g, n + 1)'
    <3>1. building'[g][n + 1].type = t /\ building'[g][n + 1].parts = 0
      BY <1>4, <1>6, <1>7
    <3>2. t \notin ready
      BY DEF TypeOk
    <3>3. 0 <= Len(Parts[t])
      BY PartTypes
    <3>4. Len(building'[g]) = n + 1
      BY <1>6, <1>7
    <3> QED
      BY <1>3, <1>8, <3>1, <3>2, <3>3, <3>4 DEF FrameOk
  <2>3. building'[g][1].type = TypeOf[g]
    <3>1. CASE pc[g] = "begin"
      <4>1. s = <<>> /\ n = 0
        BY <1>1, <1>2, <3>1 DEF StackOk
      <4> QED
        BY <1>4, <1>6, <1>7, <3>1, <4>1
    <3>2. CASE pc[g] = "build"
      <4>1. s # <<>> /\ s[1].type = TypeOf[g]
        BY <1>1, <3>2 DEF StackOk
      <4>2. 1 \in 1 .. n
        BY <1>2, <1>3, <4>1
      <4> QED
        BY <1>6, <1>7, <4>1, <4>2
    <3> QED
      BY <3>1, <3>2
  <2>4. \A i \in 1 .. n + 1 : i \in 1 .. n \/ i = n + 1
    BY <1>3
  <2> QED
    BY <1>6, <1>7, <2>1, <2>2, <2>3, <2>4 DEF StackOk
<1>16. RunOk(g)'
  <2>1. Reached(g)' = Reached(g) /\ walked[g] = {}
    BY DEF Reached, RunOk
  <2> QED
    BY <1>7, <2>1 DEF RunOk
<1> QED
  BY <1>10, <1>11, <1>12, <1>14, <1>15, <1>16 DEF CacheInv

LEMMA GotFrame ==
  ASSUME NEW s \in Seq(Frames), s # <<>>
  PROVE  /\ Got(s) \in Seq(Frames) /\ Len(Got(s)) = Len(s) /\ DOMAIN Got(s) = DOMAIN s
         /\ \A i \in 1 .. Len(s) : /\ Got(s)[i].type = s[i].type
                                   /\ i # Len(s) => Got(s)[i] = s[i]
         /\ Got(s)[Len(s)].parts = s[Len(s)].parts + 1
<1>1. Len(s) \in Nat /\ DOMAIN s = 1 .. Len(s) /\ Len(s) \in DOMAIN s
  OBVIOUS
<1>2. PICK frame : frame = s[Len(s)]
  OBVIOUS
<1>3. frame \in Frames
  BY <1>1, <1>2
<1>4. PICK more : more = [frame EXCEPT !.parts = @ + 1]
  OBVIOUS
<1>5. more.type = frame.type /\ more.parts = frame.parts + 1 /\ more \in Frames
  <2>1. frame.type \in Types /\ frame.parts \in Nat /\ frame = [type |-> frame.type, parts |-> frame.parts]
    BY <1>3 DEF Frames
  <2>2. more = [type |-> frame.type, parts |-> frame.parts + 1]
    BY <1>4, <2>1
  <2>3. frame.parts + 1 \in Nat
    BY <2>1
  <2> QED
    BY <2>1, <2>2, <2>3 DEF Frames
<1>6. Got(s) = [s EXCEPT ![Len(s)] = more]
  BY <1>1, <1>2, <1>4 DEF Got
<1>7. PICK u : u = [s EXCEPT ![Len(s)] = more]
  OBVIOUS
<1>8. u \in Seq(Frames) /\ Len(u) = Len(s) /\ DOMAIN u = DOMAIN s
  BY <1>1, <1>5, <1>7
<1>9. u[Len(s)] = more /\ \A i \in 1 .. Len(s) : i # Len(s) => u[i] = s[i]
  BY <1>1, <1>7
<1>10. u[Len(s)].type = s[Len(s)].type /\ u[Len(s)].parts = s[Len(s)].parts + 1
  BY <1>2, <1>5, <1>9
<1>11. \A i \in 1 .. Len(s) : u[i].type = s[i].type
  BY <1>9, <1>10
<1> QED
  BY <1>6, <1>7, <1>8, <1>9, <1>10, <1>11

(* A function that somebody has: a goroutine takes it for a part.          *)
LEMMA GotKeeps ==
  ASSUME CacheInv, NEW g \in Sizers, pc[g] = "build", g \notin panicking,
         Top(g).parts < Len(Parts[Top(g).type]), functions[Sought(g)] # "none",
         building' = [building EXCEPT ![g] = Got(@)],
         UNCHANGED <<functions, pc, ready, panicking, walked, sized>>
  PROVE  CacheInv'
<1> /\ CacheTyped /\ Owned /\ \A x \in Types : TypeOk(x)
    /\ \A h \in Sizers : StackOk(h) /\ RunOk(h)
  BY DEF CacheInv
<1>1. PICK s : s = building[g]
  OBVIOUS
<1>2. PICK n : n = Len(s)
  OBVIOUS
<1>3. s \in Seq(Frames) /\ s # <<>> /\ n \in Nat /\ DOMAIN s = 1 .. n /\ n \in 1 .. n /\ 1 \in 1 .. n
  <2>1. s \in Seq(Frames) /\ s # <<>>
    BY <1>1 DEF CacheTyped, StackOk
  <2> QED
    BY <1>2, <2>1
<1>4. PICK u : u = Got(s)
  OBVIOUS
<1>5. /\ u \in Seq(Frames) /\ Len(u) = n /\ DOMAIN u = 1 .. n
      /\ \A i \in 1 .. n : u[i].type = s[i].type /\ (i # n => u[i] = s[i])
      /\ u[n].parts = s[n].parts + 1
  BY <1>2, <1>3, <1>4, GotFrame
<1>6. building'[g] = u /\ \A h \in Sizers \ {g} : building'[h] = building[h]
  BY <1>1, <1>4 DEF CacheTyped
<1>7. \A h \in Sizers : /\ DOMAIN building'[h] = DOMAIN building[h]
                            /\ \A i \in DOMAIN building[h] : building'[h][i].type = building[h][i].type
  BY <1>1, <1>3, <1>5, <1>6
<1>8. CacheTyped'
  <2>1. building' \in [Sizers -> Seq(Frames)]
    BY <1>1, <1>4, <1>5 DEF CacheTyped
  <2> QED
    BY <2>1 DEF CacheTyped
<1>9. Owned'
  BY <1>7 DEF Owned
<1>10. \A x \in Types : TypeOk(x)'
  BY <1>7 DEF TypeOk
<1>11. ASSUME NEW h \in Sizers \ {g} PROVE StackOk(h)' /\ RunOk(h)'
  <2>1. \A i \in DOMAIN building[h] : building[h][i].type \notin ready'
    BY DEF StackOk, FrameOk
  <2>2. StackOk(h)'
    BY <1>6, <2>1, StackStays
  <2>3. RunOk(h)'
    BY <1>6, RunStays
  <2> QED
    BY <2>2, <2>3
<1>12. Top(g) = s[n]
  BY <1>1, <1>2 DEF Top
<1>13. StackOk(g)'
  <2>1. ASSUME NEW i \in 1 .. n PROVE FrameOk(g, i)'
    <3>1. FrameOk(g, i)
      BY <1>1, <1>3 DEF StackOk
    <3>2. PICK x : x = s[i].type
      OBVIOUS
    <3>3. building'[g][i].type = x /\ (i # n => building'[g][i] = s[i])
      BY <1>5, <1>6, <3>2
    <3>4. CASE i # n
      <4>1. i < n /\ i + 1 \in 1 .. n
        BY <1>3, <3>4
      <4>2. building'[g][i + 1].type = building[g][i + 1].type /\ Len(building'[g]) = Len(building[g])
        BY <1>1, <1>2, <1>5, <1>6, <4>1
      <4>3. building'[g][i] = building[g][i]
        BY <1>1, <3>3, <3>4
      <4> QED
        BY <3>1, <4>2, <4>3 DEF FrameOk
    <3>5. CASE i = n
      <4>1. PICK parts : parts = s[n].parts
        OBVIOUS
      <4>2. x \in Types /\ parts \in Nat
        <5>1. s[n] \in Frames
          BY <1>3
        <5> QED
          BY <3>2, <3>5, <4>1, <5>1 DEF Frames
      <4>3. parts < Len(Parts[x]) /\ functions[Parts[x][parts + 1]] # "none"
        BY <1>12, <3>2, <3>5, <4>1 DEF Sought
      <4>4. x \notin ready /\ \A j \in 1 .. parts : functions[Parts[x][j]] # "none"
        BY <1>1, <3>1, <3>2, <3>5, <4>1 DEF FrameOk
      <4>5. functions[x] = "forward"
        <5>1. functions[x] = "forward" \/ (g \in panicking \/ parts = Len(Parts[x]))
          BY <1>1, <3>1, <3>2, <3>5, <4>1 DEF FrameOk
        <5> QED
          BY <4>2, <4>3, <5>1
      <4>6. \A j \in 1 .. parts + 1 : functions[Parts[x][j]] # "none"
        BY <4>2, <4>3, <4>4
      <4>7. parts + 1 <= Len(Parts[x])
        BY <4>2, <4>3, PartTypes
      <4>8. building'[g][n].type = x /\ building'[g][n].parts = parts + 1 /\ Len(building'[g]) = n
        BY <1>5, <1>6, <3>3, <3>5, <4>1
      <4>9. ~(n < n)
        BY <1>3
      <4> QED
        BY <3>5, <4>4, <4>5, <4>6, <4>7, <4>8, <4>9 DEF FrameOk
    <3> QED
      BY <3>4, <3>5
  <2>2. building'[g] # <<>> /\ building'[g][1].type = TypeOf[g]
    BY <1>1, <1>3, <1>5, <1>6 DEF StackOk
  <2> QED
    BY <1>5, <1>6, <2>1, <2>2 DEF StackOk
<1>14. RunOk(g)'
  <2>1. Reached(g)' = Reached(g)
    BY DEF Reached
  <2> QED
    BY <2>1 DEF RunOk
<1> QED
  BY <1>8, <1>9, <1>10, <1>11, <1>13, <1>14 DEF CacheInv

LEMMA BeginKeeps == ASSUME CacheInv, NEW g \in Sizers, Begin(g) PROVE CacheInv'
<1>1. /\ TypeOf[g] \in Types /\ pc[g] = "begin" /\ SizeFuncFor(g, TypeOf[g])
      /\ UNCHANGED <<ready, panicking, walked, sized>>
  BY SizeCacheAssumption DEF Begin, MayBegin
<1>2. CacheTyped /\ StackOk(g) /\ RunOk(g)
  BY DEF CacheInv
<1>3. g \notin panicking /\ building[g] = <<>>
  BY <1>1, <1>2 DEF RunOk, StackOk
<1>4. CASE functions[TypeOf[g]] = "none"
  BY <1>1, <1>3, <1>4, PushKeeps DEF SizeFuncFor
<1>5. CASE functions[TypeOf[g]] # "none"
  <2>1. /\ UNCHANGED <<functions, ready, panicking, walked, sized>>
        /\ pc' = [pc EXCEPT ![g] = "walk"] /\ building' = [building EXCEPT ![g] = Got(@)]
    BY <1>1, <1>3, <1>5 DEF SizeFuncFor
  <2>2. building' = building
    BY <1>2, <1>3, <2>1 DEF CacheTyped, Got
  <2>3. pc'[g] = "walk" /\ \A h \in Sizers \ {g} : pc'[h] = pc[h]
    BY <1>2, <2>1 DEF CacheTyped
  <2>4. CacheTyped'
    BY <1>2, <2>1, <2>2 DEF CacheTyped
  <2>5. Owned' /\ \A t \in Types : TypeOk(t)'
    BY <2>1, <2>2 DEF CacheInv, Owned, TypeOk
  <2>6. ASSUME NEW h \in Sizers \ {g} PROVE StackOk(h)' /\ RunOk(h)'
    <3>1. \A i \in DOMAIN building[h] : building[h][i].type \notin ready'
      BY <2>1 DEF CacheInv, StackOk, FrameOk
    <3>2. StackOk(h) /\ RunOk(h)
      BY DEF CacheInv
    <3>3. StackOk(h)'
      BY <1>2, <2>1, <2>2, <2>3, <3>1, <3>2, StackStays
    <3>4. RunOk(h)'
      BY <1>2, <2>1, <2>2, <2>3, <3>2, RunStays
    <3> QED
      BY <3>3, <3>4
  <2>7. StackOk(g)'
    BY <1>3, <2>2, <2>3 DEF StackOk
  <2>8. RunOk(g)'
    <3>1. Reached(g)' = Reached(g) /\ walked[g] = {}
      BY <1>1, <1>2, <2>1 DEF Reached, RunOk
    <3> QED
      BY <1>2, <1>3, <1>5, <2>1, <2>3, <3>1 DEF RunOk
  <2> QED
    BY <2>4, <2>5, <2>6, <2>7, <2>8 DEF CacheInv
<1> QED
  BY <1>4, <1>5

LEMMA NextPartKeeps == ASSUME CacheInv, NEW g \in Sizers, NextPart(g) PROVE CacheInv'
<1>1. /\ pc[g] = "build" /\ g \notin panicking /\ Top(g).parts < Len(Parts[Top(g).type])
      /\ SizeFuncFor(g, Sought(g)) /\ UNCHANGED <<ready, panicking, walked, sized>>
  BY DEF NextPart, MayLook
<1>2. building[g] \in Seq(Frames) /\ building[g] # <<>> /\ pc \in [Sizers -> {"begin", "build", "walk", "done"}]
  BY <1>1 DEF CacheInv, CacheTyped, StackOk
<1>3. Sought(g) \in Types
  <2>1. PICK frame : frame = Top(g)
    OBVIOUS
  <2>2. frame \in Frames
    BY <1>2, <2>1 DEF Top
  <2>3. frame.type \in Types /\ frame.parts \in Nat
    BY <2>2 DEF Frames
  <2>4. frame.parts + 1 \in 1 .. Len(Parts[frame.type])
    BY <1>1, <2>1, <2>3, PartTypes
  <2> QED
    BY <2>1, <2>3, <2>4, PartTypes DEF Sought
<1>4. CASE functions[Sought(g)] = "none"
  <2>1. /\ functions' = [functions EXCEPT ![Sought(g)] = "forward"]
        /\ building' = [building EXCEPT ![g] = Append(@, Frame(Sought(g)))]
        /\ pc' = [pc EXCEPT ![g] = "build"]
    BY <1>1, <1>4 DEF SizeFuncFor
  <2> QED
    BY <1>1, <1>3, <1>4, <2>1, PushKeeps
<1>5. CASE functions[Sought(g)] # "none"
  <2>1. /\ building' = [building EXCEPT ![g] = Got(@)]
        /\ pc' = [pc EXCEPT ![g] = "build"] /\ UNCHANGED functions
    BY <1>1, <1>2, <1>5 DEF SizeFuncFor
  <2>2. pc' = pc
    BY <1>1, <1>2, <2>1
  <2> QED
    BY <1>1, <1>5, <2>1, <2>2, GotKeeps
<1> QED
  BY <1>4, <1>5

(* The builder is done with the type: its function is what it will be.     *)
LEMMA StoreKeeps == ASSUME CacheInv, NEW g \in Sizers, Store(g) PROVE CacheInv'
<1> /\ CacheTyped /\ Owned /\ \A x \in Types : TypeOk(x)
    /\ \A h \in Sizers : StackOk(h) /\ RunOk(h)
  BY DEF CacheInv
<1>1. PICK n : n = Len(building[g])
  OBVIOUS
<1>2. PICK t : t = Top(g).type
  OBVIOUS
<1>3. PICK parts : parts = Top(g).parts
  OBVIOUS
<1>4. PICK result : result = IF Panics(g) THEN "unknown" ELSE "built"
  OBVIOUS
<1>5. /\ pc[g] = "build" /\ functions[t] = "forward"
      /\ Panics(g) \/ parts = Len(Parts[t])
      /\ functions' = [functions EXCEPT ![t] = result]
      /\ panicking' = IF Panics(g) THEN panicking \cup {g} ELSE panicking
      /\ UNCHANGED <<ready, building, pc, walked, sized>>
  BY <1>2, <1>3, <1>4 DEF Store, MayStore
<1>6. n \in DOMAIN building[g] /\ Top(g) = building[g][n]
  <2>1. building[g] \in Seq(Frames) /\ building[g] # <<>>
    BY <1>5 DEF CacheTyped, StackOk
  <2> QED
    BY <1>1, <2>1 DEF Top
<1>7. t \in Types /\ parts \in Nat
  <2>1. Top(g) \in Frames
    BY <1>6 DEF CacheTyped
  <2> QED
    BY <1>2, <1>3, <2>1 DEF Frames
<1>8. functions'[t] = result /\ \A x \in Types \ {t} : functions'[x] = functions[x]
  BY <1>5, <1>7 DEF CacheTyped
<1>9. \A x \in Types : /\ functions[x] # "none" => functions'[x] # "none"
                       /\ functions[x] = "built" => functions'[x] = "built"
  BY <1>4, <1>5, <1>8
<1>10. FrameOk(g, n)
  BY <1>6 DEF StackOk
<1>11. t \notin ready /\ \A j \in 1 .. parts : functions[Parts[t][j]] # "none"
  BY <1>2, <1>3, <1>6, <1>10 DEF FrameOk
<1>12. Panics(g) => DependsOnFailing(t)
  BY <1>2, <1>5, FailingDepends DEF Panics, RunOk
<1>13. ~Panics(g) => t \notin Failing /\ g \notin panicking /\ \A p \in ToSet(Parts[t]) : functions[p] # "none"
  <2>1. ~Panics(g) => parts = Len(Parts[t]) /\ t \notin Failing /\ g \notin panicking
    BY <1>2, <1>5 DEF Panics
  <2>2. ASSUME ~Panics(g), NEW p \in ToSet(Parts[t]) PROVE functions[p] # "none"
    <3>1. PICK j \in 1 .. Len(Parts[t]) : Parts[t][j] = p
      BY <1>7, PartTypes
    <3> QED
      BY <1>11, <2>1, <2>2, <3>1
  <2> QED
    BY <2>1, <2>2
<1>14. CacheTyped'
  <2>1. functions' \in [Types -> {"none", "forward", "built", "unknown"}]
    BY <1>4, <1>5 DEF CacheTyped
  <2>2. panicking' \in SUBSET Sizers
    BY <1>5 DEF CacheTyped
  <2> QED
    BY <1>5, <2>1, <2>2 DEF CacheTyped
<1>15. Owned'
  BY <1>5 DEF Owned
<1>16. ASSUME NEW x \in Types PROVE TypeOk(x)'
  <2>1. ready' = ready /\ building' = building /\ TypeOk(x)
    BY <1>5
  <2>2. CASE x = t
    <3>1. \A p \in ToSet(Parts[t]) : functions[p] # "none" => functions'[p] # "none"
      BY <1>7, <1>9, PartTypes
    <3>2. \E h \in Sizers : \E i \in DOMAIN building[h] : building[h][i].type = x
      BY <1>2, <1>6, <2>2
    <3> QED
      BY <1>4, <1>8, <1>11, <1>12, <1>13, <2>1, <2>2, <3>1, <3>2 DEF TypeOk
  <2>3. CASE x # t
    <3>1. functions'[x] = functions[x]
      BY <1>8, <2>3
    <3>2. \A p \in ToSet(Parts[x]) : functions[p] # "none" => functions'[p] # "none"
      BY <1>9, PartTypes
    <3> QED
      BY <2>1, <3>1, <3>2 DEF TypeOk
  <2> QED
    BY <2>2, <2>3
<1>17. \A h \in Sizers : \A i \in DOMAIN building[h] :
         /\ building[h][i].type \in Types /\ building[h][i].type \notin ready
         /\ building[h][i].type = t => h = g /\ i = n
  <2> SUFFICES ASSUME NEW h \in Sizers, NEW i \in DOMAIN building[h]
               PROVE  /\ building[h][i].type \in Types /\ building[h][i].type \notin ready
                      /\ building[h][i].type = t => h = g /\ i = n
    OBVIOUS
  <2>1. building[h][i] \in Frames
    BY DEF CacheTyped
  <2>2. FrameOk(h, i)
    BY DEF StackOk
  <2>3. building[h][i].type = t => h = g /\ i = n
    BY <1>2, <1>6 DEF Owned
  <2> QED
    BY <2>1, <2>2, <2>3 DEF Frames, FrameOk
<1>18. ASSUME NEW h \in Sizers \ {g} PROVE StackOk(h)' /\ RunOk(h)'
  <2>1. building'[h] = building[h] /\ pc'[h] = pc[h] /\ (h \in panicking' <=> h \in panicking)
    BY <1>5
  <2>2. \A i \in DOMAIN building[h] :
          /\ functions'[building[h][i].type] = functions[building[h][i].type]
          /\ building[h][i].type \notin ready'
    BY <1>5, <1>8, <1>17
  <2>3. StackOk(h)'
    BY <1>9, <2>1, <2>2, StackStays
  <2>4. RunOk(h)'
    BY <1>5, <1>9, <2>1, RunStays
  <2> QED
    BY <2>3, <2>4
<1>19. StackOk(g)'
  <2>1. ASSUME NEW i \in DOMAIN building[g] PROVE FrameOk(g, i)'
    <3>1. FrameOk(g, i) /\ building'[g] = building[g] /\ (g \in panicking => g \in panicking')
      BY <1>5 DEF StackOk
    <3>2. CASE i = n
      <4>1. building'[g][n].type = t /\ building'[g][n].parts = parts /\ Len(building'[g]) = n
        BY <1>1, <1>2, <1>3, <1>6, <3>1
      <4>2. parts <= Len(Parts[t])
        BY <1>2, <1>3, <1>6, <1>10 DEF FrameOk
      <4>3. \A j \in 1 .. parts : functions'[Parts[t][j]] # "none"
        <5>1. \A j \in 1 .. parts : Parts[t][j] \in Types
          BY <1>7, <4>2, PartTypes
        <5> QED
          BY <1>9, <1>11, <5>1
      <4>4. functions'[t] # "none" /\ (g \in panicking' \/ parts = Len(Parts[t]))
        BY <1>4, <1>5, <1>8
      <4>5. t \notin ready' /\ ~(n < n)
        <5>1. n \in Nat
          BY <1>1, <1>5 DEF CacheTyped
        <5> QED
          BY <1>5, <1>11, <5>1
      <4> QED
        BY <3>2, <4>1, <4>2, <4>3, <4>4, <4>5 DEF FrameOk
    <3>3. CASE i # n
      <4>1. /\ functions'[building[g][i].type] = functions[building[g][i].type]
            /\ building[g][i].type \notin ready'
        BY <1>5, <1>8, <1>17, <3>3
      <4> QED
        BY <1>9, <3>1, <4>1, FrameStays
    <3> QED
      BY <3>2, <3>3
  <2> QED
    BY <1>5, <2>1 DEF StackOk
<1>20. RunOk(g)'
  <2>1. Reached(g)' = Reached(g) /\ Top(g)' = Top(g)
    BY <1>5 DEF Reached, Top
  <2>2. walked[g] = {}
    BY <1>5 DEF RunOk
  <2> QED
    BY <1>2, <1>5, <1>12, <2>1, <2>2 DEF RunOk
<1> QED
  BY <1>14, <1>15, <1>16, <1>18, <1>19, <1>20 DEF CacheInv

(* The deferred Done: whoever waits for the type goes on, and the caller   *)
(* has its part, or fails too.                                             *)
LEMMA DoneKeeps == ASSUME CacheInv, NEW g \in Sizers, Done(g) PROVE CacheInv'
<1> /\ CacheTyped /\ Owned /\ \A x \in Types : TypeOk(x)
    /\ \A h \in Sizers : StackOk(h) /\ RunOk(h)
  BY DEF CacheInv
<1>1. PICK s : s = building[g]
  OBVIOUS
<1>2. PICK n : n = Len(s)
  OBVIOUS
<1>3. PICK callers : callers = Front(s)
  OBVIOUS
<1>4. PICK left : left = IF g \in panicking THEN callers ELSE Got(callers)
  OBVIOUS
<1>5. PICK t : t = Top(g).type
  OBVIOUS
<1>6. /\ pc[g] = "build" /\ functions[t] # "forward" /\ ready' = ready \cup {t}
      /\ building' = [building EXCEPT ![g] = left]
      /\ pc' = [pc EXCEPT ![g] =
           IF callers # <<>> THEN "build" ELSE IF g \in panicking THEN "done" ELSE "walk"]
      /\ sized' = [sized EXCEPT ![g] = IF callers = <<>> /\ g \in panicking THEN "unknown" ELSE @]
      /\ UNCHANGED <<functions, panicking, walked>>
  BY <1>1, <1>3, <1>4, <1>5 DEF Done, MayEnd
<1>7. /\ s \in Seq(Frames) /\ s # <<>> /\ n \in Nat \ {0} /\ DOMAIN s = 1 .. n
      /\ n \in DOMAIN s /\ Top(g) = s[n] /\ s[n] \in Frames
  <2>1. s \in Seq(Frames) /\ s # <<>>
    BY <1>1, <1>6 DEF CacheTyped, StackOk
  <2> QED
    BY <1>1, <1>2, <2>1 DEF Top
<1>8. t \in Types /\ t = s[n].type
  BY <1>5, <1>7 DEF Frames
<1>9. PICK m : m = n - 1
  OBVIOUS
<1>10. m \in Nat /\ n = m + 1
  BY <1>7, <1>9
<1>11. /\ callers \in Seq(Frames) /\ Len(callers) = m /\ DOMAIN callers = 1 .. m
       /\ \A i \in 1 .. m : callers[i] = s[i]
  <2>1. callers = SubSeq(s, 1, m)
    BY <1>2, <1>3, <1>9 DEF Front
  <2>2. \A i \in 1 .. m : i \in 1 .. n
    BY <1>10
  <2> QED
    BY <1>2, <1>7, <1>10, <2>1, <2>2
<1>12. /\ left \in Seq(Frames) /\ Len(left) = m /\ DOMAIN left = 1 .. m
       /\ \A i \in 1 .. m : left[i].type = s[i].type /\ (i # m => left[i] = s[i])
       /\ m # 0 => left[m].parts = IF g \in panicking THEN s[m].parts ELSE s[m].parts + 1
  <2>1. CASE g \in panicking
    <3>1. left = callers
      BY <1>4, <2>1
    <3> QED
      BY <1>10, <1>11, <2>1, <3>1
  <2>2. CASE g \notin panicking /\ callers = <<>>
    <3>1. left = <<>> /\ m = 0
      BY <1>4, <1>11, <2>2 DEF Got
    <3> QED
      BY <3>1
  <2>3. CASE g \notin panicking /\ callers # <<>>
    <3>1. left = Got(callers) /\ m # 0 /\ m \in 1 .. m
      BY <1>4, <1>10, <1>11, <2>3
    <3>2. /\ left \in Seq(Frames) /\ Len(left) = m /\ DOMAIN left = 1 .. m
          /\ \A i \in 1 .. m : left[i].type = callers[i].type /\ (i # m => left[i] = callers[i])
          /\ left[m].parts = callers[m].parts + 1
      BY <1>11, <2>3, <3>1, GotFrame
    <3> QED
      BY <1>11, <2>3, <3>1, <3>2
  <2> QED
    BY <2>1, <2>2, <2>3
<1>13. building'[g] = left /\ \A h \in Sizers \ {g} : /\ building'[h] = building[h] /\ pc'[h] = pc[h]
                                                          /\ sized'[h] = sized[h]
  BY <1>6 DEF CacheTyped
<1>14. callers = <<>> <=> m = 0
  BY <1>11
<1>15. functions[t] \in {"built", "unknown"}
  <2>1. FrameOk(g, n)
    BY <1>1, <1>7 DEF StackOk
  <2>2. functions[t] # "none"
    BY <1>1, <1>8, <2>1 DEF FrameOk
  <2> QED
    BY <1>6, <1>8, <2>2 DEF CacheTyped
<1>16. CacheTyped'
  <2>1. building' \in [Sizers -> Seq(Frames)] /\ ready' \in SUBSET Types
    BY <1>6, <1>8, <1>12 DEF CacheTyped
  <2>2. pc' \in [Sizers -> {"begin", "build", "walk", "done"}]
    BY <1>6 DEF CacheTyped
  <2>3. sized' \in [Sizers -> {"none", "known", "unknown"}]
    BY <1>6 DEF CacheTyped
  <2> QED
    BY <1>6, <2>1, <2>2, <2>3 DEF CacheTyped
<1>17. \A h \in Sizers : \A i \in DOMAIN building'[h] :
         i \in DOMAIN building[h] /\ building'[h][i].type = building[h][i].type /\ ~(h = g /\ i = n)
  <2>1. \A i \in 1 .. m : i \in 1 .. n /\ i # n
    BY <1>10
  <2> TAKE h \in Sizers
  <2> TAKE i \in DOMAIN building'[h]
  <2>2. CASE h = g
    BY <1>1, <1>7, <1>12, <1>13, <2>1, <2>2
  <2>3. CASE h # g
    BY <1>13, <2>3
  <2> QED
    BY <2>2, <2>3
<1>18. Owned'
  BY <1>17 DEF Owned
<1>19. \A h \in Sizers : \A i \in DOMAIN building[h] :
         /\ building[h][i].type \notin ready
         /\ building[h][i].type = t => h = g /\ i = n
  <2> TAKE h \in Sizers
  <2> TAKE i \in DOMAIN building[h]
  <2>1. FrameOk(h, i)
    BY DEF StackOk
  <2>2. building[h][i].type = t => h = g /\ i = n
    BY <1>1, <1>7, <1>8 DEF Owned
  <2> QED
    BY <2>1, <2>2 DEF FrameOk
<1>20. ASSUME NEW x \in Types PROVE TypeOk(x)'
  <2>1. functions'[x] = functions[x] /\ TypeOk(x) /\ functions' = functions
    BY <1>6
  <2>2. CASE x = t
    BY <1>6, <1>15, <2>1, <2>2 DEF TypeOk
  <2>3. CASE x # t
    <3>1. x \in ready' <=> x \in ready
      BY <1>6, <2>3
    <3>2. ASSUME NEW h \in Sizers, NEW i \in DOMAIN building[h], building[h][i].type = x
          PROVE  \E e \in Sizers : \E j \in DOMAIN building'[e] : building'[e][j].type = x
      <4>1. CASE h # g
        BY <1>13, <3>2, <4>1
      <4>2. CASE h = g
        <5>1. i \in 1 .. n /\ i # n
          BY <1>1, <1>7, <1>8, <2>3, <3>2, <4>2
        <5>2. i \in 1 .. m
          BY <1>10, <5>1
        <5> QED
          BY <1>1, <1>12, <1>13, <3>2, <4>2, <5>2
      <4> QED
        BY <4>1, <4>2
    <3> QED
      BY <2>1, <3>1, <3>2 DEF TypeOk
  <2> QED
    BY <2>2, <2>3
<1>21. ASSUME NEW h \in Sizers \ {g} PROVE StackOk(h)' /\ RunOk(h)'
  <2>1. \A i \in DOMAIN building[h] :
          /\ functions'[building[h][i].type] = functions[building[h][i].type]
          /\ building[h][i].type \notin ready'
    BY <1>6, <1>19
  <2>2. StackOk(h)'
    BY <1>6, <1>13, <2>1, StackStays
  <2>3. RunOk(h)'
    BY <1>6, <1>13, RunStays
  <2> QED
    BY <2>2, <2>3
<1>22. ASSUME m # 0
       PROVE  /\ s[m] \in Frames /\ s[m].type \in Types /\ s[m].parts \in Nat
              /\ functions[s[m].type] = "forward" /\ s[m].parts < Len(Parts[s[m].type])
              /\ t = Parts[s[m].type][s[m].parts + 1] /\ s[m].type \notin ready
              /\ \A j \in 1 .. s[m].parts : functions[Parts[s[m].type][j]] # "none"
  <2>1. m \in 1 .. n /\ m < n /\ m + 1 = n
    BY <1>10, <1>22
  <2>2. s[m] \in Frames
    BY <1>7, <2>1
  <2>3. FrameOk(g, m) /\ Len(building[g]) = n /\ building[g] = s
    BY <1>1, <1>2, <1>7, <2>1 DEF StackOk
  <2>4. s[m].type \in Types /\ s[m].parts \in Nat
    BY <2>2 DEF Frames
  <2> QED
    BY <1>8, <2>1, <2>2, <2>3, <2>4 DEF FrameOk
<1>23. StackOk(g)'
  <2>1. ASSUME NEW i \in 1 .. m PROVE FrameOk(g, i)'
    <3>1. i \in 1 .. n /\ i # n /\ m # 0 /\ i \in DOMAIN building[g]
      BY <1>1, <1>7, <1>10
    <3>2. FrameOk(g, i)
      BY <3>1 DEF StackOk
    <3>3. s[i].type \notin ready'
      BY <1>1, <1>6, <1>19, <3>1
    <3>4. building'[g][i].type = s[i].type /\ Len(building'[g]) = m /\ functions' = functions
      BY <1>6, <1>12, <1>13
    <3>5. CASE i # m
      <4>1. i < m /\ i + 1 \in 1 .. m /\ i < n
        BY <1>10, <3>5
      <4>2. building'[g][i] = s[i] /\ building'[g][i + 1].type = s[i + 1].type
        BY <1>12, <1>13, <3>5, <4>1
      <4>3. Len(building[g]) = n /\ building[g] = s /\ panicking' = panicking
        BY <1>1, <1>2, <1>6
      <4> QED
        BY <3>2, <3>3, <3>4, <4>1, <4>2, <4>3 DEF FrameOk
    <3>6. CASE i = m
      <4>1. PICK x : x = s[m].type
        OBVIOUS
      <4>2. PICK parts : parts = s[m].parts
        OBVIOUS
      <4>3. /\ x \in Types /\ parts \in Nat /\ functions[x] = "forward" /\ parts < Len(Parts[x])
            /\ t = Parts[x][parts + 1] /\ \A j \in 1 .. parts : functions[Parts[x][j]] # "none"
        BY <1>22, <3>1, <4>1, <4>2
      <4>4. PICK got : got = building'[g][m].parts
        OBVIOUS
      <4>5. got = parts \/ got = parts + 1
        BY <1>12, <1>13, <3>1, <4>2, <4>4
      <4>6. got <= Len(Parts[x])
        BY <4>3, <4>5, PartTypes
      <4>7. \A j \in 1 .. got : functions[Parts[x][j]] # "none"
        <5>1. functions[Parts[x][parts + 1]] # "none"
          BY <1>15, <4>3
        <5>2. \A j \in 1 .. got : j \in 1 .. parts \/ j = parts + 1
          BY <4>3, <4>5
        <5> QED
          BY <4>3, <5>1, <5>2
      <4>8. building'[g][m].type = x /\ x \notin ready' /\ ~(m < m)
        BY <1>10, <3>3, <3>4, <3>6, <4>1
      <4> QED
        BY <3>4, <3>6, <4>3, <4>4, <4>6, <4>7, <4>8 DEF FrameOk
    <3> QED
      BY <3>5, <3>6
  <2>2. pc'[g] = "build" <=> building'[g] # <<>>
    <3>1. left = <<>> <=> m = 0
      BY <1>12
    <3>2. pc'[g] = IF m # 0 THEN "build" ELSE IF g \in panicking THEN "done" ELSE "walk"
      BY <1>6, <1>14 DEF CacheTyped
    <3> QED
      BY <1>13, <3>1, <3>2
  <2>3. building'[g] # <<>> => building'[g][1].type = TypeOf[g]
    <3>1. s[1].type = TypeOf[g]
      BY <1>1, <1>7 DEF StackOk
    <3>2. left # <<>> => 1 \in 1 .. m
      BY <1>12, <1>10
    <3> QED
      BY <1>12, <1>13, <3>1, <3>2
  <2> QED
    BY <1>12, <1>13, <2>1, <2>2, <2>3 DEF StackOk
<1>24. RunOk(g)'
  <2>1. Reached(g)' = Reached(g) /\ walked[g] = {} /\ Reached(g) = {TypeOf[g]}
    <3>1. walked[g] = {}
      BY <1>6 DEF RunOk
    <3> QED
      BY <1>6, <3>1 DEF Reached
  <2>2. pc'[g] = IF m # 0 THEN "build" ELSE IF g \in panicking THEN "done" ELSE "walk"
    BY <1>6, <1>14 DEF CacheTyped
  <2>3. m = 0 => t = TypeOf[g]
    BY <1>1, <1>7, <1>8, <1>10 DEF StackOk
  <2>4. m = 0 /\ g \in panicking => sized'[g] = "unknown" /\ DependsOnFailing(TypeOf[g])
    <3>1. m = 0 /\ g \in panicking => sized'[g] = "unknown"
      BY <1>6, <1>14 DEF CacheTyped
    <3>2. g \in panicking => DependsOnFailing(t)
      BY <1>5, <1>6 DEF RunOk
    <3> QED
      BY <2>3, <3>1, <3>2
  <2>5. m # 0 /\ g \in panicking => DependsOnFailing(Top(g)'.type)
    <3>1. SUFFICES ASSUME m # 0, g \in panicking PROVE DependsOnFailing(Top(g)'.type)
      OBVIOUS
    <3>2. Top(g)'.type = s[m].type
      <4>1. Len(building'[g]) = m /\ m \in 1 .. m
        BY <1>10, <1>12, <1>13, <3>1
      <4>2. building'[g][m].type = s[m].type
        BY <1>12, <1>13, <4>1
      <4> QED
        BY <4>1, <4>2 DEF Top
    <3>3. DependsOnFailing(t)
      BY <1>5, <1>6, <3>1 DEF RunOk
    <3>4. s[m].type \in Types /\ t \in ToSet(Parts[s[m].type])
      <4>1. s[m].parts + 1 \in 1 .. Len(Parts[s[m].type])
        BY <1>22, <3>1, PartTypes
      <4> QED
        BY <1>22, <3>1, <4>1, PartTypes
    <3> QED
      BY <3>2, <3>3, <3>4, PartDepends
  <2>6. m = 0 => functions[TypeOf[g]] # "none"
    BY <1>15, <2>3
  <2>7. panicking' = panicking /\ functions' = functions /\ walked' = walked
    BY <1>6
  <2> QED
    BY <2>1, <2>2, <2>4, <2>5, <2>6, <2>7 DEF RunOk
<1> QED
  BY <1>16, <1>18, <1>20, <1>21, <1>23, <1>24 DEF CacheInv

(* A walk changes nobody's stack and no function.                          *)
LEMMA WalkFrame ==
  ASSUME CacheInv, NEW g \in Sizers, pc[g] = "walk", UNCHANGED <<functions, ready, building, panicking>>,
         pc' \in [Sizers -> {"begin", "build", "walk", "done"}], pc'[g] \in {"walk", "done"},
         walked' \in [Sizers -> SUBSET Types], sized' \in [Sizers -> {"none", "known", "unknown"}],
         \A h \in Sizers \ {g} : pc'[h] = pc[h] /\ walked'[h] = walked[h] /\ sized'[h] = sized[h],
         RunOk(g)'
  PROVE  CacheInv'
<1>1. CacheTyped'
  BY DEF CacheInv, CacheTyped
<1>2. Owned' /\ \A t \in Types : TypeOk(t)'
  BY DEF CacheInv, Owned, TypeOk
<1>3. ASSUME NEW h \in Sizers PROVE StackOk(h)'
  <2>1. StackOk(h) /\ (pc'[h] = "build" <=> pc[h] = "build")
    BY DEF CacheInv
  <2>2. \A i \in DOMAIN building[h] : FrameOk(h, i) => FrameOk(h, i)'
    BY DEF FrameOk
  <2> QED
    BY <2>1, <2>2 DEF StackOk
<1>4. ASSUME NEW h \in Sizers \ {g} PROVE RunOk(h)'
  <2>1. CacheTyped /\ RunOk(h)
    BY DEF CacheInv
  <2> QED
    BY <2>1, RunStays
<1> QED
  BY <1>1, <1>2, <1>3, <1>4 DEF CacheInv

LEMMA WalkKeeps ==
  ASSUME CacheInv, NEW g \in Sizers, NEW t \in Types, Walk(g, t)
  PROVE  CacheInv'
<1> /\ CacheTyped /\ RunOk(g) /\ TypeOk(t)
  BY DEF CacheInv
<1>1. /\ pc[g] = "walk" /\ t \in Reached(g) \ walked[g] /\ t \in ready
      /\ UNCHANGED <<functions, ready, building, panicking>>
  BY DEF Walk, MayWalk
<1>2. g \notin panicking /\ functions[TypeOf[g]] # "none"
  BY <1>1 DEF RunOk
<1>3. CASE functions[t] = "unknown"
  <2>1. pc' = [pc EXCEPT ![g] = "done"] /\ sized' = [sized EXCEPT ![g] = "unknown"] /\ walked' = walked
    BY <1>3 DEF Walk
  <2>2. DependsOnFailing(TypeOf[g])
    BY <1>1, <1>3 DEF TypeOk, RunOk
  <2>3. /\ pc'[g] = "done" /\ sized'[g] = "unknown"
        /\ \A h \in Sizers \ {g} : pc'[h] = pc[h] /\ walked'[h] = walked[h] /\ sized'[h] = sized[h]
        /\ pc' \in [Sizers -> {"begin", "build", "walk", "done"}]
        /\ walked' \in [Sizers -> SUBSET Types] /\ sized' \in [Sizers -> {"none", "known", "unknown"}]
    BY <2>1 DEF CacheTyped
  <2>4. RunOk(g)'
    <3>1. Reached(g)' = Reached(g)
      BY <2>1 DEF Reached
    <3> QED
      BY <1>1, <1>2, <2>1, <2>2, <2>3, <3>1 DEF RunOk
  <2> QED
    BY <1>1, <2>3, <2>4, WalkFrame
<1>4. CASE functions[t] # "unknown"
  <2>1. walked' = [walked EXCEPT ![g] = @ \cup {t}] /\ UNCHANGED <<pc, sized>>
    BY <1>4 DEF Walk
  <2>2. /\ walked'[g] = walked[g] \cup {t}
        /\ \A h \in Sizers \ {g} : walked'[h] = walked[h]
        /\ walked' \in [Sizers -> SUBSET Types]
    BY <2>1 DEF CacheTyped
  <2>3. functions[t] = "built"
    BY <1>1, <1>4 DEF TypeOk
  <2>4. Reached(g)' = Reached(g) \cup ToSet(Parts[t])
    BY <2>2 DEF Reached
  <2>5. \A p \in Reached(g)' : DependsOnFailing(p) => DependsOnFailing(TypeOf[g])
    <3>1. \A p \in ToSet(Parts[t]) : DependsOnFailing(p) => DependsOnFailing(t)
      BY PartDepends
    <3>2. \A p \in Reached(g) : DependsOnFailing(p) => DependsOnFailing(TypeOf[g])
      BY DEF RunOk
    <3> QED
      BY <1>1, <2>4, <3>1, <3>2
  <2>6. walked'[g] \subseteq Reached(g)' /\ \A x \in walked'[g] : functions'[x] = "built"
    BY <1>1, <2>2, <2>3, <2>4 DEF RunOk
  <2>7. RunOk(g)'
    BY <1>1, <1>2, <2>1, <2>5, <2>6 DEF RunOk
  <2>8. /\ pc' \in [Sizers -> {"begin", "build", "walk", "done"}]
        /\ sized' \in [Sizers -> {"none", "known", "unknown"}]
    BY <2>1 DEF CacheTyped
  <2> QED
    BY <1>1, <2>1, <2>2, <2>7, <2>8, WalkFrame
<1> QED
  BY <1>3, <1>4

LEMMA WalkEndsKeeps == ASSUME CacheInv, NEW g \in Sizers, WalkEnds(g) PROVE CacheInv'
<1> CacheTyped /\ RunOk(g)
  BY DEF CacheInv
<1>1. /\ pc[g] = "walk" /\ Reached(g) = walked[g] /\ UNCHANGED <<functions, ready, building, panicking, walked>>
      /\ pc' = [pc EXCEPT ![g] = "done"] /\ sized' = [sized EXCEPT ![g] = "known"]
  BY DEF WalkEnds, MayReturn
<1>2. /\ pc'[g] = "done" /\ sized'[g] = "known"
      /\ \A h \in Sizers \ {g} : pc'[h] = pc[h] /\ walked'[h] = walked[h] /\ sized'[h] = sized[h]
      /\ pc' \in [Sizers -> {"begin", "build", "walk", "done"}]
      /\ walked' \in [Sizers -> SUBSET Types] /\ sized' \in [Sizers -> {"none", "known", "unknown"}]
  BY <1>1 DEF CacheTyped
<1>3. RunOk(g)'
  <2>1. Reached(g)' = Reached(g) /\ g \notin panicking
    BY <1>1 DEF Reached, RunOk
  <2> QED
    BY <1>1, <1>2, <2>1 DEF RunOk
<1> QED
  BY <1>1, <1>2, <1>3, WalkFrame

LEMMA NextCache == CacheInv /\ [CacheNext]_cacheVars => CacheInv'
<1> SUFFICES ASSUME CacheInv, [CacheNext]_cacheVars PROVE CacheInv'
  OBVIOUS
<1>1. CASE CacheNext
  <2>1. PICK g \in Sizers :
          Begin(g) \/ NextPart(g) \/ Store(g) \/ Done(g) \/ (\E t \in Types : Walk(g, t)) \/ WalkEnds(g)
    BY <1>1 DEF CacheNext
  <2> QED
    BY <2>1, BeginKeeps, NextPartKeeps, StoreKeeps, DoneKeeps, WalkKeeps, WalkEndsKeeps
<1>2. CASE UNCHANGED cacheVars
  <2> /\ CacheTyped /\ Owned /\ \A x \in Types : TypeOk(x)
      /\ \A h \in Sizers : StackOk(h) /\ RunOk(h)
    BY DEF CacheInv
  <2> UNCHANGED <<functions, ready, building, panicking, pc, walked, sized>>
    BY <1>2 DEF cacheVars
  <2>1. CacheTyped' /\ Owned' /\ \A x \in Types : TypeOk(x)'
    BY DEF CacheTyped, Owned, TypeOk
  <2>2. ASSUME NEW h \in Sizers PROVE StackOk(h)' /\ RunOk(h)'
    <3>1. \A i \in DOMAIN building[h] : building[h][i].type \notin ready'
      BY DEF StackOk, FrameOk
    <3> QED
      BY <3>1, StackStays, RunStays
  <2> QED
    BY <2>1, <2>2 DEF CacheInv
<1> QED
  BY <1>1, <1>2

(* SizingEnds holds for any goroutines and any types, recursive ones and   *)
(* those of which the function cannot be built included: some goroutine    *)
(* that captures a value always has a step, and each ends with a size iff  *)
(* its type does not contain, at any depth, one that cannot be sized.      *)
THEOREM SizingIsSound == CacheSpec => []SizingEnds
<1> QED
  BY InitCache, NextCache, InvEnds, PTL DEF CacheSpec
=============================================================================
