------------------------------ MODULE SizeCache ------------------------------
(***************************************************************************)
(* The functions that size values, one for each type (serialized_size.go   *)
(* sizeFuncFor): built when a value of the type first comes, by whichever  *)
(* goroutine is first, and kept. A type may contain itself, and several    *)
(* goroutines may build types that contain each other; whoever finds a     *)
(* type under construction takes a forward function that waits for it when *)
(* it is called, never while building.                                     *)
(***************************************************************************)
EXTENDS Integers, Sequences, SequencesExt

CONSTANTS
  Sizers, TypeOf,  \* goroutines that capture a value, and its type
  Parts,               \* the types a type is made of, in the order they are looked at
  Failing              \* types of which the function cannot be built

Types == DOMAIN Parts

ASSUME SizeCacheAssumption ==
  /\ TypeOf \in [Sizers -> Types]
  /\ Parts \in [Types -> Seq(Types)]
  /\ Failing \subseteq Types

VARIABLES
  functions,   \* sizeFuncsByType: none, forward, built or unknown
  ready,       \* types whose builder is done (the forward function's WaitGroup)
  building,    \* each goroutine's stack of types under construction, with how many parts each has
  panicking,   \* goroutines whose construction has failed
  pc,          \* begin, build, walk or done
  walked,      \* the types of the parts a goroutine has sized
  sized        \* its result: none, known or unknown

cacheVars == <<functions, ready, building, panicking, pc, walked, sized>>

CacheInit ==
  /\ functions = [t \in Types |-> "none"] /\ ready = {}
  /\ building = [g \in Sizers |-> <<>>] /\ panicking = {}
  /\ pc = [g \in Sizers |-> "begin"]
  /\ walked = [g \in Sizers |-> {}]
  /\ sized = [g \in Sizers |-> "none"]

Top(g) == building[g][Len(building[g])]
Frame(t) == [type |-> t, parts |-> 0]

AwaitsOthers(g, t) ==        \* a mutant: waits for what another goroutine builds
  t \in ready \/ \E i \in DOMAIN building[g] : building[g][i].type = t
Available(g, t) == TRUE

(* sizeFuncFor: load the function, or store a forward one and build it. A  *)
(* frame gets the function it asked for; the first one's caller walks.     *)
Got(stack) == IF stack = <<>> THEN stack ELSE [stack EXCEPT ![Len(stack)].parts = @ + 1]

MayGet(g, t) == functions[t] = "none" \/ Available(g, t)
SizeFuncFor(g, t) ==
  IF functions[t] = "none"
  THEN /\ functions' = [functions EXCEPT ![t] = "forward"]
       /\ building' = [building EXCEPT ![g] = Append(@, Frame(t))]
       /\ pc' = [pc EXCEPT ![g] = "build"]
  ELSE /\ building' = [building EXCEPT ![g] = Got(@)]
       /\ pc' = [pc EXCEPT ![g] = IF building[g] = <<>> THEN "walk" ELSE "build"]
       /\ UNCHANGED functions

MayBegin(g) == pc[g] = "begin" /\ MayGet(g, TypeOf[g])
Begin(g) ==
  /\ MayBegin(g)
  /\ SizeFuncFor(g, TypeOf[g])
  /\ UNCHANGED <<ready, panicking, walked, sized>>

Sought(g) == Parts[Top(g).type][Top(g).parts + 1]
MayLook(g) ==
  /\ pc[g] = "build" /\ g \notin panicking /\ Top(g).type \notin Failing
  /\ Top(g).parts < Len(Parts[Top(g).type])
  /\ MayGet(g, Sought(g))
NextPart(g) ==
  /\ MayLook(g)
  /\ SizeFuncFor(g, Sought(g))
  /\ UNCHANGED <<ready, panicking, walked, sized>>

(* newSizeFunc has returned, or panicked; what is stored then is for ever. *)
Panics(g) == g \in panicking \/ Top(g).type \in Failing
MayStore(g) ==
  /\ pc[g] = "build" /\ functions[Top(g).type] = "forward"
  /\ Panics(g) \/ Top(g).parts = Len(Parts[Top(g).type])
Store(g) ==
  /\ MayStore(g)
  /\ functions' = [functions EXCEPT ![Top(g).type] = IF Panics(g) THEN "unknown" ELSE "built"]
  /\ panicking' = IF Panics(g) THEN panicking \cup {g} ELSE panicking
  /\ UNCHANGED <<ready, building, pc, walked, sized>>

(* The deferred ready.Done; a panic goes on to the caller. *)
MayEnd(g) == pc[g] = "build" /\ functions[Top(g).type] # "forward"
Done(g) ==
  /\ MayEnd(g)
  /\ ready' = ready \cup {Top(g).type}
  /\ LET callers == Front(building[g]) IN
       /\ building' = [building EXCEPT ![g] =
            IF g \in panicking THEN callers ELSE Got(callers)]
       /\ pc' = [pc EXCEPT ![g] =
            IF callers # <<>> THEN "build" ELSE IF g \in panicking THEN "done" ELSE "walk"]
       /\ sized' = [sized EXCEPT ![g] = IF callers = <<>> /\ g \in panicking THEN "unknown" ELSE @]
  /\ UNCHANGED <<functions, panicking, walked>>

(* The function runs, and those of the parts the value has, each waiting   *)
(* until it is ready: a forward one does, and any other is ready but for   *)
(* the moment between Store and Done. One that could not be built panics, *)
(* which exceedsSerializedBudget recovers from.                            *)
Reached(g) == {TypeOf[g]} \cup UNION {ToSet(Parts[t]) : t \in walked[g]}

MayWalk(g, t) == pc[g] = "walk" /\ t \in Reached(g) \ walked[g] /\ t \in ready
Walk(g, t) ==
  /\ MayWalk(g, t)
  /\ IF functions[t] = "unknown"
     THEN /\ pc' = [pc EXCEPT ![g] = "done"] /\ sized' = [sized EXCEPT ![g] = "unknown"]
          /\ UNCHANGED walked
     ELSE /\ walked' = [walked EXCEPT ![g] = @ \cup {t}] /\ UNCHANGED <<pc, sized>>
  /\ UNCHANGED <<functions, ready, building, panicking>>

MayReturn(g) == pc[g] = "walk" /\ Reached(g) = walked[g]
WalkEnds(g) ==
  /\ MayReturn(g)
  /\ pc' = [pc EXCEPT ![g] = "done"] /\ sized' = [sized EXCEPT ![g] = "known"]
  /\ UNCHANGED <<functions, ready, building, panicking, walked>>

CacheNext ==
  \E g \in Sizers :
    Begin(g) \/ NextPart(g) \/ Store(g) \/ Done(g) \/ (\E t \in Types : Walk(g, t)) \/ WalkEnds(g)

CacheSpec == CacheInit /\ [][CacheNext]_cacheVars

------------------------------------------------------------------------------
(* A type that cannot be sized, or has such a part: every set with it that *)
(* has the parts of what it has has one.                                   *)
Closed(types) == \A t \in types : ToSet(Parts[t]) \subseteq types
DependsOnFailing(t) == \A types \in SUBSET Types : t \in types /\ Closed(types) => types \cap Failing # {}

MayStep(g) ==
  MayBegin(g) \/ MayLook(g) \/ MayStore(g) \/ MayEnd(g) \/ (\E t \in Types : MayWalk(g, t)) \/ MayReturn(g)

(* No goroutine hangs in the construction of a function, neither its own   *)
(* nor another's (every step brings one nearer to its end, so that it is   *)
(* enough that there always is one), and a type that cannot be sized is    *)
(* nobody's trouble but of those that contain it (sizeFuncFor's forward    *)
(* functions).                                                             *)
SizingEnds ==
  /\ (\E g \in Sizers : pc[g] # "done") => \E g \in Sizers : MayStep(g)
  /\ \A g \in Sizers :
       pc[g] = "done" => sized[g] = IF DependsOnFailing(TypeOf[g]) THEN "unknown" ELSE "known"
=============================================================================
