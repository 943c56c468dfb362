----------------------------- MODULE AutoSubtree -----------------------------
(***************************************************************************)
(* Automatic subtree capture: Client.Trace opens a root, every            *)
(* instrumented call below it adds a record to each root it is under, the  *)
(* calls end on goroutines of their own and in any order, and the root     *)
(* sends its completion once it is closed and its last record has left     *)
(* (Trace, enterAutoNode, AutoNode.End, autoRoot, autoRecord.finish).      *)
(*                                                                         *)
(* Live, a nested Trace is a call that adds a record to the roots around   *)
(* it and opens one of its own. In a replayed item it stays in the item's  *)
(* root, which the item's span manages and hands its completion to; in a   *)
(* selective replay calls that are not captured are intercepted all the    *)
(* same.                                                                   *)
(***************************************************************************)
EXTENDS Integers, FiniteSets

CONSTANTS
  Roots, FnCalls,  \* the roots Trace calls open, and the instrumented calls
  Opens,           \* Opens[r]: the Trace call that opens r
  Around,          \* Around[c]: the calls that c is below
  Declared,        \* calls the plan does not apply to: Node or Trace
  Options          \* what Trace may run with: the mode ("live", "replay" or
                   \* "selective"), maxDepth, maxSpans and exclude

ASSUME SubtreeAssumption ==
  /\ IsFiniteSet(FnCalls)
  /\ Opens \in [Roots -> FnCalls]
  /\ Around \in [FnCalls -> SUBSET FnCalls] /\ \A c \in FnCalls : c \notin Around[c]
  /\ \A o \in Options : o.maxDepth \in Nat /\ o.maxSpans \in Nat

VARIABLES
  opts,
  call,         \* new, running or over, for each call
  entering,     \* the roots a call that enters has yet to add a record to
  record,       \* each call's record in each root
  opened, closed,   \* roots
  captured,     \* capturedSubtreeCount
  dropped,      \* droppedSpans, and with it truncatedBy
  complete,     \* managed roots whose span has handed over its completion
  tries,        \* tryComplete calls of close and finishManagedAutoSpan to come
  completions,  \* how often each root's completion was sent
  reported      \* the number of dropped spans it reported

vars == <<opts, call, entering, record, opened, closed, captured, dropped,
          complete, tries, completions, reported>>

Selective == opts.mode = "selective"
Managed(r) == opts.mode # "live"
Own(c) == {r \in Roots : Opens[r] = c /\ (opts.mode = "live" \/ Around[c] = {})}

(* A record is "live" until its function's body is done, and has left the  *)
(* root at "try" and "gone"; leftOut is one the limits refused,            *)
(* interceptionOnly one that is not exported.                              *)
NoRecord == [at |-> "none", interceptionOnly |-> FALSE, leftOut |-> FALSE]
In(r, stages) == {c \in FnCalls : record[r][c].at \in stages}
Records(r) == In(r, {"live", "finalize", "send"})       \* autoRoot.records
Admitted(r) == Records(r) \cup In(r, {"try", "gone"})
At(r, c, there) == record' = [record EXCEPT ![r][c].at = there]
LeftOut(r) == {c \in FnCalls : record[r][c].leftOut}
Depth(r, c) == 1 + Cardinality({a \in Around[c] \cap Admitted(r) :
                                  Opens[r] # a /\ ~record[r][a].interceptionOnly})

Init ==
  /\ opts \in Options
  /\ call = [c \in FnCalls |-> "new"]
  /\ entering = [c \in FnCalls |-> {}]
  /\ record = [r \in Roots |-> [c \in FnCalls |-> NoRecord]]
  /\ opened = {} /\ closed = {} /\ complete = {} /\ tries = {}
  /\ captured = [r \in Roots |-> 0] /\ dropped = [r \in Roots |-> 0]
  /\ completions = [r \in Roots |-> 0] /\ reported = [r \in Roots |-> 0]

------------------------------------------------------------------------------
(* A call enters: Trace or enterAutoNode adds its record to one root after *)
(* the other, the outermost first; a root it opens is its own.             *)
Enter(c) ==
  /\ call[c] = "new"
  /\ \A a \in Around[c] : call[a] # "new" /\ entering[a] = {}
  /\ call' = [call EXCEPT ![c] = "running"]
  /\ entering' = [entering EXCEPT ![c] = {r \in opened : Opens[r] \in Around[c]}]
  /\ opened' = opened \cup Own(c)
  /\ record' = [r \in Roots |-> IF r \in Own(c) THEN [record[r] EXCEPT ![c].at = "live"] ELSE record[r]]
  /\ UNCHANGED <<opts, closed, captured, dropped, complete, tries, completions, reported>>

Outermost(r, c) == r \in entering[c] /\ \A q \in entering[c] \ {r} : Opens[r] \in Around[Opens[q]]
Entered(r, c) == entering' = [entering EXCEPT ![c] = @ \ {r}]

(* autoRoot.add before it takes the lock: a closed root takes no call, an  *)
(* excluded one is left out or only intercepted, one too deep is dropped.  *)
Check(r, c) ==
  /\ Outermost(r, c) /\ record[r][c].at = "none"
  /\ LET hidden == c \in opts.exclude
         deep == Depth(r, c) > opts.maxDepth IN
       IF r \in closed \/ (hidden /\ ~Selective)
       THEN Entered(r, c) /\ UNCHANGED record
       ELSE /\ record' = [record EXCEPT ![r][c] =
                 [at |-> IF deep THEN "deep" ELSE "adding",
                  interceptionOnly |-> hidden \/ (deep /\ Selective), leftOut |-> FALSE]]
            /\ UNCHANGED entering
  /\ UNCHANGED <<opts, call, opened, closed, captured, dropped, complete, tries,
                 completions, reported>>

(* drop, outside the lock: a call too deep is counted unless the root has  *)
(* been closed, and the root may be closed after that has been looked at.  *)
Dropped(r, c) ==       \* add goes on, in a selective replay to the lock
  IF Selective THEN UNCHANGED entering ELSE Entered(r, c)
Onward == IF Selective THEN "adding" ELSE "none"

DropDeep(r, c) ==
  /\ record[r][c].at = "deep"
  /\ IF r \in closed
     THEN At(r, c, Onward) /\ Dropped(r, c)
     ELSE At(r, c, "dropping") /\ UNCHANGED entering
  /\ UNCHANGED <<opts, call, opened, closed, captured, dropped, complete, tries,
                 completions, reported>>

CountDrop(r, c) ==
  /\ record[r][c].at = "dropping"
  /\ record' = [record EXCEPT ![r][c].at = Onward, ![r][c].leftOut = TRUE]
  /\ dropped' = [dropped EXCEPT ![r] = @ + 1]
  /\ Dropped(r, c)
  /\ UNCHANGED <<opts, call, opened, closed, captured, complete, tries,
                 completions, reported>>

CountsAll(r, c) == captured[r] >= opts.maxSpans          \* a mutant: declared calls too
(* The limit is about the calls the root captures by itself.               *)
Captures(r, c) == c \notin Declared /\ ~record[r][c].interceptionOnly
Full(r, c) == Captures(r, c) /\ captured[r] >= opts.maxSpans

Active(r) == r \notin closed

(* autoRoot.add under the lock: the root may have been closed meanwhile,   *)
(* and the spans it captures are limited.                                  *)
Add(r, c) ==
  /\ record[r][c].at = "adding"
  /\ Entered(r, c)
  /\ \/ /\ ~Active(r)
        /\ At(r, c, "none")
        /\ UNCHANGED <<captured, dropped>>
     \/ /\ Active(r) /\ Full(r, c)
        /\ dropped' = [dropped EXCEPT ![r] = @ + 1]
        /\ record' = [record EXCEPT ![r][c] =
             [at |-> IF Selective THEN "live" ELSE "none", interceptionOnly |-> Selective, leftOut |-> TRUE]]
        /\ UNCHANGED captured
     \/ /\ Active(r) /\ ~Full(r, c)
        /\ captured' = [captured EXCEPT ![r] = IF Captures(r, c) THEN @ + 1 ELSE @]
        /\ At(r, c, "live")
        /\ UNCHANGED dropped
  /\ UNCHANGED <<opts, call, opened, closed, complete, tries, completions, reported>>

------------------------------------------------------------------------------
(* A call is over (finishAutoRecords): the records whose body is not done  *)
(* yet are finished, at once or after the finalizer, on a goroutine of its *)
(* own; there is none if no record is exported.                            *)
End(c) ==
  /\ call[c] = "running" /\ entering[c] = {}
  /\ call' = [call EXCEPT ![c] = "over"]
  /\ LET mine == {r \in Roots : record[r][c].at = "live"} IN
       \E there \in {"finalize", "send"} :
         /\ there = "finalize" => \E r \in mine : ~record[r][c].interceptionOnly
         /\ record' = [r \in Roots |-> IF r \in mine THEN [record[r] EXCEPT ![c].at = there] ELSE record[r]]
  /\ UNCHANGED <<opts, entering, opened, closed, captured, dropped, complete, tries,
                 completions, reported>>

RunFinalizer(c) ==
  /\ \E r \in Roots : record[r][c].at = "finalize"
  /\ record' = [r \in Roots |-> IF record[r][c].at = "finalize"
                                THEN [record[r] EXCEPT ![c].at = "send"] ELSE record[r]]
  /\ UNCHANGED <<opts, call, entering, opened, closed, captured, dropped, complete, tries,
                 completions, reported>>

(* autoRecord.finish: the span is handed to the client, or a managed       *)
(* root's data to the item's span, and only then leaves the root.          *)
Finish(r, c) ==
  /\ record[r][c].at = "send" /\ At(r, c, "try")
  /\ UNCHANGED <<opts, call, entering, opened, closed, captured, dropped, complete, tries,
                 completions, reported>>

(* tryComplete under the lock; what it finds there stays true ...          *)
Ready(r) == r \in closed /\ Records(r) = {} /\ (Managed(r) => r \in complete)

AtOnce(r) == TRUE              \* a mutant: without the Once
First(r) == completions[r] = 0

(* ... and after it, once: the truncation and the completion. *)
TryComplete(r) ==
  IF Ready(r) /\ First(r)
  THEN /\ completions' = [completions EXCEPT ![r] = @ + 1]
       /\ reported' = [reported EXCEPT ![r] = dropped[r]]
  ELSE UNCHANGED <<completions, reported>>

Leave(r, c) ==
  /\ record[r][c].at = "try" /\ At(r, c, "gone")
  /\ TryComplete(r)
  /\ UNCHANGED <<opts, call, entering, opened, closed, captured, dropped, complete, tries>>

NoneUnfinished(r) == {}        \* a mutant: a call that hangs keeps its record
Unfinished(r) == In(r, {"live"})

(* close, when the Trace call is over: the records whose body is not done  *)
(* are finished with an error, and their calls find nothing to do later.   *)
Close(r) ==
  /\ r \in opened \ closed /\ call[Opens[r]] = "over"
  /\ closed' = closed \cup {r}
  /\ record' = [record EXCEPT ![r] = [c \in FnCalls |->
       IF c \in Unfinished(r) THEN [@[c] EXCEPT !.at = "send"] ELSE @[c]]]
  /\ tries' = tries \cup {<<r, "close">>}
  /\ UNCHANGED <<opts, call, entering, opened, captured, dropped, complete,
                 completions, reported>>

(* finishManagedAutoSpan: the item's span ends, as a rule after its Trace. *)
HandOver(r) ==
  /\ Managed(r) /\ r \in opened \ complete
  /\ complete' = complete \cup {r}
  /\ tries' = tries \cup {<<r, "handOver">>}
  /\ UNCHANGED <<opts, call, entering, record, opened, closed, captured, dropped,
                 completions, reported>>

TryRoot(r, who) ==
  /\ <<r, who>> \in tries
  /\ tries' = tries \ {<<r, who>>}
  /\ TryComplete(r)
  /\ UNCHANGED <<opts, call, entering, record, opened, closed, captured, dropped, complete>>

------------------------------------------------------------------------------
(* What the SDK does once the host's functions have returned. *)
SDKStep ==
  \/ \E r \in Roots : Close(r) \/ HandOver(r) \/ \E who \in {"close", "handOver"} : TryRoot(r, who)
  \/ \E c \in FnCalls : RunFinalizer(c)
  \/ \E r \in Roots, c \in FnCalls :
       Check(r, c) \/ DropDeep(r, c) \/ CountDrop(r, c) \/ Add(r, c) \/ Finish(r, c) \/ Leave(r, c)

Next == SDKStep \/ \E c \in FnCalls : Enter(c) \/ End(c)

(* The finalizers and the functions given to Trace return, an item's span  *)
(* ends; a call below a Trace may run for ever. No step can recur, so one  *)
(* condition is as good as one for each.                                   *)
Spec ==
  /\ Init /\ [][Next]_vars
  /\ WF_vars(SDKStep \/ \E r \in Roots : End(Opens[r]))

------------------------------------------------------------------------------
TooDeep == {c \in FnCalls : opts.maxDepth < Cardinality(Around[c])}

(* A trace's completion is sent once, when its root is closed and every    *)
(* span it admitted has been handed over, and no span of it after that; a  *)
(* managed root's has its item's span behind it. It tells the number of    *)
(* calls left out for a limit, each counted once even where both limits    *)
(* refuse it, and misses none but a call too deep that comes as the root   *)
(* is closed (tryComplete, finish, drop).                                  *)
CompletionLast ==
  \A r \in Roots :
    /\ completions[r] <= 1
    /\ completions[r] = 1 =>
         /\ r \in closed /\ Records(r) = {} /\ (Managed(r) => r \in complete)
         /\ reported[r] \in Cardinality(LeftOut(r) \ TooDeep) .. Cardinality(LeftOut(r))

(* The limit counts exactly the spans it is about: those of the calls the  *)
(* root captures by itself, however their adds interleave. Never more than *)
(* allowed, and a declared call is never left out for it (autoRoot.add).   *)
LimitExact ==
  \A r \in Roots :
    /\ captured[r] = Cardinality({c \in Admitted(r) \ Declared : Opens[r] # c /\ ~record[r][c].interceptionOnly})
    /\ captured[r] <= opts.maxSpans
    /\ LeftOut(r) \cap Declared \subseteq TooDeep

(* Every trace is completed, whatever its calls do (close, tryComplete).   *)
SubtreesComplete == \A r \in Roots : r \in opened ~> completions[r] = 1
=============================================================================
