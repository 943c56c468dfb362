---------------------------- MODULE ReplayChildren ----------------------------
(***************************************************************************)
(* Replay with process concurrency: workers that wait until there is       *)
(* memory for a child process, run it, watch its memory, kill it at its    *)
(* timeout or when the host cancels, read the result it left in a file and *)
(* report the item (runReplayProcesses, runReplayChild,                    *)
(* replayMemoryThrottle), and the child itself (runAssignedReplayItem),    *)
(* which may die at any point.                                             *)
(*                                                                         *)
(* Workers are interchangeable, so what is kept is how far each item is;   *)
(* memory is counted in units, and a child's grows while it lives.         *)
(***************************************************************************)
EXTENDS Integers, FiniteSetsExt

CONSTANTS
  None,
  Items,        \* 1 .. n
  Workers,      \* how many: min(MaxConcurrency, len(items))
  Memory,       \* what is available when no child runs
  MaxRSS,       \* bounds a child's memory
  Budget,       \* replayMemoryThrottle.budget: assumed of a child at first
  Floor         \* replayMemoryThrottle.floor

(* A budget and a floor that the environment gives are at least a megabyte *)
(* (replayEnvBytes).                                                       *)
ASSUME ChildrenAssumption ==
  /\ None \notin Nat
  /\ IsFiniteSet(Items)
  /\ Memory \in Nat /\ MaxRSS \in Nat
  /\ Budget \in Nat \ {0} /\ Floor \in Nat \ {0}

VARIABLES
  throttled,    \* a memory throttle is in use
  stage,        \* where the worker of each item is; queued and done are with none
  resident,     \* replayMemoryThrottle.resident; None for an item not in the map
  peak,         \* replayMemoryThrottle.peak
  promised,     \* history: the budget of the last admission that was checked
  child,        \* none, run or exited
  rss,          \* the child's memory
  file,         \* whether the child has renamed a result into place
  outcome,      \* result.Items: none yet, refused (not admitted), lost (a setup error of
                \* the parent), or the child's result
  cancelled

throttle == <<resident, peak, promised>>
process == <<child, rss, file>>
vars == <<throttled, stage, throttle, process, outcome, cancelled>>

Init ==
  /\ throttled \in BOOLEAN
  /\ stage = [i \in Items |-> "queued"]
  /\ resident = [i \in Items |-> None] /\ peak = 0 /\ promised = None
  /\ child = [i \in Items |-> "none"] /\ rss = [i \in Items |-> 0]
  /\ file = [i \in Items |-> FALSE]
  /\ outcome = [i \in Items |-> "none"]
  /\ cancelled = FALSE

------------------------------------------------------------------------------
(* The memory throttle; each operation holds its mutex. *)

Resident == {i \in Items : resident[i] # None}
Alive == {i \in Items : child[i] = "run"}
Held == UNION {{i} \X (1 .. rss[i]) : i \in Alive}   \* unit by unit
Available == Memory - Cardinality(Held)

(* childBudget *)
ChildBudget ==
  Max({IF peak > 0 THEN peak ELSE Budget} \cup {resident[i] : i \in Resident})

UnreservedFit ==               \* a mutant: forgets what the others may still take
  Available - ChildBudget >= Floor

(* headroom: the children there are may still grow to the budget. *)
Growth == UNION {{i} \X (resident[i] + 1 .. ChildBudget) : i \in Resident}
Fits == Available - Cardinality(Growth) - ChildBudget >= Floor

NobodyAlone == FALSE           \* a mutant: the first child needs headroom as well

(* ... and the first child always has headroom. *)
Alone == Resident = {}

Unmeasured == 0

(* admit: the pressure may be critical, the swap full or the memory not to *)
(* be known, whatever the children do.                                     *)
Admit(i) ==
  /\ stage[i] = "admit"
  /\ \/ /\ cancelled
        /\ outcome' = [outcome EXCEPT ![i] = "refused"]
        /\ stage' = [stage EXCEPT ![i] = "report"]
        /\ UNCHANGED throttle
     \/ /\ ~cancelled
        /\ \/ Alone /\ UNCHANGED promised
           \/ ~Alone /\ Resident # {} /\ Fits /\ promised' = ChildBudget
           \/ Resident # {} /\ promised' = None                  \* not known
        /\ resident' = [resident EXCEPT ![i] = Unmeasured]
        /\ stage' = [stage EXCEPT ![i] = "begin"]
        /\ UNCHANGED <<peak, outcome>>
  /\ UNCHANGED <<throttled, process, cancelled>>

Observe(i) ==
  /\ stage[i] = "wait" /\ throttled /\ child[i] # "exited"
  /\ resident[i] # None /\ rss[i] > resident[i]
  /\ resident' = [resident EXCEPT ![i] = rss[i]]
  /\ UNCHANGED <<throttled, stage, peak, promised, process, outcome, cancelled>>

HigherPeak(i) == Max({peak, resident[i]})

Release(i) ==
  /\ stage[i] = "release"
  /\ resident' = [resident EXCEPT ![i] = None]
  /\ peak' = IF throttled THEN HigherPeak(i) ELSE peak
  /\ stage' = [stage EXCEPT ![i] = "report"]
  /\ UNCHANGED <<throttled, promised, process, outcome, cancelled>>

------------------------------------------------------------------------------
(* The workers. *)

TakeJob(i) ==
  /\ stage[i] = "queued" /\ \A j \in 1 .. i - 1 : stage[j] # "queued"
  /\ Cardinality({j \in Items : stage[j] \notin {"queued", "done"}}) < Workers
  /\ stage' = [stage EXCEPT ![i] = IF throttled THEN "admit" ELSE "begin"]
  /\ UNCHANGED <<throttled, throttle, process, outcome, cancelled>>

(* reportStart, the assignment and the start of the child. *)
Begin(i) ==
  /\ stage[i] = "begin"
  /\ \/ /\ outcome' = [outcome EXCEPT ![i] = "lost"]
        /\ stage' = [stage EXCEPT ![i] = "release"]
        /\ UNCHANGED child
     \/ /\ ~cancelled
        /\ child' = [child EXCEPT ![i] = "run"]
        /\ stage' = [stage EXCEPT ![i] = "wait"]
        /\ UNCHANGED outcome
  /\ UNCHANGED <<throttled, throttle, rss, file, cancelled>>

Exited(i) ==
  /\ stage[i] = "wait" /\ child[i] = "exited"
  /\ stage' = [stage EXCEPT ![i] = "read"]
  /\ UNCHANGED <<throttled, throttle, process, outcome, cancelled>>

(* The child's timeout or the host's cancellation, which is its parent.    *)
Kill(i) ==
  /\ stage[i] = "wait"
  /\ stage' = [stage EXCEPT ![i] = "kill"]
  /\ UNCHANGED <<throttled, throttle, process, outcome, cancelled>>

(* The signal has its effect, and Wait returned. *)
Reap(i) ==
  /\ stage[i] = "kill"
  /\ child' = [child EXCEPT ![i] = "exited"] /\ rss' = [rss EXCEPT ![i] = 0]
  /\ stage' = [stage EXCEPT ![i] = "read"]
  /\ UNCHANGED <<throttled, throttle, file, outcome, cancelled>>

Uncancelled(i) == file[i] /\ ~cancelled  \* a mutant: a child that was killed has no result

HasResult(i) == file[i]

(* The result is taken from the file, however the child ended. *)
ReadResult(i) ==
  /\ stage[i] = "read"
  /\ outcome' = [outcome EXCEPT ![i] = IF HasResult(i) THEN "result" ELSE "lost"]
  /\ stage' = [stage EXCEPT ![i] = IF throttled THEN "release" ELSE "report"]
  /\ UNCHANGED <<throttled, throttle, process, cancelled>>

(* reportFinish; nobody looks at the file or the child any more. *)
Report(i) ==
  /\ stage[i] = "report"
  /\ stage' = [stage EXCEPT ![i] = "done"]
  /\ file' = [file EXCEPT ![i] = FALSE]
  /\ child' = [child EXCEPT ![i] = IF @ = "exited" THEN "none" ELSE @]
  /\ UNCHANGED <<throttled, throttle, rss, outcome, cancelled>>

WorkerStep(i) ==
  \/ TakeJob(i) \/ Admit(i) \/ Begin(i) \/ Exited(i) \/ Kill(i) \/ Reap(i)
  \/ ReadResult(i) \/ Release(i) \/ Report(i)

------------------------------------------------------------------------------
(* The child (runAssignedReplayItem), beside its worker. *)

Apart == UNCHANGED <<throttled, stage, throttle, outcome, cancelled>>

Grow(i) ==
  /\ i \in Alive /\ rss[i] < MaxRSS
  /\ rss' = [rss EXCEPT ![i] = @ + 1]
  /\ UNCHANGED <<child, file>> /\ Apart

(* The item ran its function and its trace was waited for, or failed       *)
(* before; the result is written beside its path and renamed into place.   *)
WriteResult(i) ==
  /\ i \in Alive /\ ~file[i]
  /\ file' = [file EXCEPT ![i] = TRUE]
  /\ UNCHANGED <<child, rss>> /\ Apart

(* The hook has run and the client was flushed; or the child fails or      *)
(* dies, at any point.                                                     *)
ChildEnds(i) ==
  /\ i \in Alive
  /\ child' = [child EXCEPT ![i] = "exited"] /\ rss' = [rss EXCEPT ![i] = 0]
  /\ UNCHANGED file /\ Apart

Cancel ==
  /\ ~cancelled /\ cancelled' = TRUE
  /\ UNCHANGED <<throttled, stage, throttle, process, outcome>>

Done == (\A i \in Items : stage[i] = "done") /\ UNCHANGED vars

Next ==
  \/ \E i \in Items :
       WorkerStep(i) \/ Observe(i) \/ Grow(i) \/ WriteResult(i) \/ ChildEnds(i)
  \/ Cancel \/ Done

(* The workers go on; a child need not, for its timeout is sure to pass.   *)
Spec == Init /\ [][Next]_vars /\ WF_vars(\E i \in Items : WorkerStep(i))

------------------------------------------------------------------------------
(* While children run beside each other and none has outgrown the budget   *)
(* the last of them was admitted under, the floor of free memory is kept:  *)
(* what the others might still take was reserved (headroom, childBudget).  *)
FloorKept ==
  throttled /\ Cardinality(Resident) >= 2 /\ promised # None
    /\ (\A i \in Alive : rss[i] <= promised)
  => Available >= Floor

(* Every live child is one the throttle counts and a worker waits for; the *)
(* map holds no entry beyond its worker's (admit, release).                *)
ChildrenCounted ==
  /\ \A i \in Alive : stage[i] \in {"wait", "kill"}
  /\ throttled => Resident = {i \in Items : stage[i] \in {"begin", "wait", "kill", "read", "release"}}

(* The memory of the machine: the floor is kept, by counting every child   *)
(* (replayMemoryThrottle).                                                 *)
MemoryGuarded == FloorKept /\ ChildrenCounted

(* When an item is reported its result is final: what the child managed to *)
(* write, even while it was being killed, and nothing else (runReplayChild *)
(* reads the file after the child has ended); only after the host has      *)
(* cancelled does an item fail for want of memory.                         *)
NoResultLost ==
  \A i \in Items : stage[i] = "report" =>
    /\ i \notin Alive
    /\ IF outcome[i] = "refused" THEN cancelled /\ child[i] = "none"
       ELSE outcome[i] = IF file[i] THEN "result" ELSE "lost"

(* Every item is settled, however little memory there is. *)
AllSettle == <>(\A i \in Items : stage[i] = "done")
=============================================================================
