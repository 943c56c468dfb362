----------------------------- MODULE ReplayMocks -----------------------------
(***************************************************************************)
(* The recorded outputs a replayed item substitutes for its calls          *)
(* (replay_mock.go): the tree of recorded spans is read once, every call   *)
(* of a node stands for the next recorded one of its key, and an output    *)
(* that did not come with the tree is fetched when it is first asked for,  *)
(* by one of the goroutines that ask.                                      *)
(***************************************************************************)
EXTENDS Integers, Sequences

CONSTANTS
  NodeCalls, KeyOf,  \* the item's calls and the function and span name of each
  Marked,         \* calls configured with WithMockOnReplay
  SpanKey,        \* recorded spans and their keys, NoKey for a span without function
  Below,          \* Below[s]: the spans below a recorded span, in their order
  TopSpan, NoKey,
  Overrides,      \* what the item's overrides do with each key
  Presents        \* sets of spans whose outputs the server sends with a tree

Spans == DOMAIN SpanKey
Keys == {KeyOf[c] : c \in NodeCalls}
Asks == {1, 2}    \* a resolver may ask for the recorded output more than once

(* buildReplayMockTree: the spans below one, each before those below it,   *)
(* numbered for each key.                                                  *)
WalkBelow[s \in Spans] ==
  LET joined[n \in 0..Len(Below[s])] ==
        IF n = 0 THEN <<>>
        ELSE LET child == Below[s][n]
             IN  joined[n - 1] \o (IF SpanKey[child] = NoKey THEN <<>> ELSE <<child>>) \o WalkBelow[child]
  IN  joined[Len(Below[s])]
Tree == WalkBelow[TopSpan]
Occurrences(k) == SelectSeq(Tree, LAMBDA s : SpanKey[s] = k)

(* A recording is a finite tree, whose walk is a sequence of its spans.    *)
ASSUME MocksAssumption ==
  /\ \A o \in Overrides : o \in [Keys -> {"no", "flat", "resolver", "panics"}]
  /\ \A p \in Presents : p \subseteq Spans
  /\ \A k \in Keys : Occurrences(k) \in Seq(Spans)

VARIABLES
  strategy,   \* none, all or marked
  overrides,  \* for each key: no override, a flat value, a resolver, or a matcher that panics
  tree,       \* unread, nil, empty or read; failed when the item cannot run
  present,    \* recorded spans whose output came with the tree
  counters, entered,  \* callCounters, and the calls of each key in the order they came
  index,      \* the number a call took
  call,       \* new, entered, asking, ran, mocked or failed
  ask,        \* what became of each request of a call for its recorded output
  cache,      \* outputCache, by span: none, fetching, value or error
  fetches,    \* how often each span's output was fetched
  expired   \* the item's context is done

mockVars == <<strategy, overrides, tree, present, counters, entered, index, call, ask, cache,
          fetches, expired>>

MocksInit ==
  /\ strategy \in {"none", "all", "marked"}
  /\ overrides \in Overrides
  /\ tree = "unread" /\ present = {}
  /\ counters = [k \in Keys |-> 0] /\ entered = [k \in Keys |-> <<>>]
  /\ index = [c \in NodeCalls |-> 0] /\ call = [c \in NodeCalls |-> "new"]
  /\ ask = [c \in NodeCalls |-> [a \in Asks |-> "no"]]
  /\ cache = [s \in Spans |-> "none"] /\ fetches = [s \in Spans |-> 0]
  /\ expired = FALSE

(* prepareReplayMockTree: no tree is needed without mocks; a tree that     *)
(* cannot be had fails the item, unless only marked calls would be mocked. *)
(* Outputs come with it if all calls are.                                  *)
MayPrepare == tree = "unread"
Prepare ==
  /\ MayPrepare
  /\ LET overridden == \E k \in Keys : overrides[k] # "no" IN
       \/ /\ strategy = "none" /\ ~overridden
          /\ tree' = "nil" /\ UNCHANGED present
       \/ /\ strategy # "none" \/ overridden
          /\ tree' = "read"
          /\ present' \in IF strategy = "all" THEN Presents ELSE {{}}
       \/ /\ strategy # "none" \/ overridden
          /\ tree' = IF strategy = "marked" /\ ~overridden THEN "empty" ELSE "failed"
          /\ UNCHANGED present
  /\ UNCHANGED <<strategy, overrides, counters, entered, index, call, ask, cache, fetches, expired>>

(* resolveReplayMock under mockMu: the call takes its number. *)
Recorded(c) == tree = "read" /\ index[c] < Len(Occurrences(KeyOf[c]))
Recording(c) == Occurrences(KeyOf[c])[index[c] + 1]

IfMocked(c) == strategy = "all" \/ c \in Marked    \* a mutant: calls that run take no number
Counted(c) == TRUE

MayNumber(c) == call[c] = "new" /\ tree \in {"nil", "empty", "read"}
Number(c) ==
  /\ MayNumber(c)
  /\ IF tree = "nil"
     THEN /\ call' = [call EXCEPT ![c] = "ran"]
          /\ UNCHANGED <<counters, entered, index>>
     ELSE /\ call' = [call EXCEPT ![c] = "entered"]
          /\ index' = [index EXCEPT ![c] = counters[KeyOf[c]]]
          /\ counters' = [counters EXCEPT ![KeyOf[c]] = IF Counted(c) THEN @ + 1 ELSE @]
          /\ entered' = [entered EXCEPT ![KeyOf[c]] = Append(@, c)]
  /\ UNCHANGED <<strategy, overrides, tree, present, ask, cache, fetches, expired>>

(* What is substituted: an override that matches comes first, then the     *)
(* strategy; a call selected for its recorded output that has none fails.  *)
Selected(c) == strategy = "all" \/ (strategy = "marked" /\ c \in Marked)
MayResolve(c) == call[c] = "entered"
Resolve(c) ==
  /\ MayResolve(c)
  /\ LET override == overrides[KeyOf[c]] IN
       \/ /\ override = "panics" /\ call' = [call EXCEPT ![c] = "failed"] /\ UNCHANGED ask
       \/ /\ override = "flat"
          /\ \E decoded \in {"mocked", "failed"} : call' = [call EXCEPT ![c] = decoded]
          /\ UNCHANGED ask
       \/ /\ override = "resolver"
          /\ call' = [call EXCEPT ![c] = "asking"]
          /\ \E asked \in {{}, {1}, {1, 2}} :
               ask' = [ask EXCEPT ![c] = [a \in Asks |->
                 IF a \notin asked THEN "no" ELSE IF Recorded(c) THEN "wants" ELSE "error"]]
       \/ /\ override = "no" /\ ~Selected(c)
          /\ call' = [call EXCEPT ![c] = "ran"] /\ UNCHANGED ask
       \/ /\ override = "no" /\ Selected(c) /\ ~Recorded(c)
          /\ call' = [call EXCEPT ![c] = "failed"] /\ UNCHANGED ask
       \/ /\ override = "no" /\ Selected(c) /\ Recorded(c)
          /\ call' = [call EXCEPT ![c] = "asking"]
          /\ ask' = [ask EXCEPT ![c][1] = "wants"]
  /\ UNCHANGED <<strategy, overrides, tree, present, counters, entered, index, cache, fetches, expired>>

Leads(s) == cache[s] = "none"

(* resolveRecordedReplayOutput under mockMu: the output came with the tree,*)
(* or this request is the first and fetches it, or waits for that one.     *)
MayAsk(c, a) == ask[c][a] = "wants"
Ask(c, a) ==
  /\ MayAsk(c, a)
  /\ LET s == Recording(c) IN
       \/ /\ s \in present
          /\ ask' = [ask EXCEPT ![c][a] = "value"]
          /\ UNCHANGED <<cache, fetches>>
       \/ /\ s \notin present /\ Leads(s)
          /\ ask' = [ask EXCEPT ![c][a] = "leads"]
          /\ cache' = [cache EXCEPT ![s] = "fetching"]
          /\ fetches' = [fetches EXCEPT ![s] = @ + 1]
       \/ /\ s \notin present /\ ~Leads(s)
          /\ ask' = [ask EXCEPT ![c][a] = "waits"]
          /\ UNCHANGED <<cache, fetches>>
  /\ UNCHANGED <<strategy, overrides, tree, present, counters, entered, index, call, expired>>

(* The fetch ends, with an error at the latest when the context does. *)
MayFetch(c, a) == ask[c][a] = "leads"
Fetched(c, a) ==
  /\ MayFetch(c, a)
  /\ \E result \in {"value", "error"} :
       /\ ask' = [ask EXCEPT ![c][a] = result]
       /\ cache' = [cache EXCEPT ![Recording(c)] = result]
  /\ UNCHANGED <<strategy, overrides, tree, present, counters, entered, index, call, fetches, expired>>

MayFollow(c, a) == ask[c][a] = "waits" /\ cache[Recording(c)] \in {"value", "error"}
Follow(c, a) ==
  /\ \/ /\ MayFollow(c, a)
        /\ ask' = [ask EXCEPT ![c][a] = cache[Recording(c)]]
     \/ /\ ask[c][a] = "waits" /\ expired
        /\ ask' = [ask EXCEPT ![c][a] = "error"]
  /\ UNCHANGED <<strategy, overrides, tree, present, counters, entered, index, call, cache, fetches, expired>>

(* The substituted value, decoded into the call's type if that goes: a     *)
(* resolver may make one up, the strategy needs the recorded output.       *)
MaySettle(c) == call[c] = "asking" /\ \A a \in Asks : ask[c][a] \in {"no", "value", "error"}
Settle(c) ==
  /\ MaySettle(c)
  /\ \/ call' = [call EXCEPT ![c] = "failed"]
     \/ /\ overrides[KeyOf[c]] = "resolver" \/ ask[c][1] = "value"
        /\ call' = [call EXCEPT ![c] = "mocked"]
  /\ UNCHANGED <<strategy, overrides, tree, present, counters, entered, index, ask, cache, fetches, expired>>

Expire ==
  /\ ~expired /\ expired' = TRUE
  /\ UNCHANGED <<strategy, overrides, tree, present, counters, entered, index, call, ask, cache, fetches>>

MocksNext ==
  \/ Prepare \/ Expire
  \/ \E c \in NodeCalls : Number(c) \/ Resolve(c) \/ Settle(c)
  \/ \E c \in NodeCalls, a \in Asks : Ask(c, a) \/ Fetched(c, a) \/ Follow(c, a)

MocksSpec == MocksInit /\ [][MocksNext]_mockVars

------------------------------------------------------------------------------
(* The n-th call of a node stands for the n-th span recorded for it,       *)
(* whatever became of the calls before, and however they interleave        *)
(* (resolveReplayMock); a call that has an output substituted ran neither  *)
(* its function nor another call's recording.                              *)
OccurrenceExact ==
  \A k \in Keys : \A i \in DOMAIN entered[k] :
    /\ index[entered[k][i]] = i - 1
    /\ call[entered[k][i]] = "mocked" /\ overrides[k] = "no" =>
         /\ Selected(entered[k][i]) /\ i <= Len(Occurrences(k))
         /\ LET s == Occurrences(k)[i] IN s \in present \/ cache[s] = "value"

(* A recorded output is fetched at most once, by however many goroutines   *)
(* it is asked for, and they all get the same answer, unless the item was  *)
(* expired (resolveRecordedReplayOutput).                                *)
FetchedOnce ==
  /\ \A s \in Spans : fetches[s] <= 1
  /\ \A c \in NodeCalls, a, b \in Asks : ask[c][a] = "value" /\ ask[c][b] = "error" => expired

(* No call hangs on another one's fetch, whether that succeeds or not: as  *)
(* long as one has not been settled a step is possible that needs no       *)
(* cancellation, and every one brings some call nearer to its end (the     *)
(* entry's done channel).                                                  *)
MayProceed ==
  \/ MayPrepare
  \/ \E c \in NodeCalls : MayNumber(c) \/ MayResolve(c) \/ MaySettle(c)
  \/ \E c \in NodeCalls, a \in Asks : MayAsk(c, a) \/ MayFetch(c, a) \/ MayFollow(c, a)
MocksSettle ==
  (tree # "failed" /\ \E c \in NodeCalls : call[c] \in {"new", "entered", "asking"}) => MayProceed

(* Which recorded output a call gets, that it is read once, and that the   *)
(* call comes to an end, for any interleaving of the calls                 *)
(* (replay_mock.go).                                                       *)
MocksExact == OccurrenceExact /\ FetchedOnce /\ MocksSettle
=============================================================================
