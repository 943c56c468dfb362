----------------------------- MODULE MCDecisions -----------------------------
(***************************************************************************)
(* The parts of the program that decide about values, each small and       *)
(* sharing no variable with another: a behaviour is of one part, and the   *)
(* variables of the others stay idle or as they are at first.              *)
(***************************************************************************)
EXTENDS Integers, Sequences, FiniteSets, TLC, ReplayMocks, SelectiveReplay, SizeCache, RequestBatches, PayloadBudget

CONSTANT None, Unknown
VARIABLE part

------------------------------------------------------------------------------
(* Mocks: two calls of one node and one of another. The recording has      *)
(* three spans of the first, one of them below a span without function,    *)
(* which holds the only one of the second too.                             *)
MockCalls == {"c1", "c2", "c3"}
MockKeys == "c1" :> "k1" @@ "c2" :> "k1" @@ "c3" :> "k2"
SpanKeys == 0 :> "k1" @@ 1 :> "k1" @@ 2 :> "" @@ 3 :> "k2" @@ 4 :> "k1"
SpansBelow == 0 :> <<1, 2>> @@ 1 :> <<>> @@ 2 :> <<3, 4>> @@ 3 :> <<>> @@ 4 :> <<>>
MockOverrides == {"k1" :> o @@ "k2" :> "no" : o \in {"no", "flat", "resolver", "panics"}}
MockedCalls == {"c1"}
Outputs == {{}, {1}}
IdleMocks ==
  /\ strategy = "none" /\ overrides = <<>> /\ tree = "failed" /\ present = {} /\ counters = <<>>
  /\ entered = [k \in Keys |-> <<>>] /\ index = <<>> /\ call = [c \in NodeCalls |-> "ran"]
  /\ ask = [c \in NodeCalls |-> [a \in Asks |-> "no"]] /\ cache = <<>>
  /\ fetches = [s \in Spans |-> 0] /\ expired = FALSE

(* Selective: an item that was recorded with two calls of f, one with a    *)
(* call of h below it, and runs with up to three calls.                    *)
Shape(input, hidden, safety, reuse, supported) ==
  [input |-> input, hidden |-> hidden, safety |-> safety, reuse |-> reuse, supported |-> supported]
RecordedNodes == {"r", "f1", "f2", "h"}
Parents == "r" :> nil @@ "f1" :> "r" @@ "f2" :> "r" @@ "h" :> "f1"
Identities == "r" :> "root" @@ "f1" :> "f" @@ "f2" :> "f" @@ "h" :> "h"
Recordings == "r" :> "a" @@ "f1" :> "a" @@ "f2" :> "b" @@ "h" :> "a"
RecordedPlans ==
  [mustRun : SUBSET RecordedNodes, reusable : {{"f1", "f2", "h"}},
   required : {{"f"}, {"h"}, {"root"}, {"x", "h"}}, missing : {{}, {"x"}},
   asserted : {{}, {"h"}}, fullTrace : BOOLEAN]
CallShapes ==
  {Shape("a", FALSE, FALSE, TRUE, TRUE), Shape("b", FALSE, FALSE, TRUE, TRUE),
   Shape("none", TRUE, FALSE, FALSE, TRUE), Shape("a", FALSE, TRUE, FALSE, TRUE),
   Shape("b", FALSE, TRUE, TRUE, FALSE)}
Identifiers == {"root", "f", "h"}
IdleSelective ==
  /\ plan = 0 /\ accepted = FALSE /\ live = <<>> /\ node = 0 /\ matching = 0 /\ consumed = 0
  /\ required = 0 /\ asserted = 0 /\ action = 0

------------------------------------------------------------------------------
(* Payloads: a span's, with one or both records of span data, and one      *)
(* without.                                                                *)
Sizes == {[size |-> 1, quotes |-> 0, kind |-> "plain"], [size |-> 4, quotes |-> 4, kind |-> "plain"],
          [size |-> 6, quotes |-> 0, kind |-> "plain"], [size |-> 6, quotes |-> 3, kind |-> "stray"],
          [size |-> 5, quotes |-> 2, kind |-> "refused"], [size |-> 4, quotes |-> 0, kind |-> "null"]}
SomePayloads ==
  [{<<"top", 9>>, <<"data", 1>>, <<"data", 2>>, <<"data", 9>>} -> Sizes]
    \cup [{<<"top", 1>>, <<"data", 1>>, <<"raw", 1>>, <<"raw", 2>>} -> Sizes]
    \cup [{<<"top", 1>>, <<"top", 2>>, <<"top", 9>>} -> Sizes]
StubValue == [size |-> 2, quotes |-> 1, kind |-> "stub"]
NoteValue == [size |-> 3, quotes |-> 1, kind |-> "plain"]
IdlePayload ==
  fields = <<>> /\ errors = <<>> /\ before = 0 /\ trimmed = {} /\ lossy = FALSE /\ phase = "captured"

(* Requests: up to three spans, small ones, one that fits compressed, one  *)
(* that fits trimmed, one that does not and one whose rest is too large.   *)
Span(size, wire, trims, left, leftWire) ==
  [size |-> size, wire |-> wire, trims |-> trims, trimmed |-> left, trimmedWire |-> leftWire]
ManySpans == {Span(1, 1, FALSE, 0, 0), Span(2, 2, TRUE, 2, 2), Span(7, 5, TRUE, 5, 4), Span(9, 9, TRUE, 8, 7),
              Span(12, 6, TRUE, 7, 4), Span(12, 9, TRUE, 9, 4)}
SomeExports == UNION {[1..n -> ManySpans] : n \in 1..3}
IdleRequests == spans = <<>> /\ batches = <<>> /\ outcome = <<>> /\ delivered = {}

(* Sizes: values of every kind to a depth of three, with shared and cyclic *)
(* references.                                                             *)
VARIABLES value, captured, encoded, failed
sizeVars == <<value, captured, encoded, failed>>
Nil == [kind |-> "nil"]
Digits(n) == [kind |-> "number", len |-> IF n = 1 THEN 0 ELSE 1, digits |-> n]
Text(n, escapes) == [kind |-> "string", len |-> n, escapes |-> escapes]
List(items) == [kind |-> "list", items |-> items]
MapOf(items) == [kind |-> "map", items |-> items]
Struct(items) == [kind |-> "struct", items |-> items]
Ref(at) == [kind |-> "ref", at |-> at]
OptionalField(v) == [name |-> 1, omitempty |-> TRUE, unseen |-> FALSE, written |-> TRUE, v |-> v]
UpTo(n, S) == UNION {[1..m -> S] : m \in 0..n}
Heap == 1 :> List(<<Digits(1), Ref(2)>>) @@ 2 :> MapOf(<<[key |-> 1, v |-> Ref(3)]>>) @@ 3 :> Text(1, 0)
          @@ 4 :> Struct(<<OptionalField(Ref(4))>>) @@ 5 :> Ref(5)
Some == {Digits(1), Text(0, 0), Text(3, 2), Ref(1), Ref(4)}
Leaves == Some \cup {Nil, Digits(3), [kind |-> "bool", len |-> 5], [kind |-> "bytes", len |-> 4],
                     [kind |-> "func"], Ref(2), Ref(3), Ref(5)}
Fields ==
  {OptionalField(v) : v \in Some}
    \cup {[name |-> 1, omitempty |-> FALSE, unseen |-> FALSE, written |-> TRUE, v |-> v] : v \in Some}
    \cup {[name |-> 2, omitempty |-> FALSE, unseen |-> TRUE, written |-> b, v |-> Digits(3)] : b \in BOOLEAN}
Composites ==
  {List(items) : items \in UpTo(2, Leaves)}
    \cup {Struct(items) : items \in UpTo(2, Fields)}
    \cup {MapOf(items) : items \in UpTo(2, [key : {0, 2}, v : Some])}
Nested ==
  LET lists == {List(items) : items \in UpTo(2, Some)}
  IN  {List(items) : items \in UpTo(2, lists)} \cup {Struct(<<OptionalField(v)>>) : v \in lists}
Size == INSTANCE SerializedSize WITH
  Values <- Leaves \cup Composites \cup Nested, Heap <- Heap, Budget <- 14, CycleCheckAfter <- 2
IdleSize == value = 0 /\ captured = 0 /\ encoded = 0 /\ failed = 0

(* Cache: four goroutines; a and b contain each other, c contains both and *)
(* one that cannot be sized, which the fourth captures by itself.          *)
CacheSizers == 1..4
CacheTypeOf == <<"a", "b", "c", "f">>
CacheParts ==
  "a" :> <<"b", "n">> @@ "b" :> <<"a", "b">> @@ "c" :> <<"n", "a", "f">> @@ "n" :> <<>> @@ "f" :> <<>>

------------------------------------------------------------------------------
(* Change: a line of four commits with branches low and top and a second   *)
(* line from the first commit; remote copies that are up to date, behind   *)
(* or pushed by another name, or a branch that follows a local one; and a  *)
(* tree of four files of which one is binary, one renamed, empty, too      *)
(* large or with a rune across the cut, and one unchanged or not tracked.  *)
VARIABLES repo, mode, handoff, work, untracked, stage, base, entries, files, measured, reliable
changeVars == <<repo, mode, handoff, work, untracked, stage, base, entries, files, measured, reliable>>
Repo(heads, remotes, branch, head, upstream, originHead) ==
  [heads |-> heads, remotes |-> remotes, branch |-> branch, head |-> head, upstream |-> upstream,
   originHead |-> originHead]
Stacked ==
  {Repo("main" :> m @@ "low" :> 2 @@ "top" :> h, "main" :> 1 @@ "top" :> p @@ "pushed" :> 3, b, h, u, o) :
     m \in {1, 5}, h \in {2, 3, 4}, p \in {2, 3}, b \in {"top"},
     u \in {<<"origin", "pushed">>, <<"origin", "main">>, <<"heads", "low">>, None}, o \in {"main", None}}
Detached ==
  {Repo("main" :> m @@ "low" :> 2, "main" :> 1 @@ "pushed" :> 3, None, 4, None, o) : m \in {1, 5}, o \in {"main", None}}
OnMain == {Repo("main" :> 4, r, "main", 4, None, None) : r \in {<<>>, "main" :> 2}}
NoDefault == Repo("work" :> 4 @@ "dev" :> 2, <<>>, "work", 4, None, None)
Content(text, bytes, crlf, like, runes) ==
  [text |-> text, bytes |-> bytes, crlf |-> crlf, like |-> like, runes |-> runes]
x == Content("x", 2, FALSE, "x", "whole")
y == Content("y", 4, FALSE, "y", "whole")
binary == Content("binary", 2, FALSE, "binary", "none")
split == Content("split", 5, FALSE, "x", "split")
empty == Content("", 0, FALSE, "empty", "whole")
large == Content("z", 7, FALSE, "z", "whole")
Trees ==
  [work : {11 :> a @@ 12 :> b @@ 13 :> c @@ 14 :> y :
             a \in {x, Content("x", 2, TRUE, "x", "whole"), None}, b \in {y, binary},
             c \in {x, Content("x2", 2, FALSE, "x", "whole"), None, empty, split, large}},
   untracked : {{}}]
  \cup [work : {11 :> x @@ 12 :> y @@ 13 :> y @@ 14 :> d : d \in {x, y}}, untracked : {{13}, {11, 13}}]
GivenFiles == <<[path |-> 11, before |-> "old", after |-> "new"]>>
Unchanged == 11 :> x @@ 12 :> y @@ 13 :> None @@ 14 :> y
Change == INSTANCE CodeChange WITH
  Parent <- <<None, 1, 2, 3, 1>>, Repositories <- Stacked \cup Detached \cup OnMain \cup {NoDefault},
  DefaultNames <- <<"main", "master">>, MaxWalk <- 1000,
  Modes <- {[kind |-> k, base |-> None] : k \in {"last-branch", "default-branch", "working-tree", "skip", "manual"}}
             \cup {[kind |-> "ref", base |-> n] : n \in {"low", "pushed", "gone"}},
  Tree <- [c \in 1..5 |-> 11 :> x @@ 12 :> (IF c < 3 THEN binary ELSE y) @@ 13 :> None
                            @@ 14 :> (IF c = 1 THEN None ELSE y)],
  WorkingTrees <- Trees, Handoffs <- {None, <<>>, GivenFiles}, Manual <- GivenFiles, Edits <- {None, large}, MaxFiles <- 2, MaxFileBytes <- 6, MaxTotal <- 11
(* Every repository and mode with one tree, and every tree and what may be *)
(* handed over with one of them.                                           *)
MCChangeInit ==
  /\ Change!Init
  /\ work = Unchanged \/ (repo = NoDefault /\ mode.kind \in {"last-branch", "working-tree"})
  /\ handoff = None \/ (repo = NoDefault /\ work = Unchanged)
IdleChange ==
  /\ repo = 0 /\ mode = 0 /\ handoff = 0 /\ work = 0 /\ untracked = 0 /\ stage = 0 /\ base = 0 /\ entries = 0
  /\ files = 0 /\ measured = 0 /\ reliable = 0

------------------------------------------------------------------------------
MCInit ==
  /\ part \in {"mocks", "selective", "payload", "requests", "size", "cache", "change"}
  /\ IF part = "mocks" THEN MocksInit ELSE IdleMocks
  /\ IF part = "selective" THEN SelectiveInit ELSE IdleSelective
  /\ IF part = "payload" THEN PayloadInit ELSE IdlePayload
  /\ IF part = "requests" THEN BatchesInit ELSE IdleRequests
  /\ IF part = "size" THEN Size!Init ELSE IdleSize
  /\ CacheInit
  /\ IF part = "change" THEN MCChangeInit ELSE IdleChange

MCNext ==
  /\ \/ part = "mocks" /\ MocksNext
        /\ UNCHANGED <<selectiveVars, payloadVars, requestVars, sizeVars, cacheVars, changeVars>>
     \/ part = "selective" /\ SelectiveNext
        /\ UNCHANGED <<mockVars, payloadVars, requestVars, sizeVars, cacheVars, changeVars>>
     \/ part = "payload" /\ PayloadNext
        /\ UNCHANGED <<mockVars, selectiveVars, requestVars, sizeVars, cacheVars, changeVars>>
     \/ part = "requests" /\ BatchesNext
        /\ UNCHANGED <<mockVars, selectiveVars, payloadVars, sizeVars, cacheVars, changeVars>>
     \/ part = "size" /\ Size!Next
        /\ UNCHANGED <<mockVars, selectiveVars, payloadVars, requestVars, cacheVars, changeVars>>
     \/ part = "cache" /\ CacheNext
        /\ UNCHANGED <<mockVars, selectiveVars, payloadVars, requestVars, sizeVars, changeVars>>
     \/ part = "change" /\ Change!Next
        /\ UNCHANGED <<mockVars, selectiveVars, payloadVars, requestVars, sizeVars, cacheVars>>
  /\ UNCHANGED part

MCVars == <<part, mockVars, selectiveVars, payloadVars, requestVars, sizeVars, cacheVars, changeVars>>
MCSpec == MCInit /\ [][MCNext]_MCVars

------------------------------------------------------------------------------
(* Each part's properties, which hold of its behaviours; see there. *)
(* No value is replaced that fits (capValueReport). *)
CapExact == part = "size" => Size!CapExact
(* A replay is tagged with the change it runs (resolveCodeChange). *)
CodeChangeExact == part = "change" => Change!CodeChangeExact
=============================================================================
