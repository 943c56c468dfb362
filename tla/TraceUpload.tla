----------------------------- MODULE TraceUpload -----------------------------
(***************************************************************************)
(* What the upload path promises the server: the completion of a trace is  *)
(* announced at most once, after every span of the trace that was begun    *)
(* has been uploaded or given up, and it carries the number of spans that  *)
(* were uploaded (the expectedSpanCount of http.go sendTracePayload).      *)
(* Once the host has asked to drop a trace, its spans may be withheld: the *)
(* number counts them too, and then the completion says that the trace is  *)
(* dropped, which it says of no trace the host did not ask to drop.        *)
(***************************************************************************)
EXTENDS Naturals, Sequences, FiniteSets

CONSTANTS Spans, Traces, TraceOf

VARIABLES
  begun,      \* spans begun
  settled,    \* spans uploaded or given up
  uploaded,   \* spans the server will receive
  withheld,   \* spans not uploaded because their trace was dropped
  asked,      \* traces the host asked to drop
  announced,  \* counts announced for each trace
  told        \* traces announced as dropped

vars == <<begun, settled, uploaded, withheld, asked, announced, told>>

SpansOf(t) == {s \in Spans : TraceOf[s] = t}

Init ==
  /\ begun = {} /\ settled = {} /\ uploaded = {} /\ withheld = {} /\ asked = {}
  /\ announced = [t \in Traces |-> <<>>]
  /\ told = {}

Begin(s) ==
  /\ s \notin begun /\ announced[TraceOf[s]] = <<>>
  /\ begun' = begun \cup {s}
  /\ UNCHANGED <<settled, uploaded, withheld, asked, announced, told>>

Settle(s) ==
  /\ s \in begun \ settled
  /\ settled' = settled \cup {s}
  /\ uploaded' \in {uploaded, uploaded \cup {s}}
  /\ UNCHANGED <<begun, withheld, asked, announced, told>>

Drop(t) ==
  /\ begun \cap SpansOf(t) # {}
  /\ asked' = asked \cup {t}
  /\ UNCHANGED <<begun, settled, uploaded, withheld, announced, told>>

Withhold(s) ==
  /\ s \in begun \ settled /\ TraceOf[s] \in asked
  /\ settled' = settled \cup {s}
  /\ withheld' = withheld \cup {s}
  /\ UNCHANGED <<begun, uploaded, asked, announced, told>>

Announce(t) ==
  /\ announced[t] = <<>>
  /\ begun \cap SpansOf(t) \subseteq settled
  /\ announced' =
       [announced EXCEPT ![t] = <<Cardinality((uploaded \cup withheld) \cap SpansOf(t))>>]
  /\ \/ t \in asked /\ told' = told \cup {t}
     \/ withheld \cap SpansOf(t) = {} /\ told' = told
  /\ UNCHANGED <<begun, settled, uploaded, withheld, asked>>

Next ==
  \/ \E s \in Spans : Begin(s) \/ Settle(s) \/ Withhold(s)
  \/ \E t \in Traces : Drop(t) \/ Announce(t)

Spec == Init /\ [][Next]_vars
=============================================================================
