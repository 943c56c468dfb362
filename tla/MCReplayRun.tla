----------------------------- MODULE MCReplayRun -----------------------------
(***************************************************************************)
(* A bounded instance of ReplayRun: one source trace and up to two         *)
(* attempts, on one worker or two, with database branches, dry, in child   *)
(* processes, and calls that are refused.                                  *)
(***************************************************************************)
EXTENDS ReplayRun

With(fields) == fields @@ ZeroOptions
Processes == [ZeroConcurrency EXCEPT !.primitive = "process", !.attempts = 2]

MCAccepted == {
  With([maxConcurrency |-> 2, attempts |-> 2, datasetID |-> "a", datasetIDs |-> <<>>]),
  With([maxConcurrency |-> 1, attempts |-> 2, branch |-> [minCU |-> 1, maxCU |-> 4, warmupSQL |-> 0]]),
  With([attempts |-> 2, dryRun |-> TRUE, branch |-> [minCU |-> 0, maxCU |-> 0, warmupSQL |-> 0]]),
  With([concurrency |-> Processes, processCommand |-> TRUE]),
  With([concurrency |-> [ZeroConcurrency EXCEPT !.maxConcurrency = 2],
        datasetIDs |-> <<"a", "b", "a">>, categoryIDs |-> 1])}

MCRefused == {
  With([codeChange |-> ""]), With([files |-> TRUE]), With([codeChange |-> "ref", base |-> "-flag"]),
  With([apiKey |-> FALSE]), With([attempts |-> 101]), With([limit |-> 5001]),
  With([maxConcurrency |-> 0 - 1]), With([groupName |-> TRUE]), With([overrides |-> <<None>>]),
  With([attempts |-> 2, concurrency |-> ZeroConcurrency]),
  With([concurrency |-> Processes]),
  With([concurrency |-> [ZeroConcurrency EXCEPT !.childHook = TRUE]]),
  With([branch |-> [minCU |-> 3, maxCU |-> 0, warmupSQL |-> 0]]),
  With([branch |-> [minCU |-> 4, maxCU |-> 40, warmupSQL |-> 0]]),
  With([branch |-> [minCU |-> 72, maxCU |-> 80, warmupSQL |-> 0]]),
  With([datasetIDs |-> <<>>]), With([datasetID |-> "a", datasetIDs |-> <<"b">>]),
  With([categoryIDs |-> 1]), With([traceIDs |-> 0]), With([traceIDs |-> 101]),
  With([selective |-> 1, mock |-> "all"])}

MCCalls == MCAccepted \cup MCRefused
MCItems == 1 .. 2
=============================================================================
