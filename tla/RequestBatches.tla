---------------------------- MODULE RequestBatches ----------------------------
(***************************************************************************)
(* How the exporter packs the spans of one export into requests (otel.go   *)
(* buildRequestBatches) and what it does with a request that is too large  *)
(* (send): the size of a request is counted up and never measured, and     *)
(* only a span that is alone can be compressed below the limit, trimmed or *)
(* given up. When a request is sent and sent again is RequestExport's.     *)
(***************************************************************************)
EXTENDS Integers, Sequences

CONSTANTS
  Exports,       \* the spans of an export: size, once trimmed, and compressed likewise
  Envelope,      \* bytes around the spans of a request
  Separator,     \* spanSeparatorBytes
  MaxSpans,      \* maxRequestBatchSize
  MaxBytes,      \* maxRequestBytes
  MaxRaw         \* otelMaxDecompressedBytes, at least MaxBytes

(* An export has spans; what a request may be before it is compressed is   *)
(* more than what it may be on the wire (otelMaxRequestBytesFromEnv).      *)
Sized == [size : Nat, wire : Nat, trims : BOOLEAN, trimmed : Nat, trimmedWire : Nat]

ASSUME BatchesAssumption ==
  /\ \A export \in Exports : DOMAIN export = 1..Len(export) /\ Len(export) \in Nat \ {0}
  /\ \A export \in Exports : \A i \in DOMAIN export : export[i] \in Sized
  /\ Envelope \in Nat /\ Separator \in Nat
  /\ MaxSpans \in Nat \ {0} /\ MaxBytes \in Nat /\ MaxRaw \in Nat /\ MaxBytes <= MaxRaw

VARIABLES
  spans,
  batches,     \* the requests, with the size counted for each
  outcome,     \* of each: waiting, sent, trimmed (sent so), failed or refused
  delivered    \* indices of the spans reported as delivered

requestVars == <<spans, batches, outcome, delivered>>

BatchesInit ==
  /\ spans \in Exports
  /\ batches = <<>> /\ outcome = <<>> /\ delivered = {}

(* The first i spans, each with a separator.                               *)
Bytes[i \in 0..Len(spans)] == IF i = 0 THEN 0 ELSE Bytes[i - 1] + spans[i].size + Separator

(* encodeRequest: a request as it is assembled. *)
RequestSize(from, to) == Envelope + (Bytes[to] - Bytes[from - 1]) - Separator

Carried(batch, span) == span.size + Separator     \* a mutant: the first of a request is separated too
Addition(batch, span) == span.size + IF batch.to >= batch.from THEN Separator ELSE 0

Full(batch, span) ==
  /\ batch.to >= batch.from
  /\ \/ batch.to - batch.from + 1 >= MaxSpans
     \/ batch.size + Addition(batch, span) > MaxBytes
Empty(i) == [from |-> i, to |-> i - 1, size |-> Envelope]
With(batch, span) == [batch EXCEPT !.to = @ + 1, !.size = @ + Addition(batch, span)]

(* buildRequestBatches: the batches that are closed, and the current one. *)
Add(packed, i) ==
  LET full == Full(packed.current, spans[i])
  IN  [closed |-> IF full THEN Append(packed.closed, packed.current) ELSE packed.closed,
       current |-> With(IF full THEN Empty(i) ELSE packed.current, spans[i])]
Packed[i \in 0..Len(spans)] ==
  IF i = 0 THEN [closed |-> <<>>, current |-> Empty(1)] ELSE Add(Packed[i - 1], i)

Build ==
  /\ batches = <<>>
  /\ LET packed == Packed[Len(spans)] IN batches' = Append(packed.closed, packed.current)
  /\ outcome' = [i \in DOMAIN batches' |-> "waiting"]
  /\ UNCHANGED <<spans, delivered>>

(* send: what goes on the wire. Compression can make a span fit that is    *)
(* alone; at worst it saves nothing on the others.                         *)
Alone(batch) == batch.to = batch.from
Wire(batch) == IF Alone(batch) THEN Envelope + spans[batch.from].wire ELSE batch.size
AsIs(batch) == batch.size <= MaxRaw /\ Wire(batch) <= MaxBytes
Trimmed(batch) ==      \* trimEncodedSpan
  LET span == spans[batch.from]
  IN  /\ Alone(batch) /\ span.trims
      /\ Envelope + span.trimmed <= MaxRaw /\ Envelope + span.trimmedWire <= MaxBytes
Goes(batch) == IF AsIs(batch) THEN "sent" ELSE IF Trimmed(batch) THEN "trimmed" ELSE "refused"

(* The spans of a request, trimmed or not, are reported once the server    *)
(* has accepted it (sendWithRetries, reportDelivered).                     *)
Send(i) ==
  /\ outcome[i] = "waiting"
  /\ \E result \in {Goes(batches[i])} \cup (IF Goes(batches[i]) = "refused" THEN {} ELSE {"failed"}) :
       /\ outcome' = [outcome EXCEPT ![i] = result]
       /\ delivered' = IF result \in {"sent", "trimmed"}
                        THEN delivered \cup batches[i].from..batches[i].to ELSE delivered
  /\ UNCHANGED <<spans, batches>>

BatchesNext == Build \/ \E i \in DOMAIN outcome : Send(i)
BatchesSpec == BatchesInit /\ [][BatchesNext]_requestVars

------------------------------------------------------------------------------
(* Every span is in one request, in the order it came, and no request is   *)
(* larger than allowed unless a single span is; the size that is counted   *)
(* up is that of the request, and one is closed only when the next span    *)
(* would not have fitted (buildRequestBatches). Nothing is given up but a  *)
(* span alone that is too large even trimmed (send).                       *)
BatchesExact ==
  /\ batches # <<>> => batches[1].from = 1 /\ batches[Len(batches)].to = Len(spans)
  /\ \A i \in DOMAIN batches :
       LET batch == batches[i] IN
       /\ i > 1 => batch.from = batches[i - 1].to + 1
       /\ batch.to >= batch.from /\ batch.to - batch.from < MaxSpans
       /\ batch.size = RequestSize(batch.from, batch.to)
       /\ batch.size <= MaxBytes \/ Alone(batch)
       /\ i < Len(batches) =>
            \/ batch.to - batch.from + 1 = MaxSpans
            \/ RequestSize(batch.from, batch.to + 1) > MaxBytes
       /\ outcome[i] = "refused" =>
            /\ Alone(batch)
            /\ spans[batch.from].trims =>
                 \/ Envelope + spans[batch.from].trimmed > MaxRaw
                 \/ Envelope + spans[batch.from].trimmedWire > MaxBytes
=============================================================================
