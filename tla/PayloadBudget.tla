---------------------------- MODULE PayloadBudget ----------------------------
(***************************************************************************)
(* What becomes of a payload that is too large (serialize.go,              *)
(* payload_budget.go): a value that cannot be encoded is replaced by a     *)
(* stub, and the largest fields of user data are, until the payload fits   *)
(* the span attribute it travels in. Submitting does it with one limit,    *)
(* and the exporter once more with a lower one for a span that does not    *)
(* fit a request alone (otel.go).                                          *)
(***************************************************************************)
EXTENDS Integers, Sequences, FiniteSets

CONSTANTS
  Payloads,    \* fields: a value for each <<record, key>>, keys being numbers in their order
  Structural,  \* structuralSpanKeys
  High, Low,   \* maxCompressibleSpanCarrierBytes, MaxSpanCarrierBytes
  Stub,        \* the placeholder of a field
  Note         \* an entry of errors

(* A value by the length of its encoding, how much of that is quotes and   *)
(* backslashes, and its kind; stray holds a value that cannot be encoded,  *)
(* refused cannot be encoded as it is although all it holds can (a map     *)
(* with keys of another kind), null is never trimmed.                      *)
Kinds == {"plain", "stray", "refused", "null", "stub"}
Unencodable == {"stray", "refused"}
Value == {v \in [size : Nat, quotes : Nat, kind : Kinds] : v.quotes <= v.size}
Errors == <<"top", 0>>       \* the field the SDK's entries are in
Names == ({"top", "data", "raw"} \X Nat) \ {Errors}
FieldsOk(fs) ==
  /\ DOMAIN fs \subseteq Names /\ IsFiniteSet(DOMAIN fs)
  /\ fs \in [DOMAIN fs -> Value]

ASSUME PayloadAssumption ==
  /\ \A fs \in Payloads : FieldsOk(fs) /\ \A f \in DOMAIN fs : fs[f].kind # "stub"
  /\ High \in Nat /\ Low \in Nat
  /\ Stub \in Value /\ Stub.kind = "stub" /\ Note \in Value

VARIABLES
  fields, errors,     \* the payload: what the caller captured, and the entries about it
  before,             \* it as the limit was applied to it
  trimmed,            \* the fields stubbed for it
  lossy,              \* a value, or a part of one, was captured as a placeholder
  phase               \* captured, submitted or sending

payloadVars == <<fields, errors, before, trimmed, lossy, phase>>

PayloadInit ==
  /\ fields \in Payloads
  /\ errors = <<>> /\ before = [fields |-> fields, errors |-> <<>>]
  /\ trimmed = {}
  /\ lossy = (\E f \in DOMAIN fields : fields[f].kind = "stray")
  /\ phase = "captured"

(* The encoded body, a byte of a field by its place, and the attribute it  *)
(* becomes: each quote and backslash takes one byte more                   *)
(* (carrierByteLength).                                                    *)
FieldBytes(fs) == UNION {{f} \X (1..fs[f].size) : f \in DOMAIN fs}
FieldQuotes(fs) == UNION {{f} \X (1..fs[f].quotes) : f \in DOMAIN fs}
Entries(list) == IF list = <<"stub">> THEN Stub
                 ELSE [size |-> Note.size * Len(list), quotes |-> Note.quotes * Len(list), kind |-> "plain"]
Length(p) == Cardinality(FieldBytes(p.fields)) + Entries(p.errors).size
Carrier(p) == Length(p) + Cardinality(FieldQuotes(p.fields)) + Entries(p.errors).quotes + 2

(* fitsCarrierBudgetWithLimit: measured only if the length does not tell. *)
Fits(p, max) ==
  \/ Length(p) * 2 + 2 <= max
  \/ /\ Length(p) + 2 <= max
     /\ Carrier(p) <= max

(* collectTrimCandidates: the fields of the records of span data, or of    *)
(* the payload itself if there is none; largest first.                     *)
Records(p) ==
  LET data == {"data", "raw"} \cap {f[1] : f \in DOMAIN p.fields}
  IN  IF data = {} THEN {"top"} ELSE data
Field(p, f) == IF f = Errors THEN Entries(p.errors) ELSE p.fields[f]
Trimmable(p) ==
  {f \in DOMAIN p.fields \cup (IF p.errors = <<>> THEN {} ELSE {Errors}) :
     f[1] \in Records(p) /\ f[2] \notin Structural /\ Field(p, f).kind \in {"plain", "stub"}}
BySmallest(p, f, g) == Field(p, f).size < Field(p, g).size       \* a mutant: the smallest go first
Before(p, f, g) ==
  \/ Field(p, f).size > Field(p, g).size
  \/ /\ Field(p, f).size = Field(p, g).size
     /\ f[2] < g[2] \/ (f[2] = g[2] /\ f[1] = "data" /\ g[1] = "raw")

(* trimPayloadToBudgetWithLimit: stub them one by one until the rest fits, *)
(* or give the payload back as it is.                                      *)
Stubbed(p, stubs) ==
  [fields |-> [f \in DOMAIN p.fields |-> IF f \in stubs THEN Stub ELSE p.fields[f]],
   errors |-> IF Errors \in stubs THEN <<"stub">> ELSE p.errors]
Through(p, f) == {g \in Trimmable(p) : g = f \/ Before(p, g, f)}
Enough(p, max) == {f \in Trimmable(p) : Fits(Stubbed(p, Through(p, f)), max)}

Existing(list) == IF list = <<"stub">> THEN <<>> ELSE list

(* enforcePayloadBudgetWithLimit with markPayloadTrimmed: the entry comes  *)
(* on top of what has been made to fit.                                    *)
Enforce(p, max) ==
  /\ before' = p
  /\ IF Fits(p, max) \/ Enough(p, max) = {}
     THEN trimmed' = {} /\ fields' = p.fields /\ errors' = p.errors
     ELSE LET last == CHOOSE f \in Enough(p, max) : \A g \in Enough(p, max) : ~Before(p, g, f)
              q == Stubbed(p, Through(p, last))
          IN  /\ trimmed' = Through(p, last)
              /\ fields' = q.fields
              /\ errors' = Append(Existing(q.errors), "budget")

(* finalizeSpanPayload: what cannot be encoded is rebuilt, leaf by leaf    *)
(* (sanitizeValue); only if that stubbed a leaf, or a value was stubbed    *)
(* before, is there an entry that says so.                                 *)
Sanitized(v) == IF v.kind \in Unencodable THEN [v EXCEPT !.kind = "plain"] ELSE v
DroppedAlways(p, lost) == TRUE       \* a mutant: what was only rebuilt is called a loss
Dropped(p, lost) == lost \/ \E f \in DOMAIN p.fields : p.fields[f].kind = "stray"
Finalized(p, lost) ==
  [fields |-> [f \in DOMAIN p.fields |-> Sanitized(p.fields[f])],
   errors |-> IF Dropped(p, lost) THEN Append(p.errors, "degraded") ELSE p.errors]

(* marshalSpanBodyWithLimit: encoded as it is if nothing was stubbed       *)
(* before and the encoder takes it.                                        *)
Encodable(p, lost) == ~lost /\ \A f \in DOMAIN p.fields : p.fields[f].kind \notin Unencodable

(* httpClient.submit with marshalSpanBodyWithLimit: an input or output may *)
(* have been stubbed when it was captured (capValueReport).                *)
Submit ==
  /\ phase = "captured" /\ phase' = "submitted"
  /\ \E lost \in BOOLEAN :
       LET p == [fields |-> fields, errors |-> errors]
       IN  /\ lossy' = (lossy \/ lost)
           /\ Enforce(IF Encodable(p, lost) THEN p ELSE Finalized(p, lost), High)

(* trimEncodedSpan: the span alone exceeds a request. *)
Retrim ==
  /\ phase = "submitted" /\ phase' = "sending"
  /\ Enforce([fields |-> fields, errors |-> errors], Low)
  /\ UNCHANGED lossy

PayloadNext == Submit \/ Retrim
PayloadSpec == PayloadInit /\ [][PayloadNext]_payloadVars

------------------------------------------------------------------------------
Limit == IF phase = "submitted" THEN High ELSE Low
Shipped == [fields |-> fields, errors |-> errors]
Told(entry) == \E i \in DOMAIN errors : errors[i] = entry

(* A payload is trimmed only if it does not fit, and fits then but for the *)
(* entry that says so; no field is stubbed that need not be, a large field *)
(* goes before a smaller one, and what names the span stays; one that      *)
(* cannot be made to fit is not emptied in vain                            *)
(* (enforcePayloadBudgetWithLimit).                                        *)
TrimsLeast ==
  phase # "captured" =>
    /\ trimmed = {} =>
         /\ Shipped = before
         /\ Carrier(before) <= Limit \/ Carrier(Stubbed(before, Trimmable(before))) > Limit
    /\ trimmed # {} =>
         /\ Carrier(before) > Limit
         /\ Carrier(Shipped) - (Note.size + Note.quotes) <= Limit
         /\ \E last \in trimmed :
              /\ \A f \in trimmed : Field(before, f).size >= Field(before, last).size
              /\ Carrier(Stubbed(before, trimmed \ {last})) > Limit
         /\ \A f \in trimmed, g \in Trimmable(before) \ trimmed : Field(before, f).size >= Field(before, g).size
         /\ \A f \in DOMAIN fields : f \notin trimmed \/ f[2] \in Structural => fields[f] = before.fields[f]

(* A payload with a placeholder says so in its errors: trimmed now or      *)
(* before, or captured with one, which a span never forgets; the entry of  *)
(* a payload without span data may give way to that of a trim. And one     *)
(* that has none, whose values were at most rebuilt, is not called         *)
(* degraded, which would keep it from being replayed (finalizeSpanPayload, *)
(* markPayloadTrimmed).                                                    *)
LossTold ==
  phase # "captured" =>
    /\ (\E f \in DOMAIN fields : fields[f].kind = "stub") => Told("budget")
    /\ lossy => Told("degraded") \/ (Records(Shipped) = {"top"} /\ Told("budget"))
    /\ Told("degraded") => lossy

(* No more is lost than must be, and no loss is hidden (marshalSpanBody,   *)
(* trimEncodedSpan).                                                       *)
TrimExact == TrimsLeast /\ LossTold
=============================================================================
