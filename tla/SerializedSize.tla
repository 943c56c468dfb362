---------------------------- MODULE SerializedSize ----------------------------
(***************************************************************************)
(* The cheap test whether a captured value is too large to be carried      *)
(* (serialized_size.go, safety.go capValueReport): a walk adds up the      *)
(* least every part can take in JSON and stops as soon as that exceeds the *)
(* budget. It may count too little, and the value is then encoded and      *)
(* measured, but never too much, and it must end on a cycle.               *)
(*                                                                         *)
(* A value is a record with its kind: nil, bool, number, string, bytes,    *)
(* list, map, struct, func for one that JSON has no form for, and ref for  *)
(* what a pointer, slice or map leads to, by its address.                  *)
(***************************************************************************)
EXTENDS Integers, Sequences, SequencesExt

CONSTANTS
  Values,           \* values that are captured
  Heap,             \* what is at each address
  Budget,           \* MaxSerializedValueBytes
  CycleCheckAfter   \* cycleCheckAfterLevels

VARIABLES
  value,
  captured,    \* no, or what the span gets: value, stub, or left for the sanitizer
  encoded,     \* the value was encoded to be measured
  failed       \* the size could not be determined (sizeUnknown)

sizeVars == <<value, captured, encoded, failed>>

Init ==
  /\ value \in Values
  /\ captured = "no" /\ encoded = FALSE /\ failed = FALSE

Base64(n) == 4 * ((n + 2) \div 3) + 2
IsEmpty(v) ==
  \/ v.kind = "nil"
  \/ v.kind \in {"string", "bytes", "number"} /\ v.len = 0
  \/ v.kind \in {"list", "map"} /\ v.items = <<>>
Omitted(field) == field.omitempty /\ IsEmpty(field.v)

------------------------------------------------------------------------------
(* What encoding/json makes of a value, none for a cycle or a func. A      *)
(* string takes more for what is escaped, and a field whose name occurs    *)
(* twice is written or not.                                                *)
RECURSIVE Encodable(_, _)
Encodable(v, path) ==
  CASE v.kind = "ref" -> v.at \notin path /\ Encodable(Heap[v.at], path \cup {v.at})
    [] v.kind = "func" -> FALSE
    [] v.kind = "list" -> \A i \in DOMAIN v.items : Encodable(v.items[i], path)
    [] v.kind \in {"map", "struct"} -> \A i \in DOMAIN v.items : Encodable(v.items[i].v, path)
    [] OTHER -> TRUE

Commas(n) == IF n = 0 THEN 0 ELSE n - 1

RECURSIVE Length(_)
Length(v) ==
  LET sum(lengths) == FoldLeft(+, 2 + Commas(Len(lengths)), lengths) IN
  CASE v.kind = "ref" -> Length(Heap[v.at])
    [] v.kind = "nil" -> 4
    [] v.kind = "bool" -> v.len
    [] v.kind = "number" -> v.digits
    [] v.kind = "string" -> v.len + 2 + v.escapes
    [] v.kind = "bytes" -> Base64(v.len)
    [] v.kind = "list" -> sum([i \in DOMAIN v.items |-> Length(v.items[i])])
    [] v.kind = "map" -> sum([i \in DOMAIN v.items |-> v.items[i].key + 3 + Length(v.items[i].v)])
    [] v.kind = "struct" ->
         LET written == SelectSeq(v.items, LAMBDA f : ~Omitted(f) /\ (f.unseen => f.written))
         IN  sum([i \in DOMAIN written |-> written[i].name + 3 + Length(written[i].v)])

------------------------------------------------------------------------------
(* serializedSizeWalk: a walk has counted total, and at a level of more    *)
(* than CycleCheckAfter it remembers the addresses it is below (enter).    *)
Walk == [total |-> 0, level |-> 0, ancestors |-> {}]
Enter(w, at) ==
  [w EXCEPT !.level = @ + 1,
            !.ancestors = IF w.level + 1 > CycleCheckAfter THEN @ \cup {at} ELSE @]
Cyclic(w, at) == w.level + 1 > CycleCheckAfter /\ at \in w.ancestors

SeparatedAll(n) == n         \* a mutant: a comma after every element of a map or struct
Separators(n) == Commas(n)

Counted(w, n) == [w EXCEPT !.total = @ + n]
Stops(w) == w.total > Budget

KeyBytes(item) == item.key + 2        \* mapKeyBytes, of a string
SizedFields(v) == SelectSeq(v.items, LAMBDA f : ~f.unseen)

RECURSIVE Size(_, _)
Size(w, v) ==
  LET each(start, items, size(_, _)) ==     \* until the budget is exceeded
        FoldLeft(LAMBDA x, item : IF Stops(x) THEN x ELSE [w EXCEPT !.total = size(x, item)],
                 start, items).total
  IN
  CASE v.kind = "ref" -> IF Stops(w) \/ Cyclic(w, v.at) THEN w.total ELSE Size(Enter(w, v.at), Heap[v.at])
    [] v.kind \in {"nil", "bool"} -> w.total + 4
    [] v.kind = "number" -> w.total + 1
    [] v.kind = "string" -> w.total + v.len + 2
    [] v.kind = "bytes" -> w.total + Base64(v.len)
    [] v.kind = "func" -> w.total
    [] v.kind = "list" ->
         IF v.items = <<>> THEN w.total + 2
         ELSE each(Counted(w, 1 + Len(v.items)), v.items, Size)
    [] v.kind = "map" ->
         each(Counted(w, 2 + Separators(Len(v.items))), v.items,
              LAMBDA x, item : Size(Counted(x, KeyBytes(item) + 1), item.v))
    [] v.kind = "struct" ->
         LET emitted == SelectSeq(SizedFields(v), LAMBDA f : ~Omitted(f))
         IN  each(Counted(w, 2 + Separators(Len(emitted))), emitted,
                  LAMBDA x, f : Size(Counted(x, f.name + 3), f.v))

(* exceedsSerializedBudget: a panic of the walk leaves it to the encoder. *)
Exceeds(v) == Size(Walk, v) > Budget

(* capValueReport. *)
Capture(fails) ==
  /\ captured = "no"
  /\ failed' = fails
  /\ IF value.kind # "nil" /\ ~fails /\ Exceeds(value)
     THEN captured' = "stub" /\ encoded' = FALSE
     ELSE /\ encoded' = (value.kind # "nil")
          /\ captured' = IF ~Encodable(value, {}) THEN "left"
                         ELSE IF Length(value) > Budget THEN "stub" ELSE "value"
  /\ UNCHANGED value

Next == \E fails \in BOOLEAN : Capture(fails)
Spec == Init /\ [][Next]_sizeVars

------------------------------------------------------------------------------
(* A part that takes more in JSON than the walk can tell. *)
RECURSIVE Undercounted(_)
Undercounted(v) ==
  CASE v.kind = "ref" -> Undercounted(Heap[v.at])
    [] v.kind = "number" -> v.digits > 1
    [] v.kind = "bool" -> v.len > 4
    [] v.kind = "string" -> v.escapes > 0
    [] v.kind = "list" -> \E i \in DOMAIN v.items : Undercounted(v.items[i])
    [] v.kind = "map" -> \E i \in DOMAIN v.items : Undercounted(v.items[i].v)
    [] v.kind = "struct" -> \E i \in DOMAIN v.items : v.items[i].unseen \/ Undercounted(v.items[i].v)
    [] OTHER -> FALSE

(* No value that fits is ever replaced, none that does not is kept, and a  *)
(* large one of which every part can be told is not even encoded; a value  *)
(* without JSON form, a cycle above all, ends with one or the other        *)
(* (capValueReport).                                                       *)
CapExact ==
  captured # "no" =>
    IF Encodable(value, {})
    THEN /\ captured = IF Length(value) > Budget THEN "stub" ELSE "value"
         /\ encoded /\ ~failed /\ captured = "stub" => Undercounted(value)
    ELSE captured \in {"stub", "left"}
=============================================================================
