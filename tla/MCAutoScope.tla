----------------------------- MODULE MCAutoScope -----------------------------
(* The spans alone: two from Start and a callback on one goroutine. *)
EXTENDS AutoScope, TLC
CONSTANTS a, b, s, t
MCKind == a :> "start" @@ b :> "start" @@ s :> "span" @@ t :> "trace"
=============================================================================
