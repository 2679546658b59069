------------------------------ MODULE MCMiniDb ------------------------------
(* Two keys: one is set and deleted, both are set by a batch. *)
EXTENDS MiniDb, TLC

CONSTANTS a, b

TwoKeys == {a, b}
SetDelBatch == {a :> TRUE, a :> FALSE, (a :> TRUE) @@ (b :> TRUE)}
Sets == {a :> TRUE, b :> TRUE}
=============================================================================
