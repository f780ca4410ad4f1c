----------------------------- MODULE MCRegistry -----------------------------
(* Small instances of Registry for TLC. *)
EXTENDS Registry, TLC

CONSTANTS a1, a2, b1

\* Two experts of one model and one of another.
ModelOfRefs == a1 :> "A" @@ a2 :> "A" @@ b1 :> "B"
=============================================================================
