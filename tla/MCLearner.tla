----------------------------- MODULE MCLearner -----------------------------
(* Model values and symmetry for the runs of Learner. *)
EXTENDS Learner, TLC

Symmetry == Permutations(RequestIds) \cup Permutations(Arms)
\* A policy that outlived its learner is mistaken whenever that is: it needs no time to
\* pass and no two reports at once.
OutlivedIsPlain == exporter = "restarted" => now = 0 /\ Cardinality(admitted) <= 1
=============================================================================
