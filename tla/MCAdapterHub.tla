---------------------------- MODULE MCAdapterHub ----------------------------
(* A small instance of AdapterHub for TLC. *)
EXTENDS AdapterHub, TLC

CONSTANTS c1, c2, d1, d2

DigestOfContents == c1 :> d1 @@ c2 :> d2
Symmetry == Permutations(Workers) \cup Permutations(Ids)

=============================================================================
