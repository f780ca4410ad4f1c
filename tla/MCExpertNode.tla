---------------------------- MODULE MCExpertNode ----------------------------
(* Small instances of ExpertNode for TLC. *)
EXTENDS ExpertNode, TLC

CONSTANTS e1, e2

\* Two charges overload e1 (12 > 10), and four e2 (24 > 20).
CapacityOfExperts == e1 :> 1 @@ e2 :> 2

AskedQps == {-1, 2}
\* Negative, absent (DefaultTtl) and over MaxTtl.
AskedTtls == {-1, 0, 2}

Symmetry == Permutations(LeaseIds)

\* What TLC tells states apart by: the last answer decides nothing that follows.
Remembered == <<now, leases, seen, load, grants, charges>>
=============================================================================
