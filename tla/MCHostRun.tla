----------------------------- MODULE MCHostRun -----------------------------
(* Small instances of HostRun for TLC. *)
EXTENDS HostRun, TLC

CONSTANTS p, q

\* A plan this router makes: one remote reference in each of the layers it edits.
RouterPlans == {[n \in Layers |-> <<p>>]}
OneLayer == [n \in Layers |-> IF n = 1 THEN <<p>> ELSE <<>>]

\* A step with two remote references, which the protocol allows, before one with
\* one.
WidePlans == {[n \in Layers |-> IF n = 1 THEN <<p, q>> ELSE <<p>>], [n \in Layers |-> <<q>>]}
AllPlans == WidePlans \cup {OneLayer}

Strict == [strict |-> TRUE, leases |-> TRUE, soft |-> FALSE]
Default == [strict |-> FALSE, leases |-> TRUE, soft |-> FALSE]
Unleased == [strict |-> FALSE, leases |-> FALSE, soft |-> TRUE]
AllBudgets == {Strict, Default, Unleased}
DefaultBudgets == {Default}

\* Bound: a request has any plan, budget and mode while it is alone; two of them
\* are plain ones, which compete for the only lease of p.
Started == {r \in Runs : run[r].pc # "waiting"}
Plain(r) ==
    /\ run[r].budget \in {None, Default} /\ run[r].mode \in {None, "learned"}
    /\ run[r].plan \in {LocalPlan, OneLayer}
PlainIfTwo == Cardinality(Started) <= 1 \/ \A r \in Started : Plain(r)

=============================================================================
