------------------------------ MODULE MCRouter ------------------------------
(* Instances of Router for TLC. *)
EXTENDS Router, TLC

MCLayerOf == [e \in Refs |-> 1]

\* A cap of one remote expert, both caps left unset, and one that latency may exceed.
MCBudgets ==
    {[remotes |-> 1, latency |-> 2, soft |-> FALSE],
     [remotes |-> 0, latency |-> 0, soft |-> FALSE],
     [remotes |-> 2, latency |-> 1, soft |-> TRUE]}

AnyLayers == SUBSET Layers
AllLayers == {Layers}

Interchangeable == Permutations(Requests) \cup Permutations(Refs)
=============================================================================
