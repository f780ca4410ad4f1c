------------------------------ MODULE LeaseTable ------------------------------
(***************************************************************************)
(* The leases that one caller holds at a node, as the caller sees them: a  *)
(* lease is granted when there is room, serves forwards while it is there, *)
(* and is gone when given back.  A node may refuse a lease or a forward    *)
(* for reasons of its own (access, load, other callers' leases), and may   *)
(* lose any lease at any time, which is the caller's to model.             *)
(*                                                                         *)
(* HostRun takes its peers to be this; ExpertNode is shown to be it for    *)
(* each of its callers.                                                    *)
(***************************************************************************)
EXTENDS Integers, FiniteSets

CONSTANT MaxLeases   \* max_active_leases of a node

\* What a node may answer to a request about lease l; leased: does a forward
\* name a lease?
TableAnswers(op, l, leased, table) ==
    CASE op = "Lease"   -> {"refused"} \cup (IF Cardinality(table) < MaxLeases THEN {"ok"} ELSE {})
      [] op = "Forward" -> {"refused"} \cup (IF leased => l \in table THEN {"ok"} ELSE {})
      [] op = "Release" -> {"ok"}

\* The table once the request is answered.
TableAfter(op, l, answer, table) ==
    CASE op = "Lease"   -> IF answer = "ok" THEN table \cup {l} ELSE table
      [] op = "Forward" -> table
      [] op = "Release" -> table \ {l}

=============================================================================
