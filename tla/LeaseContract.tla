---------------------------- MODULE LeaseContract ----------------------------
(***************************************************************************)
(* What an expert node promises about capacity leases, without saying how  *)
(* it keeps them (SPEC.md 5.2, docs/protocol.md 5.1-5.3): a lease is       *)
(* granted once, to one principal for one expert with one deadline; only   *)
(* its grantee, its deadline or a crash of the node takes it away; and a   *)
(* forward that presents a lease is served only while that lease lives.    *)
(*                                                                         *)
(* ExpertNode is shown to implement this specification.                    *)
(***************************************************************************)
EXTENDS Integers

CONSTANTS
    Principals,   \* callers that can be granted a lease
    Experts,      \* experts the node serves
    LeaseIds,     \* lease ids the node may draw (uuid4)
    Deadlines,    \* the instants a lease may end at
    NoGrant,      \* "this id was never granted"
    NoEvent       \* "the last step answered no forward and no release"

VARIABLES
    clock,        \* the node's clock
    grants,       \* lease id -> the lease as it was granted, or NoGrant
    live,         \* the leases that may still be used
    event         \* the forward or release the last step answered, or NoEvent

cvars == <<clock, grants, live, event>>

\* Overdue leases may be dropped by any step, and serve no forward.
Overdue == {l \in live : grants[l].deadline < clock}

Init ==
    /\ clock = 0
    /\ grants = [l \in LeaseIds |-> NoGrant]
    /\ live = {}
    /\ event = NoEvent

\* An unused id is granted to p for e; overdue leases may go in the same step.
Grant(l, p, e, deadline) ==
    /\ event' = NoEvent
    /\ grants[l] = NoGrant
    /\ deadline > clock
    /\ grants' = [grants EXCEPT ![l] = [principal |-> p, expert |-> e, deadline |-> deadline]]
    /\ \E gone \in SUBSET Overdue : live' = (live \ gone) \cup {l}
    /\ UNCHANGED clock

Expire ==
    /\ event' = NoEvent
    /\ \E gone \in SUBSET Overdue : live' = live \ gone
    /\ UNCHANGED <<clock, grants>>

\* A lease that is live is given back by its grantee only; giving back a lease
\* that is not live does nothing.
GiveBack(l, p) ==
    /\ event' = [op |-> "Release", lease |-> l, principal |-> p]
    /\ l \in live => grants[l].principal = p
    /\ live' = live \ {l}
    /\ UNCHANGED <<clock, grants>>

\* A forward to e by p under lease l.
Serve(l, p, e) ==
    /\ event' = [op |-> "Forward", lease |-> l, principal |-> p, expert |-> e]
    /\ l \in live \ Overdue
    /\ grants[l].principal = p
    /\ grants[l].expert = e
    /\ UNCHANGED <<clock, grants, live>>

\* The table is only in memory: a crash loses every lease.
Crash ==
    /\ event' = NoEvent
    /\ live' = {}
    /\ UNCHANGED <<clock, grants>>

Advance ==
    /\ event' = NoEvent
    /\ clock' = clock + 1
    /\ UNCHANGED <<grants, live>>

Next ==
    \/ Expire
    \/ Crash
    \/ Advance
    \/ \E l \in LeaseIds, p \in Principals :
           \/ GiveBack(l, p)
           \/ \E e \in Experts : Serve(l, p, e) \/ \E d \in Deadlines : Grant(l, p, e, d)

Spec == Init /\ [][Next]_cvars

=============================================================================
