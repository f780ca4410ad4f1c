------------------------------- MODULE MCFleet -------------------------------
(* A small instance of Fleet for TLC. *)
EXTENDS Fleet, TLC

CONSTANTS n1, pub1, a1

ModelOfRefs == [r \in Refs |-> "A"]
ExpertsOfHosts == n1 :> Refs
PrincipalOfHosts == n1 :> pub1
CertOfHosts == n1 :> Anonymous
\* A clock one behind: a call that is slow as well is refused.
ClockOfHosts == n1 :> -1
One == n1 :> 1
Zero == n1 :> 0

\* Bound: only a1 is ever registered by somebody else.
OthersWantA1 == \A r \in Registered \ {a1} : entries[r].owner = pub1

\* What TLC tells states apart by.  Nothing else of the registry's state bears on the
\* properties; nor do the routable flags, which no call here reads, or anything but the
\* owner of an entry that is not n1's; the histories of a run are over when its process
\* stops, when it last stopped matters while it is down, and a heartbeat older than the
\* time to live never excuses anything again.
Entered ==
    [r \in Refs |-> IF r \notin Registered THEN NoEntry
                    ELSE IF entries[r].owner = pub1 THEN [entries[r] EXCEPT !.routable = FALSE]
                    ELSE entries[r].owner]
Histories ==
    [h \in Hosts |-> IF process[h].at = "down" THEN stoppedAt[h] ELSE <<missed[h], h \in looped>>]
Vouched == [r \in Refs |-> IF now - spokenFor[r] <= HeartbeatTtl THEN spokenFor[r] ELSE Never]
Seen == <<now, Entered, process, stray, Histories, forgotten, Vouched>>
=============================================================================
