-------------------------------- MODULE Fleet --------------------------------
(***************************************************************************)
(* The expert nodes' processes (serve_node of cei/server/app.py) and the   *)
(* registry they publish to (Registry).                                    *)
(*                                                                         *)
(* A process waits for the registry, registers each of its experts, sends  *)
(* a first heartbeat, publishes its adapter, then sends a heartbeat and    *)
(* sleeps for ever.  A call may be lost, answered late, or reach its       *)
(* server although the caller is told it failed; it reaches its server     *)
(* within its deadline or never.  Threads take no time between calls.      *)
(* Processes stop at any point, without deregistering, and are started     *)
(* again; the registry restarts empty.  Other publishers, the operator and *)
(* readers use the registry meanwhile.  Nobody else acts under a node's    *)
(* principal, but a heartbeat may name any node: the registry does not     *)
(* compare its node_id with who sends it.  What an upload does to the      *)
(* adapter hub is AdapterHub's; here it takes time only.                   *)
(***************************************************************************)
EXTENDS Registry

CONSTANTS
    Hosts,           \* the node ids that have a process here
    ExpertsOf,       \* host -> the experts it registers
    PrincipalOf,     \* host -> the principal_id of its clients
    CertOf,          \* host -> the identity its certificate names, or Anonymous
    ClockOffset,     \* host -> how far its clock is ahead
    VersionOf,       \* host -> the version of its descriptors
    CapacityOf,      \* host -> the capacity_qps it offers and reports
    Interval,        \* the heartbeat loop's pause
    RpcTimeout,      \* CEI_RPC_TIMEOUT_S
    PublishTimeout,  \* the deadline of UpsertAdapter
    NoCall,          \* no call is under way
    NoRef,           \* a call that is about no expert
    Unsigned, HasSecret, RequireToken, TrustMeta, MaxSkew   \* as in Principals

VARIABLES
    process,     \* host -> what its process is doing
    stray,       \* host -> a call its last process had sent when it stopped, or NoCall
    missed,      \* history: host -> heartbeats that did not count since the last that did,
                 \* or Never if none did yet
    looped,      \* history: the hosts of whose process a heartbeat of the loop has counted
    stoppedAt,   \* history: host -> when its last process stopped, or Never
    forgotten,   \* history: the hosts whose process runs since before a registry restart
    spokenFor    \* history: ref -> when somebody else's heartbeat last refreshed it in the
                 \* name of the node that registers it, or Never

Security == INSTANCE Principals WITH Nobody <- Anonymous

history == <<missed, looped, stoppedAt, forgotten, spokenFor>>
fleetVars == <<vars, process, stray, history>>

Call == [op : {"register", "beat", "upload"}, ref : Refs \cup {NoRef}, sent : Time,
         outcome : {"sent", "accepted", "refused"}]
Process == [at : {"down", "waiting", "registering", "greeting", "publishing", "beating"},
            todo : SUBSET Refs, call : Call \cup {NoCall}, wake : Nat]

ASSUME FleetAssumption ==
    /\ Hosts \subseteq Nodes
    /\ ExpertsOf \in [Hosts -> SUBSET Refs]
    /\ \A h, g \in Hosts : h # g => ExpertsOf[h] \cap ExpertsOf[g] = {}
    /\ PrincipalOf \in [Hosts -> Principals] /\ CertOf \in [Hosts -> Callers]
    /\ ClockOffset \in [Hosts -> Int]
    /\ VersionOf \in [Hosts -> Versions] /\ CapacityOf \in [Hosts -> Caps]
    /\ {Interval, RpcTimeout, PublishTimeout, MaxSkew} \subseteq Nat
    /\ {HasSecret, RequireToken, TrustMeta} \subseteq BOOLEAN
    /\ NoCall \notin Call

Down == [at |-> "down", todo |-> {}, call |-> NoCall, wake |-> 0]

\* Who the holder of h's credentials is.
Identity(h) == IF CertOf[h] # Anonymous THEN CertOf[h] ELSE PrincipalOf[h]
Outsiders == Callers \ {Identity(h) : h \in Hosts}

-----------------------------------------------------------------------------
(* Calls of a process. *)

Calling(h) == process[h].call # NoCall
Deadline(call) == call.sent + (IF call.op = "upload" THEN PublishTimeout ELSE RpcTimeout)

\* What h does next: register one of the experts left; publish its adapter; send a
\* heartbeat, the first one at once and the others when the pause is over.
NextCall(h, op, ref) ==
    \/ process[h].at = "registering" /\ op = "register" /\ ref \in process[h].todo
    \/ process[h].at = "greeting" /\ op = "beat" /\ ref = NoRef
    \/ process[h].at = "publishing" /\ op = "upload" /\ ref = NoRef
    \/ process[h].at = "beating" /\ op = "beat" /\ ref = NoRef /\ process[h].wake <= now

Calls(h, op, ref) ==
    /\ ~Calling(h) /\ NextCall(h, op, ref)
    /\ process' = [process EXCEPT ![h].call =
                     [op |-> op, ref |-> ref, sent |-> now, outcome |-> "sent"]]
    /\ UNCHANGED <<vars, stray, history>>

\* The principal the servers resolve from the metadata h wrote when it sent the call.
CallerOf(h, call) ==
    Security!ResolvedPrincipal(CertOf[h],
        Security!NewMeta(PrincipalOf[h], call.sent + ClockOffset[h]), now)

\* The registry takes a call of h up.  A registration is forced and promoted; a
\* heartbeat names no experts.
ReachesRegistry(h, call) ==
    \/ /\ call.op = "register"
       /\ RegisterExpert(CallerOf(h, call), call.ref, VersionOf[h], CapacityOf[h], h,
                         TRUE, TRUE, TRUE)
    \/ /\ call.op = "beat"
       /\ Heartbeat(CallerOf(h, call), h, {}, CapacityOf[h])

Outcome == IF reply'.code = "OK" THEN "accepted" ELSE "refused"

CallArrives(h) ==
    /\ Calling(h) /\ process[h].call.outcome = "sent"
    /\ ReachesRegistry(h, process[h].call)
    /\ process' = [process EXCEPT ![h].call.outcome = Outcome]
    /\ missed' = IF process[h].call.op = "beat" /\ process'[h].call.outcome = "accepted"
                 THEN [missed EXCEPT ![h] = 0] ELSE missed
    /\ looped' = IF process[h].at = "beating" /\ process'[h].call.outcome = "accepted"
                 THEN looped \cup {h} ELSE looped
    /\ UNCHANGED <<stray, stoppedAt, forgotten, spokenFor>>

StrayArrives(h) ==
    /\ stray[h] # NoCall
    /\ ReachesRegistry(h, stray[h])
    /\ stray' = [stray EXCEPT ![h] = NoCall]
    /\ UNCHANGED <<process, history>>

-----------------------------------------------------------------------------
(* How a process goes on when its call is over. *)

AfterCall(p) == [p EXCEPT !.call = NoCall]

RegisteringOne(p) == [AfterCall(p) EXCEPT !.at = "greeting"]
Registering(p) ==
    [AfterCall(p) EXCEPT !.todo = @ \ {p.call.ref},
                         !.at = IF p.todo = {p.call.ref} THEN "greeting" ELSE @]
Greeted(p) == [AfterCall(p) EXCEPT !.at = "publishing"]
Published(p) == [AfterCall(p) EXCEPT !.at = "beating", !.wake = now]
Asleep(p) == [AfterCall(p) EXCEPT !.wake = now + Interval]

\* A heartbeat that did not count is one more missed.
Counted(h) ==
    IF process[h].call.op = "beat" /\ process[h].call.outcome # "accepted" /\ missed[h] # Never
    THEN [missed EXCEPT ![h] = @ + 1] ELSE missed

\* The answer comes in time.  RegistryClient.register raises if the registry refused;
\* the answer to a heartbeat is not looked at.
Answered(h) ==
    LET p == process[h]
    IN  /\ Calling(h) /\ p.call.outcome # "sent"
        /\ p.at = "registering" => p.call.outcome = "accepted"
        /\ process' = [process EXCEPT ![h] =
               CASE p.at = "registering" -> Registering(p)
                 [] p.at = "greeting"    -> Greeted(p)
                 [] p.at = "beating"     -> Asleep(p)]
        /\ missed' = Counted(h)
        /\ UNCHANGED <<vars, stray, looped, stoppedAt, forgotten, spokenFor>>

\* A heartbeat of the loop fails, whether or not it arrived, and the next one comes
\* after the pause.
Fails(h) ==
    /\ Calling(h) /\ process[h].at = "beating"
    /\ process' = [process EXCEPT ![h] = Asleep(@)]
    /\ missed' = Counted(h)
    /\ UNCHANGED <<vars, stray, looped, stoppedAt, forgotten, spokenFor>>

\* The upload is over: accepted, refused or failed, the process goes on.
UploadEnds(h) ==
    /\ Calling(h) /\ process[h].at = "publishing"
    /\ process' = [process EXCEPT ![h] = Published(@)]
    /\ UNCHANGED <<vars, stray, history>>

-----------------------------------------------------------------------------
(* Processes start and stop. *)

Starts(h) ==
    /\ process[h].at = "down"
    /\ process' = [process EXCEPT ![h].at = "waiting"]
    /\ missed' = [missed EXCEPT ![h] = Never]
    /\ looped' = looped \ {h}
    /\ UNCHANGED <<vars, stray, stoppedAt, forgotten, spokenFor>>

\* _wait_for_registry: a describe of no experts was answered.
FindsRegistry(h) ==
    /\ process[h].at = "waiting"
    /\ process' = [process EXCEPT ![h].at = IF ExpertsOf[h] = {} THEN "greeting" ELSE "registering",
                                  ![h].todo = ExpertsOf[h]]
    /\ forgotten' = forgotten \ {h}
    /\ UNCHANGED <<vars, stray, missed, looped, stoppedAt, spokenFor>>

\* The process crashes, is terminated, or ends with an exception: the registry was not
\* found, a registration was refused, or a call before the loop failed.  A call it had
\* sent may still arrive (bound: the last one only).
Stops(h) ==
    LET call == process[h].call
    IN  /\ process[h].at # "down"
        /\ process' = [process EXCEPT ![h] = Down]
        /\ stray' = IF Calling(h) /\ call.op # "upload" /\ call.outcome = "sent"
                    THEN [stray EXCEPT ![h] = call] ELSE stray
        /\ stoppedAt' = [stoppedAt EXCEPT ![h] = now]
        /\ UNCHANGED <<vars, missed, looped, forgotten, spokenFor>>

-----------------------------------------------------------------------------
(* Everything else. *)

OthersCallRegistry ==
    /\ PublisherCalls(Outsiders, Nodes \ Hosts) \/ OperatorCalls \/ ReaderCalls
    /\ UNCHANGED <<process, stray, history>>

\* Another publisher's heartbeat in the name of h's node.
OthersBeat(h) ==
    \E p \in Outsiders, named \in SUBSET Refs, cap \in Caps \cup {Unread} :
        /\ Heartbeat(p, h, named, cap)
        /\ spokenFor' = [r \in Refs |->
               IF reply'.code = "OK" /\ r \in ExpertsOf[h] /\ (named = {} \/ r \in named)
               THEN now ELSE spokenFor[r]]
        /\ UNCHANGED <<process, stray, missed, looped, stoppedAt, forgotten>>

RegistryRestarts ==
    /\ Restart
    /\ forgotten' = Hosts
    /\ UNCHANGED <<process, stray, missed, looped, stoppedAt, spokenFor>>

\* Time waits for threads that have something to do and for deadlines.
Idling(h) ==
    \/ Calling(h) /\ now < Deadline(process[h].call)
    \/ process[h].at \in {"down", "waiting"}
    \/ process[h].at = "beating" /\ ~Calling(h) /\ now < process[h].wake

TimePasses ==
    /\ \A h \in Hosts : Idling(h)
    /\ Tick
    /\ stray' = [h \in Hosts |->
           IF stray[h] # NoCall /\ now < Deadline(stray[h]) THEN stray[h] ELSE NoCall]
    /\ UNCHANGED <<process, history>>

FleetInit ==
    /\ Init
    /\ process = [h \in Hosts |-> Down]
    /\ stray = [h \in Hosts |-> NoCall]
    /\ missed = [h \in Hosts |-> Never]
    /\ looped = {}
    /\ stoppedAt = [h \in Hosts |-> Never]
    /\ forgotten = {}
    /\ spokenFor = [r \in Refs |-> Never]

FleetNext ==
    \/ \E h \in Hosts :
           \/ \E op \in {"register", "beat", "upload"}, ref \in Refs \cup {NoRef} : Calls(h, op, ref)
           \/ CallArrives(h) \/ StrayArrives(h) \/ Answered(h) \/ Fails(h) \/ UploadEnds(h)
           \/ Starts(h) \/ FindsRegistry(h) \/ Stops(h) \/ OthersBeat(h)
    \/ OthersCallRegistry
    \/ RegistryRestarts
    \/ TimePasses

FleetSpec == FleetInit /\ [][FleetNext]_fleetVars

-----------------------------------------------------------------------------
(* Properties. *)

\* Types of the variables; a process has experts left to register exactly while it
\* registers them.
FleetTypeOK ==
    /\ process \in [Hosts -> Process]
    /\ \A h \in Hosts : process[h].at = "registering" <=> process[h].todo # {}
    /\ stray \in [Hosts -> Call \cup {NoCall}]
    /\ missed \in [Hosts -> Nat \cup {Never}]
    /\ stoppedAt \in [Hosts -> Time \cup {Never}]
    /\ looped \in SUBSET Hosts /\ forgotten \in SUBSET Hosts
    /\ spokenFor \in [Refs -> Time \cup {Never}]

Listed(h, r) ==
    /\ r \in Registered
    /\ entries[r].owner = Identity(h) /\ entries[r].node = h /\ entries[r].promoted

\* A process that has come through its start-up has every expert of its node in the
\* registry, its own and promoted, whatever others register, remove or claim and
\* whatever its failed predecessors left behind, unless the registry has restarted
\* since: then nothing brings them back but another start.
UpMeansListed ==
    EnforceOwnership =>
        \A h \in Hosts \ forgotten :
            process[h].at \in {"greeting", "publishing", "beating"}
            => \A r \in ExpertsOf[h] : Listed(h, r)

\* The longest a process waits between two heartbeats, not counting the calls: the loop
\* pauses, and before its first heartbeat the process publishes its adapter.
Pause(h) == IF h \in looped THEN Interval ELSE PublishTimeout

\* Once a heartbeat of the loop has counted, the registry's last word of a running
\* process is at most a pause and two call deadlines old, and another pause and deadline
\* for each heartbeat that failed since; until then the upload takes the place of the
\* pause.  With the defaults (pause 5 s, calls 10 s, upload 10 s, time to live 15 s)
\* that is 25 s, and 30 s before the first heartbeat of the loop (the greeting sent at 0
\* and answered at 10, the upload over at 20, the heartbeat taken up at 30): slow
\* answers alone, none of them an error, can make live experts non-routable.
BeatAgeBound ==
    EnforceOwnership =>
        \A h \in Hosts \ forgotten :
            process[h].at = "beating" /\ missed[h] # Never
            => \A r \in ExpertsOf[h] :
                   now - entries[r].beat <=
                       Pause(h) + 2 * RpcTimeout + missed[h] * (Interval + RpcTimeout)

\* Processes stop without a word; an expert of one that has is fresh at most the time
\* to live longer, and the deadline of a call it left under way, unless another
\* publisher has vouched for it within the time to live: registry_servicer.py:58-71
\* takes a heartbeat for any node from any publisher.
ZombieBound ==
    \A h \in Hosts : \A r \in ExpertsOf[h] \cap Registered :
        /\ process[h].at = "down"
        /\ entries[r].owner = Identity(h)
        /\ Fresh(entries[r])
        => \/ now - stoppedAt[h] <= HeartbeatTtl + RpcTimeout
           \/ spokenFor[r] # Never /\ now - spokenFor[r] <= HeartbeatTtl

=============================================================================
