------------------------------- MODULE HostRun -------------------------------
(***************************************************************************)
(* RunStep requests served by one host (HostServicer.RunStep in            *)
(* cei/server/node_servicer.py, MoEHost.forward_distributed in             *)
(* cei/host.py), each by a thread of its own: ask the router for a plan,   *)
(* run the layers in order, borrowing the experts of peer nodes under a    *)
(* lease where the plan says so and computing the layer locally when       *)
(* anything fails, report to the learner.                                  *)
(*                                                                         *)
(* A peer is what ExpertNode shows a node to be for each of its callers    *)
(* (LeaseTable), and may lose a lease at any time.  The network delays and *)
(* loses messages; a call fails at its deadline or before; a peer may      *)
(* handle a request whose caller has given up.                             *)
(*                                                                         *)
(* There is no clock.  A call may take CEI_RPC_TIMEOUT_S (10 s), longer    *)
(* than the time to live of a plan or a lease (5 s each), so each of these *)
(* can pass during any call: they are steps that may happen at any moment. *)
(* Local experts touch nothing that is shared; a step keeps its remote     *)
(* references only.                                                        *)
(***************************************************************************)
EXTENDS LeaseTable, Sequences

CONSTANTS
    Runs,         \* RunStep requests
    Peers,        \* peer models, each served by one node
    NumLayers,    \* num_layers
    Plans,        \* plans the router may answer: layer -> its remote references, in order
    Budgets,      \* budgets a request may carry
    Modes,        \* modes a request may carry
    SlowPeers,    \* peers whose reported latency is over max_remote_latency_ms
    None

Layers == 1..NumLayers
LocalPlan == [n \in Layers |-> <<>>]
Positions == 1..2   \* bound: remote references in one step

ASSUME ConstantsAssumption ==
    /\ NumLayers \in Nat /\ MaxLeases \in Nat
    /\ Plans \subseteq [Layers -> UNION {[1..n -> Peers] : n \in 0..2}]
    /\ Budgets \subseteq [strict : BOOLEAN, leases : BOOLEAN, soft : BOOLEAN]
    /\ Modes \subseteq {"learned", "heuristic", "local"}
    /\ SlowPeers \subseteq Peers
    /\ None \notin Budgets
    /\ None \notin {"learned", "ok", "refused", "UNAVAILABLE", "DEADLINE_EXCEEDED", "REFUSED"}

VARIABLES
    run,          \* per request, the state of its thread
    live,         \* per peer, the calls whose lease is in its table
    connected,    \* _peers: the peers with a channel, shared by the threads
    sent,         \* requests on their way to a peer
    unanswered    \* history: the calls whose lease or release went without an answer

vars == <<run, live, connected, sent, unanswered>>

\* One use of one remote expert.  It makes each of its RPCs at most once, and
\* the lease it acquires is named after it.
Call == [run : Runs, layer : Layers, pos : Positions]
Request == [op : {"Lease", "Forward", "Release"}, call : Call, leased : BOOLEAN]
Reason == {"PLAN_EXPIRED", "UNAVAILABLE", "DEADLINE_EXCEEDED", "REFUSED"}
Awaiting == {"leasing", "forwarding", "releasing"}

Thread == [
    pc        : {"waiting", "proposing", "layer", "step", "reporting", "done"} \cup Awaiting,
    budget    : Budgets \cup {None},
    mode      : Modes \cup {None},
    plan      : Plans \cup {LocalPlan},
    fresh     : BOOLEAN,                     \* ~plan.expired(now)
    layer     : 1..(NumLayers + 1),
    pos       : 1..3,
    localOnly : BOOLEAN,                     \* abort_remote
    y         : SUBSET Call,                 \* remote results in this step's sum
    hidden    : SUBSET Call,                 \* remote results in the hidden state
    answer    : {None, "ok", "refused"},     \* to the call being awaited
    failure   : Reason \cup {None},          \* what failed this step, while its lease is released
    fallbacks : SUBSET [layer : Layers, reason : Reason],
    status    : {None, "OK", "PERMISSION_DENIED", "NO_ROUTER", "NO_LEARNER"}]

-----------------------------------------------------------------------------
Peer(c) == run[c.run].plan[c.layer][c.pos]
ThisCall(r) == [run |-> r, layer |-> run[r].layer, pos |-> run[r].pos]
Awaits(r) == run[r].pc \in Awaiting
AwaitedOp(r) ==
    CASE run[r].pc = "leasing"    -> "Lease"
      [] run[r].pc = "forwarding" -> "Forward"
      [] run[r].pc = "releasing"  -> "Release"
HasLayersButTheLast(r) == run[r].layer < NumLayers
HasLayers(r) == run[r].layer <= NumLayers

\* Hand a request of r to the network; its answer is yet to come.
Send(r, op) ==
    sent' = sent \cup {[op |-> op, call |-> ThisCall(r), leased |-> run[r].budget.leases]}

\* The layer ends with what the locals compute: the step's partial sum is
\* dropped, and strict budgets end the borrowing.
LeftToLocals(t, reason) ==
    [t EXCEPT !.pc = "layer", !.layer = @ + 1, !.y = {}, !.answer = None, !.failure = None,
              !.fallbacks = @ \cup {[layer |-> t.layer, reason |-> reason]}]
FallenBackKeepingSum(t, reason) ==
    [LeftToLocals(t, reason) EXCEPT !.localOnly = @ \/ t.budget.strict,
                                           !.hidden = @ \cup t.y]
FallenBack(t, reason) ==
    [LeftToLocals(t, reason) EXCEPT !.localOnly = @ \/ t.budget.strict]

\* The layer ends with its whole sum, which holds no remote result when it had
\* no remote step.
LayerSummed(t) ==
    [t EXCEPT !.pc = "layer", !.layer = @ + 1, !.y = {}, !.hidden = @ \cup t.y]

\* On to the first, and the next, reference of the step.
StepEntered(t) == [t EXCEPT !.pc = "step", !.pos = 1]
SameReference(t) ==
    [t EXCEPT !.pc = "step", !.answer = None, !.failure = None]
NextReference(t) ==
    [t EXCEPT !.pc = "step", !.pos = @ + 1, !.answer = None, !.failure = None]

-----------------------------------------------------------------------------
(* RunStep up to the plan *)

\* The node's ACL, before anything else.
RunStepDenied(r) ==
    /\ run[r].pc = "waiting"
    /\ run' = [run EXCEPT ![r].pc = "done", ![r].status = "PERMISSION_DENIED"]
    /\ UNCHANGED <<live, connected, sent, unanswered>>

\* _ensure_peers connects the missing peers, and goes on without those that do
\* not answer in thirty attempts.
RunStep(r, budget, mode) ==
    /\ run[r].pc = "waiting"
    /\ run' = [run EXCEPT ![r].pc = IF mode = "local" THEN "layer" ELSE "proposing",
                          ![r].budget = budget, ![r].mode = mode]
    /\ \E up \in SUBSET (Peers \ connected) : connected' = connected \cup up
    /\ UNCHANGED <<live, sent, unanswered>>

RouterAnswers(r, plan) ==
    /\ run[r].pc = "proposing"
    /\ run' = [run EXCEPT ![r].pc = "layer", ![r].plan = plan]
    /\ UNCHANGED <<live, connected, sent, unanswered>>

\* A propose that fails, at its deadline or before, raises; nothing catches it before
\* RunStep, which answers INTERNAL.
RouterFails(r) ==
    /\ run[r].pc = "proposing"
    /\ run' = [run EXCEPT ![r].pc = "done", ![r].status = "NO_ROUTER"]
    /\ UNCHANGED <<live, connected, sent, unanswered>>

-----------------------------------------------------------------------------
(* The layers *)

\* execute_layer up to its first remote reference.
LayerStarts(r) ==
    /\ run[r].pc = "layer" /\ HasLayers(r)
    /\ run' = [run EXCEPT ![r] =
           IF @.localOnly \/ @.plan[@.layer] = <<>> THEN LayerSummed(@)
           ELSE IF ~@.fresh THEN FallenBack(@, "PLAN_EXPIRED")
           ELSE StepEntered(@)]
    /\ UNCHANGED <<live, connected, sent, unanswered>>

\* The sum of the step is complete.
StepEnds(r) ==
    /\ run[r].pc = "step"
    /\ run[r].pos > Len(run[r].plan[run[r].layer])
    /\ run' = [run EXCEPT ![r] = LayerSummed(@)]
    /\ UNCHANGED <<live, connected, sent, unanswered>>

\* The next reference of the step: its peer is not connected, or is asked for a
\* lease, or is sent the activation at once when the budget wants no leases.
Borrow(r) ==
    /\ run[r].pc = "step"
    /\ run[r].pos <= Len(run[r].plan[run[r].layer])
    /\ \/ /\ Peer(ThisCall(r)) \notin connected
          /\ run' = [run EXCEPT ![r] = FallenBack(@, "UNAVAILABLE")]
          /\ sent' = sent
       \/ /\ Peer(ThisCall(r)) \in connected
          /\ run[r].budget.leases
          /\ run' = [run EXCEPT ![r].pc = "leasing"]
          /\ Send(r, "Lease")
       \/ /\ Peer(ThisCall(r)) \in connected
          /\ ~run[r].budget.leases
          /\ run' = [run EXCEPT ![r].pc = "forwarding"]
          /\ Send(r, "Forward")
    /\ UNCHANGED <<live, connected, unanswered>>

LeaseAnswered(r) ==
    /\ run[r].pc = "leasing"
    /\ \/ /\ run[r].answer = "ok"
          /\ run' = [run EXCEPT ![r].pc = "forwarding", ![r].answer = None]
          /\ Send(r, "Forward")
       \/ /\ run[r].answer = "refused"
          /\ run' = [run EXCEPT ![r] = FallenBack(@, "REFUSED")]
          /\ sent' = sent
    /\ UNCHANGED <<live, connected, unanswered>>

\* The finally of _execute_step: a lease acquired here is released whatever became
\* of the forward; a step that failed falls back once that is done.
LeakingAfterForward(r, t, failure) ==
    IF failure = None
    THEN IF t.budget.leases
         THEN /\ run' = [run EXCEPT ![r] = [t EXCEPT !.pc = "releasing", !.answer = None]]
              /\ Send(r, "Release")
         ELSE run' = [run EXCEPT ![r] = NextReference(t)] /\ sent' = sent
    ELSE run' = [run EXCEPT ![r] = FallenBack(t, failure)] /\ sent' = sent
AfterForward(r, t, failure) ==
    IF t.budget.leases
    THEN /\ run' = [run EXCEPT ![r] = [t EXCEPT !.pc = "releasing", !.answer = None,
                                                !.failure = failure]]
         /\ Send(r, "Release")
    ELSE /\ run' = [run EXCEPT ![r] = IF failure = None THEN NextReference(t)
                                      ELSE FallenBack(t, failure)]
         /\ sent' = sent

\* The latency looked at is the one the node reports.
OverLatency(r) == Peer(ThisCall(r)) \in SlowPeers /\ ~run[r].budget.soft

ForwardAnswered(r) ==
    /\ run[r].pc = "forwarding"
    /\ \/ /\ run[r].answer = "ok" /\ ~OverLatency(r)
          /\ AfterForward(r, [run[r] EXCEPT !.y = @ \cup {ThisCall(r)}], None)
       \/ /\ run[r].answer = "ok" /\ OverLatency(r)
          /\ AfterForward(r, run[r], "DEADLINE_EXCEEDED")
       \/ /\ run[r].answer = "refused"
          /\ AfterForward(r, run[r], "REFUSED")
    /\ UNCHANGED <<live, connected, unanswered>>

\* A failed release is logged and forgotten.
AfterReleaseAlwaysLocal(r) == run' = [run EXCEPT ![r] = FallenBack(@, @.failure)]
AfterRelease(r) ==
    run' = [run EXCEPT ![r] = IF @.failure = None THEN NextReference(@)
                              ELSE FallenBack(@, @.failure)]

ReleaseAnswered(r) ==
    /\ run[r].pc = "releasing" /\ run[r].answer # None
    /\ AfterRelease(r)
    /\ UNCHANGED <<live, connected, sent, unanswered>>

\* Every RPC carries a deadline: a call without an answer fails.
NoDeadline(r) == FALSE
GivesUp(r) == Awaits(r)

CallFails(r) ==
    /\ GivesUp(r)
    /\ unanswered' = IF run[r].pc = "forwarding" THEN unanswered
                     ELSE unanswered \cup {ThisCall(r)}
    /\ CASE run[r].pc = "leasing"    -> /\ run' = [run EXCEPT ![r] = FallenBack(@, "UNAVAILABLE")]
                                        /\ sent' = sent
         [] run[r].pc = "forwarding" -> AfterForward(r, run[r], "UNAVAILABLE")
         [] run[r].pc = "releasing"  -> AfterRelease(r) /\ sent' = sent
    /\ UNCHANGED <<live, connected>>

-----------------------------------------------------------------------------
(* The outcome: only mode "learned" reports it. *)
RunStepEnds(r) ==
    /\ run[r].pc = "layer" /\ ~HasLayers(r)
    /\ run' = [run EXCEPT ![r] = IF @.mode = "learned" THEN [@ EXCEPT !.pc = "reporting"]
                                 ELSE [@ EXCEPT !.pc = "done", !.status = "OK"]]
    /\ UNCHANGED <<live, connected, sent, unanswered>>

LearnerAnswers(r) ==
    /\ run[r].pc = "reporting"
    /\ run' = [run EXCEPT ![r].pc = "done", ![r].status = "OK"]
    /\ UNCHANGED <<live, connected, sent, unanswered>>

\* A failed or rejected report throws the computed hidden state away: INTERNAL.
LearnerFails(r) ==
    /\ run[r].pc = "reporting"
    /\ run' = [run EXCEPT ![r].pc = "done", ![r].status = "NO_LEARNER"]
    /\ UNCHANGED <<live, connected, sent, unanswered>>

-----------------------------------------------------------------------------
(* The peers *)

\* What a peer may answer to a request, given this host's leases in its table.
Verdicts(m) == TableAnswers(m.op, m.call, m.leased, live[Peer(m.call)])

\* The answer reaches the caller only if that call still awaits it.
PeerHandles(m, verdict) ==
    /\ m \in sent /\ verdict \in Verdicts(m)
    /\ sent' = sent \ {m}
    /\ live' = [live EXCEPT ![Peer(m.call)] = TableAfter(m.op, m.call, verdict, @)]
    /\ LET r == m.call.run
       IN  run' = IF Awaits(r) /\ AwaitedOp(r) = m.op /\ ThisCall(r) = m.call
                  THEN [run EXCEPT ![r].answer = verdict] ELSE run
    /\ UNCHANGED <<connected, unanswered>>

\* A lease passes its deadline, or its peer restarts.
LeaseLost(p, c) ==
    /\ c \in live[p]
    /\ live' = [live EXCEPT ![p] = @ \ {c}]
    /\ UNCHANGED <<run, connected, sent, unanswered>>

\* The plan's time to live passes.
PlanExpires(r) ==
    /\ run[r].pc \notin {"waiting", "proposing", "done"}
    /\ run[r].plan # LocalPlan /\ run[r].fresh
    /\ run' = [run EXCEPT ![r].fresh = FALSE]
    /\ UNCHANGED <<live, connected, sent, unanswered>>

-----------------------------------------------------------------------------
Init ==
    /\ run = [r \in Runs |->
           [pc |-> "waiting", budget |-> None, mode |-> None, plan |-> LocalPlan, fresh |-> TRUE,
            layer |-> 1, pos |-> 1, localOnly |-> FALSE, y |-> {}, hidden |-> {}, answer |-> None,
            failure |-> None, fallbacks |-> {}, status |-> None]]
    /\ live = [p \in Peers |-> {}]
    /\ connected = {}
    /\ sent = {}
    /\ unanswered = {}

\* The steps of the thread that serves r.
ThreadSteps(r) ==
    \/ RouterFails(r) \/ \E plan \in Plans \cup {LocalPlan} : RouterAnswers(r, plan)
    \/ LayerStarts(r) \/ StepEnds(r) \/ Borrow(r)
    \/ LeaseAnswered(r) \/ ForwardAnswered(r) \/ ReleaseAnswered(r) \/ CallFails(r)
    \/ RunStepEnds(r) \/ LearnerAnswers(r) \/ LearnerFails(r)

Next ==
    \/ \E r \in Runs :
          \/ RunStepDenied(r)
          \/ \E budget \in Budgets, mode \in Modes : RunStep(r, budget, mode)
          \/ ThreadSteps(r)
          \/ PlanExpires(r)
    \/ \E m \in sent : \E verdict \in Verdicts(m) : PeerHandles(m, verdict)
    \/ \E p \in Peers : \E c \in live[p] : LeaseLost(p, c)

\* A thread runs on: calls that are not answered fail at their deadline.  Nothing
\* is assumed of the peers, the network or the arrival of requests.
Fairness == \A r \in Runs : WF_vars(ThreadSteps(r))

Spec == Init /\ [][Next]_vars /\ Fairness

-----------------------------------------------------------------------------
(* Properties. *)

\* Every variable has its type.
TypeOK ==
    /\ run \in [Runs -> Thread]
    /\ live \in [Peers -> SUBSET Call]
    /\ connected \in SUBSET Peers
    /\ sent \in SUBSET Request
    /\ unanswered \in SUBSET Call

\* No lease is left behind (host.py:140-163): a lease in a peer's table is being
\* used, is being given back, or its host never got the answer to the lease or to
\* the release.  However steps fail, and whatever peers do meanwhile, the host
\* itself forgets none.
LeasesAccountedFor ==
    \A p \in Peers : \A c \in live[p] :
        \/ Awaits(c.run) /\ ThisCall(c.run) = c
        \/ \E m \in sent : m.op = "Release" /\ m.call = c
        \/ c \in unanswered

Planned(r, n) == {[run |-> r, layer |-> n, pos |-> i] : i \in 1..Len(run[r].plan[n])}
Borrowed(r, n) == {c \in run[r].hidden : c.layer = n}
FellBack(r, n) == \E f \in run[r].fallbacks : f.layer = n

\* What the learner is told is what happened (host.py:98-109): a layer behind the
\* thread took all the plan's remote results or none; it took none if it is listed
\* as a fallback, and all otherwise, unless a strict budget had already ended the
\* borrowing at an earlier fallback.
FallbacksTellTheTruth ==
    \A r \in Runs : \A n \in 1..(run[r].layer - 1) :
        IF FellBack(r, n)
        THEN Borrowed(r, n) = {}
        ELSE \/ Borrowed(r, n) = Planned(r, n)
             \/ /\ Borrowed(r, n) = {} /\ run[r].budget.strict
                /\ \E k \in 1..(n - 1) : FellBack(r, k)

\* What can be seen of a request, for RunContract: a layer behind the thread that
\* took some of its planned results, or some though it fell back, is none of the
\* contract's.
Told(r, n) ==
    IF Borrowed(r, n) = {} THEN IF FellBack(r, n) THEN "fallback" ELSE "local"
    ELSE IF Borrowed(r, n) = Planned(r, n) /\ ~FellBack(r, n) THEN "borrowed" ELSE "partial"
PhaseOf(pc) ==
    CASE pc = "waiting"   -> "waiting"
      [] pc = "proposing" -> "planning"
      [] pc = "done"      -> "done"
      [] OTHER            -> "running"
Seen(r) ==
    [phase   |-> PhaseOf(run[r].pc),
     strict  |-> run[r].budget # None /\ run[r].budget.strict,
     reports |-> run[r].mode = "learned",
     edited  |-> {n \in Layers : run[r].plan[n] # <<>>},
     tale    |-> [n \in 1..(run[r].layer - 1) |-> Told(r, n)],
     status  |-> run[r].status]

Requests == [r \in Runs |-> Seen(r)]

Contract == INSTANCE RunContract WITH req <- Requests

\* RunStep (host.py:281-343) decides the layers in order, each at once and for good,
\* whatever fails within one, and answers when all are decided.
ImplementsRunContract == Contract!Spec

\* The steps a thread has left: at most twelve in a layer, four for each of two
\* references (lease, forward, release, next) and the layer's start and end.
LeftInStep(t) ==
    12 * (NumLayers - t.layer) + 2 + 4 * (3 - t.pos)
        + CASE t.pc = "step" -> 3 [] t.pc = "leasing" -> 2
            [] t.pc = "forwarding" -> 1 [] t.pc = "releasing" -> 0
StepsLeft(t) ==
    CASE t.pc = "waiting"   -> 12 * NumLayers + 4
      [] t.pc = "proposing" -> 12 * NumLayers + 3
      [] t.pc = "layer"     -> 12 * (NumLayers + 1 - t.layer) + 2
      [] t.pc = "reporting" -> 1
      [] t.pc = "done"      -> 0
      [] OTHER              -> LeftInStep(t)

\* Nothing is tried twice (client/__init__.py:3: fail fast): every step a thread
\* takes brings its request nearer to its end, and nothing that happens meanwhile
\* sets it back.
StepsRunOut ==
    [][ \A r \in Runs :
          /\ StepsLeft(run'[r]) <= StepsLeft(run[r])
          /\ ThreadSteps(r) => StepsLeft(run'[r]) < StepsLeft(run[r]) ]_vars

\* protocol.md 7: with strict_local_fallback, once anything fell back the request
\* sends nothing more to any peer.
StrictStopsBorrowing ==
    [][ \A r \in Runs :
          run[r].fallbacks # {} /\ run[r].budget.strict
          => \A m \in sent' \ sent : m.call.run # r ]_vars

\* client/__init__.py:3: whatever the peers, the network and the other requests
\* do, every RunStep that was let in is answered, whether it asks the router for a plan
\* or goes straight to its layers.
EveryRunAnswers == \A r \in Runs : run[r].pc \in {"proposing", "layer"} ~> run[r].pc = "done"

\* SPEC.md 5.2: remote steps of an expired plan are not executed.
NoForwardAfterExpiry ==
    [][ \A r \in Runs :
          ~run[r].fresh => \A m \in sent' \ sent : m.call.run = r => m.op # "Forward" ]_vars

=============================================================================
