------------------------------- MODULE Router -------------------------------
(***************************************************************************)
(* The combination router (cei/router.py) behind its servicer              *)
(* (cei/server/router_servicer.py): ProposeCombinations requests served by *)
(* threads of one worker pool, which share the policy cache and no lock.   *)
(*                                                                         *)
(* A request reads the registry in many calls, between which experts come, *)
(* go and change: the pool of each layer, then, for each plan it builds,   *)
(* the descriptor of each remote expert once for its adapter and once for  *)
(* its latency.  Each plan is scored with the cached policy, fetched again *)
(* from the learner when it is too old.  Experts of the host, weights and  *)
(* scores are abstracted: a plan is what it borrows, and ranking is any.   *)
(*                                                                         *)
(* A policy is named by the instant the learner exported it.  A call may   *)
(* take its deadline; what a thread does between two calls takes no time.  *)
(***************************************************************************)
EXTENDS Integers, FiniteSets

CONSTANTS
    Requests,       \* ProposeCombinations requests
    Layers,         \* host layers, numbered
    Refs,           \* experts of other models
    LayerOf,        \* expert_ref.layer_id
    Compat,         \* layer_compat
    Selected,       \* sets of layers a request may be served for
    MaxLayers,      \* m, the layers a plan may edit
    PoolSize,       \* top_nn_per_layer
    MaxCandidates,  \* max_candidates
    Ops,            \* REPLACE and AUGMENT
    Latencies,      \* p50_latency_ms of a descriptor, plus the round trip
    UnknownLatency, \* what is predicted of an expert that is not registered
    Budgets,        \* budgets a request may carry
    DefaultRemotes, \* what max_remote_experts is when it is zero on the wire
    DefaultLatency, \* what max_remote_latency_ms is then
    Wanted,         \* n of the requests
    DefaultWanted,  \* what n is when it is zero on the wire
    PolicyTtl,      \* policy_cache_ttl_s
    RpcTimeout,     \* CEI_RPC_TIMEOUT_S
    None,
    MaxChanges,     \* bound on the changes of the registry
    MaxTime         \* bound on the clock

ASSUME ConstantsAssumption ==
    /\ Layers \subseteq Nat
    /\ LayerOf \in [Refs -> Layers] /\ Selected \subseteq SUBSET Layers
    /\ Compat \in {"exact_layer", "any_with_adapter", "free"}
    /\ MaxLayers \in Nat /\ PoolSize \in Nat /\ MaxCandidates \in Nat \ {0}
    /\ Latencies \subseteq Nat /\ UnknownLatency \in Nat
    /\ Budgets \subseteq [remotes : Nat, latency : Nat, soft : BOOLEAN]
    /\ Wanted \subseteq Nat
    /\ DefaultRemotes \in Nat /\ DefaultLatency \in Nat /\ DefaultWanted \in Nat \ {0}
    /\ PolicyTtl \in Nat \ {0} /\ RpcTimeout \in Nat
    /\ MaxChanges \in Nat /\ MaxTime \in Nat

VARIABLES
    now,
    described,  \* what the registry says of each expert, or None
    policy,     \* _policy_snapshot, or Never
    fetchedAt,  \* _policy_fetched_at
    request,    \* per request, the state of its thread
    oldest,     \* history: the greatest age of a policy a plan was scored with
    routed,     \* history: per request, the experts routable at some time since it began
    touched,    \* history: per request, the experts whose description changed since
    changes     \* the changes of the registry so far

vars == <<now, described, policy, fetchedAt, request, oldest, routed, touched, changes>>
registry == <<described, routed, touched, changes>>
cache == <<policy, fetchedAt, oldest>>

Never == -1
Time == 0..MaxTime
Descriptor == [routable : BOOLEAN, adapter : BOOLEAN, latency : Latencies]
Described == {e \in Refs : described[e] # None}
Routable == {e \in Described : described[e].routable}

\* What a plan borrows: at most one remote expert for each layer it edits.
Route == UNION {[S -> Refs] : S \in SUBSET Layers}
Candidate == [route : Route, op : Ops]
Plan == [route : Route, op : Ops \cup {None}, adapters : SUBSET Layers, latency : Nat]
Size(c) == Cardinality(DOMAIN c.route)
LocalOnly == [route |-> <<>>, op |-> None, adapters |-> {}, latency |-> 0]

Thread == [
    pc         : {"waiting", "pooling", "planning", "adapters", "latencies", "scoring",
                  "fetching", "stamping", "returning", "done", "failed"},
    budget     : [remotes : Nat, latency : Nat, soft : BOOLEAN] \cup {None},
    wanted     : Nat \cup {None},
    localToo   : BOOLEAN,                    \* include_local_only
    unpooled   : SUBSET Layers,              \* layers whose pool is to be read
    pools      : [Layers -> SUBSET Refs],
    untried    : SUBSET Candidate,           \* combinations not yet built
    plan       : Plan \cup {None},           \* the plan being built
    unread     : SUBSET Layers,              \* its layers whose expert is to be read
    candidates : SUBSET Plan,
    unscored   : Nat,
    start      : Time \cup {Never},          \* when the fetch of the policy began
    fetched    : Time \cup {Never},          \* the policy being fetched
    reply      : SUBSET Plan]

NoPools == [l \in Layers |-> {}]
NewThread ==
    [pc |-> "waiting", budget |-> None, wanted |-> None, localToo |-> TRUE, unpooled |-> {},
     pools |-> NoPools, untried |-> {}, plan |-> None, unread |-> {},
     candidates |-> {}, unscored |-> 0, start |-> Never, fetched |-> Never, reply |-> {}]

Becomes(r, t) == request' = [request EXCEPT ![r] = t]

-----------------------------------------------------------------------------
(* propose: the pools *)

\* budget_from_pb, and n: a zero on the wire is a value left unset.
OrDefault(x, default) == IF x = 0 THEN default ELSE x
Received(budget) == [budget EXCEPT !.remotes = OrDefault(@, DefaultRemotes),
                                   !.latency = OrDefault(@, DefaultLatency)]

\* Every combination of pooled experts for at most MaxLayers layers, and each op.
Combinations(pools) ==
    {c \in Candidate : /\ Size(c) \in 1..MaxLayers
                       /\ \A l \in DOMAIN c.route : c.route[l] \in pools[l]}

\* The thread once its pools are read: on to the plans.
Pooled(t) == IF t.unpooled # {} THEN t
             ELSE [t EXCEPT !.pc = "planning", !.untried = Combinations(t.pools),
                            !.pools = NoPools]

\* Layers are hinted or picked; only those with local experts get a pool.
ProposeCombinations(r, budget, wanted, localToo, layers) ==
    /\ request[r].pc = "waiting"
    /\ Becomes(r, Pooled([request[r] EXCEPT
                            !.pc = "pooling", !.budget = Received(budget),
                            !.wanted = OrDefault(wanted, DefaultWanted),
                            !.localToo = localToo, !.unpooled = layers,
                            !.candidates = IF localToo THEN {LocalOnly} ELSE {}]))
    /\ routed' = [routed EXCEPT ![r] = Routable]
    /\ UNCHANGED <<now, described, touched, changes, cache>>

\* _layer_ok
LayerOkIfAllowed(l, e) == Compat # "exact_layer" \/ LayerOf[e] = l
LayerOk(l, e) ==
    \/ Compat = "free"
    \/ LayerOf[e] = l
    \/ Compat = "any_with_adapter" /\ described[e].adapter

AdmittedUnrouted(l) == {e \in Described : LayerOk(l, e)}
Admitted(l) == {e \in Routable : LayerOk(l, e)}

\* Layers are visited in order.
IsNext(l, S) == l \in S /\ \A k \in S : l <= k

\* The best PoolSize of the admitted neighbours; how near each is, is abstracted.
PoolRead(r, l, pool) ==
    /\ request[r].pc = "pooling" /\ IsNext(l, request[r].unpooled)
    /\ pool \subseteq Admitted(l)
    /\ Cardinality(pool) <= PoolSize
    /\ Cardinality(pool) < PoolSize => pool = Admitted(l)
    /\ Becomes(r, Pooled([request[r] EXCEPT !.unpooled = @ \ {l}, !.pools[l] = pool]))
    /\ UNCHANGED <<now, registry, cache>>

-----------------------------------------------------------------------------
(* propose: the plans *)

FullOneLate(r) == Cardinality(request[r].candidates) > MaxCandidates
Full(r) == Cardinality(request[r].candidates) >= MaxCandidates

\* Combinations of fewer layers come first.
PlanStarts(r, c) ==
    /\ request[r].pc = "planning" /\ ~Full(r)
    /\ c \in request[r].untried
    /\ \A d \in request[r].untried : Size(c) <= Size(d)
    /\ Becomes(r, [request[r] EXCEPT
                      !.pc = "adapters", !.untried = @ \ {c}, !.unread = DOMAIN c.route,
                      !.plan = [route |-> c.route, op |-> c.op, adapters |-> {}, latency |-> 0]])
    /\ UNCHANGED <<now, registry, cache>>

\* _build_plan reads the expert of each step for its adapter, and _feasible each again.
AdapterRead(r, l) ==
    /\ request[r].pc = "adapters" /\ IsNext(l, request[r].unread)
    /\ LET d == described[request[r].plan.route[l]]
           last == request[r].unread = {l}
       IN  Becomes(r, [request[r] EXCEPT
                          !.pc = IF last THEN "latencies" ELSE @,
                          !.unread = IF last THEN DOMAIN request[r].plan.route ELSE @ \ {l},
                          !.plan.adapters = IF d # None /\ d.adapter THEN @ \cup {l} ELSE @])
    /\ UNCHANGED <<now, registry, cache>>

TooManyRemotes(p, budget) == Cardinality(DOMAIN p.route) > budget.remotes

\* _feasible counts the remote experts, and reads each again to predict the latency.
LatencyRead(r, l) ==
    /\ request[r].pc = "latencies" /\ IsNext(l, request[r].unread)
    /\ ~TooManyRemotes(request[r].plan, request[r].budget)
    /\ LET d == described[request[r].plan.route[l]]
       IN  Becomes(r, [request[r] EXCEPT
                          !.unread = @ \ {l},
                          !.plan.latency = @ + IF d # None THEN d.latency ELSE UnknownLatency])
    /\ UNCHANGED <<now, registry, cache>>

TooSlow(p, budget) == ~budget.soft /\ p.latency > budget.latency
Infeasible(p, budget) == TooManyRemotes(p, budget) \/ TooSlow(p, budget)

PlanEnds(r) ==
    /\ request[r].pc = "latencies"
    /\ request[r].unread = {} \/ TooManyRemotes(request[r].plan, request[r].budget)
    /\ Becomes(r, [request[r] EXCEPT
                      !.pc = "planning", !.plan = None, !.unread = {},
                      !.candidates = IF Infeasible(request[r].plan, request[r].budget) THEN @
                                     ELSE @ \cup {request[r].plan}])
    /\ UNCHANGED <<now, registry, cache>>

PlansComplete(r) ==
    /\ request[r].pc = "planning"
    /\ request[r].untried = {} \/ Full(r)
    /\ Becomes(r, [request[r] EXCEPT !.pc = "scoring", !.untried = {},
                                     !.unscored = Cardinality(request[r].candidates)])
    /\ UNCHANGED <<now, registry, cache>>

-----------------------------------------------------------------------------
(* _refresh_policy_cache and _score_plan *)

FreshAtTtl == policy # Never /\ now - fetchedAt <= PolicyTtl
CacheFresh == policy # Never /\ now - fetchedAt < PolicyTtl

Scored(r) ==
    /\ Becomes(r, [request[r] EXCEPT !.pc = "scoring", !.unscored = @ - 1,
                                     !.start = Never, !.fetched = Never])
    /\ oldest' = IF now - policy > oldest THEN now - policy ELSE oldest
    /\ UNCHANGED <<now, registry, policy, fetchedAt>>

ScoredFromCache(r) ==
    /\ request[r].pc = "scoring" /\ request[r].unscored > 0 /\ CacheFresh
    /\ Scored(r)

FetchStarts(r) ==
    /\ request[r].pc = "scoring" /\ request[r].unscored > 0 /\ ~CacheFresh
    /\ Becomes(r, [request[r] EXCEPT !.pc = "fetching", !.start = now, !.fetched = Never])
    /\ UNCHANGED <<now, registry, cache>>

\* The learner exports its policy; the answer may take a while.
PolicyExported(r) ==
    /\ request[r].pc = "fetching" /\ request[r].fetched = Never
    /\ Becomes(r, [request[r] EXCEPT !.fetched = now])
    /\ UNCHANGED <<now, registry, cache>>

\* The policy is stored, then the time the fetch began, then the policy is read
\* again: three steps, between which other threads run.
PolicyStored(r) ==
    /\ request[r].pc = "fetching" /\ request[r].fetched # Never
    /\ policy' = request[r].fetched
    /\ Becomes(r, [request[r] EXCEPT !.pc = "stamping"])
    /\ UNCHANGED <<now, registry, fetchedAt, oldest>>

PolicyStamped(r) ==
    /\ request[r].pc = "stamping"
    /\ fetchedAt' = request[r].start
    /\ Becomes(r, [request[r] EXCEPT !.pc = "returning"])
    /\ UNCHANGED <<now, registry, policy, oldest>>

ScoredAfterFetch(r) ==
    /\ request[r].pc = "returning"
    /\ Scored(r)

-----------------------------------------------------------------------------
(* The answer *)

\* The local-only plan, when it is wanted, and the best of the others up to n.
RoomForgettingLocal(t) == t.wanted
Room(t) == IF t.localToo THEN t.wanted - 1 ELSE t.wanted

Proposed(r, best) ==
    LET t == request[r]
        others == t.candidates \ {LocalOnly}
    IN  /\ t.pc = "scoring" /\ t.unscored = 0
        /\ best \subseteq others
        /\ Cardinality(best) <= Room(t)
        /\ Cardinality(best) < Room(t) => best = others
        /\ Becomes(r, [t EXCEPT !.pc = "done", !.candidates = {},
                                !.reply = best \cup (IF t.localToo THEN {LocalOnly} ELSE {})])
        /\ UNCHANGED <<now, registry, cache>>

\* A failed call to the registry or the learner fails the whole proposal.
ProposeFails(r) ==
    /\ request[r].pc \in {"pooling", "adapters", "latencies", "scoring", "fetching"}
    /\ Becomes(r, [NewThread EXCEPT !.pc = "failed"])
    /\ UNCHANGED <<now, registry, cache>>

-----------------------------------------------------------------------------
(* The rest of the fleet *)

\* An expert is registered anew, changed, removed, or becomes routable or not.
RegistryChanges(e, d) ==
    /\ changes < MaxChanges /\ d # described[e]
    /\ described' = [described EXCEPT ![e] = d]
    /\ changes' = changes + 1
    /\ routed' = [r \in Requests |-> IF d # None /\ d.routable THEN routed[r] \cup {e} ELSE routed[r]]
    /\ touched' = [r \in Requests |-> IF request[r].pc = "waiting" THEN {} ELSE touched[r] \cup {e}]
    /\ UNCHANGED <<now, cache, request>>

\* Time passes while threads await answers, none of them past its deadline.
Busy(r) == request[r].pc \in {"stamping", "returning"}
AtDeadline(r) == request[r].pc = "fetching" /\ now >= request[r].start + RpcTimeout

Tick ==
    /\ now < MaxTime
    /\ \A r \in Requests : ~Busy(r) /\ ~AtDeadline(r)
    /\ now' = now + 1
    /\ UNCHANGED <<registry, cache, request>>

Init ==
    /\ now = 0
    /\ described \in [Refs -> Descriptor \cup {None}]
    /\ policy = Never /\ fetchedAt = 0 /\ oldest = 0
    /\ request = [r \in Requests |-> NewThread]
    /\ routed = [r \in Requests |-> {}]
    /\ touched = [r \in Requests |-> {}]
    /\ changes = 0

Next ==
    \/ \E r \in Requests :
          \/ \E budget \in Budgets, n \in Wanted, localToo \in BOOLEAN, layers \in Selected :
                ProposeCombinations(r, budget, n, localToo, layers)
          \/ \E l \in Layers, pool \in SUBSET Refs : PoolRead(r, l, pool)
          \/ \E c \in request[r].untried : PlanStarts(r, c)
          \/ \E l \in request[r].unread : AdapterRead(r, l) \/ LatencyRead(r, l)
          \/ PlanEnds(r) \/ PlansComplete(r)
          \/ ScoredFromCache(r) \/ FetchStarts(r) \/ PolicyExported(r)
          \/ PolicyStored(r) \/ PolicyStamped(r) \/ ScoredAfterFetch(r)
          \/ \E best \in SUBSET request[r].candidates : Proposed(r, best)
          \/ ProposeFails(r)
    \/ \E e \in Refs, d \in Descriptor \cup {None} : RegistryChanges(e, d)
    \/ Tick

Spec == Init /\ [][Next]_vars

-----------------------------------------------------------------------------
(* Properties *)

\* Types of the variables; no request holds more than max_candidates plans at a time.
TypeOK ==
    /\ now \in Time /\ fetchedAt \in Time /\ policy \in Time \cup {Never}
    /\ described \in [Refs -> Descriptor \cup {None}]
    /\ request \in [Requests -> Thread]
    /\ \A r \in Requests : Cardinality(request[r].candidates) <= MaxCandidates
    /\ routed \in [Requests -> SUBSET Refs] /\ touched \in [Requests -> SUBSET Refs]
    /\ changes \in 0..MaxChanges /\ oldest \in Time

Answered(r) == request[r].pc = "done"
Remotes(p) == {p.route[l] : l \in DOMAIN p.route}

\* What a request is answered (docs/protocol.md:96-104, docs/learning.md:235): no more
\* plans than it wants, the local-only plan among them if it asked for it, and only
\* plans that edit at most MaxLayers layers, within the budget as received.
RepliesKeepPromises ==
    \A r \in Requests : Answered(r) =>
        LET t == request[r]
        IN  /\ Cardinality(t.reply) <= t.wanted
            /\ t.localToo => LocalOnly \in t.reply
            /\ \A p \in t.reply \ {LocalOnly} :
                  /\ Size(p) \in 1..MaxLayers
                  /\ Size(p) <= t.budget.remotes
                  /\ t.budget.soft \/ p.latency <= t.budget.latency

\* However the registry changes between the reads of a request, an expert its plans
\* borrow was routable at some time since the request came.
OfferedWereRoutable ==
    \A r \in Requests : Answered(r) =>
        \A p \in request[r].reply : Remotes(p) \subseteq routed[r]

Compatible(p, l) == Compat = "free" \/ LayerOf[p.route[l]] = l \/ l \in p.adapters

\* An expert of another layer comes with its adapter, unless its description
\* changed while the request was served: the pool and the plan read it apart.
AdapterUnlessChanged ==
    \A r \in Requests : Answered(r) =>
        \A p \in request[r].reply : \A l \in DOMAIN p.route :
            Compatible(p, l) \/ p.route[l] \in touched[r]

\* However two threads interleave the writes of policy and time, no plan is scored
\* with a policy as old as the cache's TTL and one call's deadline together.
PolicyAgeBound == oldest < PolicyTtl + RpcTimeout

=============================================================================
