# Cross-MoE expert interop: TLA+ models, model checking and proofs

This directory specifies the program in `cei/`: a fleet in which a host model borrows experts of
other models. The modules are translated from the source; TLC checks them on small instances and
TLAPS proves the main invariants for every instance. `PROJECT.json` maps every definition to the
lines it models.

## 1. The system

| Component | Code | State | Operations |
|---|---|---|---|
| Expert node | `node.py`, `NodeServicer` | `_leases`, `_seen_requests`, `_load_tokens`, `acl_allow`, `acl_open` (one lock) | LeaseCapacity, ReleaseCapacity, ForwardExpert, ExportWeights (always refuses) |
| Expert registry | `registry.py`, `RegistryServicer` | `_entries` (descriptor, last heartbeat, load, capacity, routable, promoted, owner), `_acl`, `allow_all` (one lock) | RegisterExpert, Heartbeat, Deregister, DescribeExperts, promote, grant, set_acl |
| Host | `host.py`, `HostServicer` | `_peers` (shared by worker threads); per request: plan, layer, `abort_remote`, fallbacks, hidden state | RunStep |
| Learner | `learner.py`, `learner_servicer.py` | `_pending`, `_A`, `_b`, `_counts`, `version` (one lock) | ReportOutcome, EstimateUtility, GetPolicySnapshot |
| Replay cache | `security.py` | `_seen` (own lock) | `check_and_add` |
| Router | `router.py`, `router_servicer.py` | policy cache, the registry client's load and capacity caches (no lock) | ProposeCombinations |
| Adapter hub | `adapters.py`, `adapter_hub_servicer.py` | `_adapters`, `_digests` (no lock) | UpsertAdapter, GetAdapter |
| RPC clients | `client/` | channels, caches | one deadline per call (`CEI_RPC_TIMEOUT_S`, 10 s) |
| Server wiring | `server/app.py`, `register_all_experts` | main and heartbeat thread of a node, worker pools of 4 to 16 | start-up, registration, publication, heartbeat loop |
| Configuration, TLS, simulator, metrics | `security.py`, `tlsutil.py`, `simulate.py`, `distributed.py`, `fleet_build.py`, `metrics.py`, `cli.py` | none that outlives a run | |

How they interact: a node registers its experts once at start-up and then heartbeats every 5 s;
the registry calls an expert routable while it is promoted and its last heartbeat is less than
15 s old. RunStep at a host asks the router for plans; the router reads the registry several times
and scores with a policy cached from the learner. The host runs the chosen plan layer by layer: for
each remote expert it leases capacity at the peer, sends the activation under that lease, and gives
the lease back. Anything that fails makes it compute the layer with local experts. In mode
`learned` it reports the outcome to the learner. All calls are gRPC; every server runs a thread
pool, so operations of one component interleave wherever its lock is not held. Nothing is
persisted.

What is hard, and what makes each part correct:

- *Node*: grants, releases, forwards and expiry race; ids are retried. Correct when the table keeps
  its bound, a lease serves only its grantee, for its expert, until it is released, overdue or lost
  in a crash, retries are charged once, and refusals for capacity are real.
- *Registry*: `routable` is a stored flag no timer clears; describes read in several critical
  sections; several publishers. Correct when what is described as routable is promoted and recently
  heard of, only owners dispose of entries, quotas hold, and readers keep their access.
- *Host*: RPCs are lost, late or refused at any point; plans and leases end during calls. Correct
  when every lease is given back or at least accounted for, partial sums never reach the hidden
  state, the learner is told what happened, strict budgets stop borrowing, and every request is
  answered.
- *Learner and replay cache*: reports are retried and concurrent; flush runs in batches; two callers
  make arms. Correct when a report counts once per window, no outcome is lost or doubled, the quota
  holds and a version identifies what was learned.
- *Router*: the registry changes between its reads; the policy cache is written by several threads
  in two statements. Correct when an answer keeps the number, the budget and the local-only plan
  asked for, borrows experts that were routable, with adapters where they are needed, and no policy
  is used long after its time to live.
- *Adapter hub*: the adapter and its digest are stored in two statements and read in two, without a
  lock. Correct when what a reader verifies is what was stored, or the next upload puts it right.
- *Node process and registry together*: a process registers once, then only heartbeats; calls are
  lost, late, or arrive after their sender died; either side restarts. Correct when a process that
  is up has its experts in the registry, recently heard of, and a process that is gone is forgotten,
  unless somebody else keeps sending heartbeats in its node's name.

## 2. Modules

| Module | Models | Remarks |
|---|---|---|
| `LeaseContract` | what a node promises about leases | abstract: a lease is granted once; its grantee, its deadline or a crash ends it; a forward presenting it is served only while it lives |
| `LeaseTable` | the leases one caller holds at a node | operators: what may be answered, and the table after it; `HostRun` assumes it of its peers, `ExpertNode` is shown to keep it |
| `ExpertNode` | `node.py`, `NodeServicer` | refines `LeaseContract` |
| `Registry` | `registry.py`, `RegistryServicer` | describes in three steps: hits, one capacity read per hit, reply |
| `RunContract` | what a host promises of its RunStep requests | abstract: let in once or denied; at most one plan; layers decided in order, each at once and for good; answered when all are |
| `HostRun` | RunStep, `forward_distributed`, `_run_plan`, `execute_layer`, `_execute_step`, NodeClient | refines `RunContract`; peers are `LeaseTable`s that may lose leases, over a lossy network |
| `Learner` | `learner.py`, its servicers, `ReplayCache` | one flush step per outcome |
| `Router` | `router.py`, `RouterServicer`, the registry and learner clients it calls | one step per registry read, per statement of the policy cache's write |
| `AdapterHub` | `adapters.py`, its servicer | one step up to the first store or read, one for the second |
| `Principals` | `sign_meta`, `verify_meta`, `resolve_principal`, `new_meta` | operators only: who a server takes a caller to be |
| `Fleet` | `serve_node`, `register_all_experts`, `_publish_adapters`, RegistryClient | extends `Registry`, instantiates `Principals` |
| `MCExpertNode`, `MCRegistry`, `MCHostRun`, `MCLearner`, `MCRouter`, `MCAdapterHub`, `MCFleet` | instances for TLC | constant values, symmetry, bounds |
| `ExpertNodeProofs`, `RegistryProofs`, `LearnerProofs`, `RouterProofs`, `AdapterHubProofs`, `FleetProofs`, `HostRunProofs` | theorems | `FleetProofs` builds on `RegistryProofs` |

Correspondence. Each handler of a servicer is one action where the code holds the component's lock
throughout, and several where it does not. Early returns are disjuncts with a `reply` (the wire's
error codes). Variables keep the source's names or say in their comment which field they are.
Variables marked *history* exist only for properties.

What is abstracted:

- Tensors, fingerprints, rewards, similarity order and wording. A hidden state is the set of remote
  results it contains; what an arm has learned is how many outcomes it has learned from.
- Time is an integer that passes by `Tick`; its units stand for the TTLs' scale and each configured
  TTL is a constant. `HostRun` has no clock: a call may outlast the time to live of plans and leases
  (10 s against 5 s), so these may end at any step.
- Uuids are drawn from a set and never repeat. Which principal a caller is (metadata, tokens, TLS)
  is an input of the action; the policies appear as the sets of principals they admit.
- A restart empties a component's state, as the code's constructors do, and keeps time.
- `ExpertNode` has one adapter-and-dimension verdict per forward; numbers of tokens are one
  constant, so load counts requests.
- `Registry` leaves out `load_qps` (handled as `capacity_qps` is) and the descriptors' contents.
- In `AdapterHub` the two matrices of an adapter and their shapes are one value, the digest of a value
  is the value, and who may write an adapter is a relation.
- In `Fleet` a process is one thread of control: the main thread ends where the heartbeat thread
  begins. Threads take no time between calls; a call arrives within its deadline or never; a stopped
  process leaves at most its last call under way. What the registry does with a call is the action
  of `Registry`, called as the principal `Principals` resolves; tokens are unforgeable, so nobody
  else acts under a node's principal. That does not protect the node's *id*: the registry never
  compares the `node_id` of a heartbeat with its caller, so other publishers send heartbeats in a
  node's name (`OthersBeat`), and the history `spokenFor` records what they refreshed. An upload to
  the hub only takes time here.
- In `Learner`, reports whose signature fails change nothing and are left out.
- In `Router` a plan is what it borrows: its route (a remote expert for each layer it edits), its
  operation, the layers whose expert comes with an adapter, and the latency predicted. Scores are
  abstracted, so any of the candidates may be the best. `k_nn` is taken to exceed the registered
  experts and their dimensions to be the host's; hints name a layer once; a negative `n` is left
  out. The router's own principal sees every registered expert: it registers as a consumer like any
  reader, and `ReadersKeepSight` of `Registry` is about that. Threads take no time between calls,
  so `Tick` waits for a thread that stores a policy and for one at its deadline. A policy is named
  by the instant the learner exported it. Defaults that the wire puts for zero are constants.

## 3. Runs

| Run | Question | Instance and why it is enough |
|---|---|---|
| `NodeCalls` | table bound, each request charged once per TTL, refusals for capacity are real, the node implements the lease contract (grantee and expert included), and to each caller it is the table of its own leases that `HostRun` assumes | two principals, two experts of different capacity, two lease ids, two request ids, a table of one, four instants (`MaxTime` of three) around a TTL of one: grant over a purge, release by a stranger, a forward under a gone or foreign lease or to the other expert, an id just forgotten, two charges to overload one expert and four for the other, restart between any two |
| `RegistryOwners` | quota, ownership (of removal, replacement and going back to an earlier version), readers' access | two publishers, two experts of a model with room for one, two versions, force, ACL edits that close an open registry |
| `RegistryRouting` | routable means promoted and recently heard of | two nodes and an expert, heartbeats named or for all, TTL of one, two ticks: beat, stale, beaten again |
| `RegistryPromotion` (violated) | promotion survives a version refresh | |
| `HostRuns` | fallbacks are told truly, strict budgets stop borrowing, no lease is forgotten, layers are decided in order and for good (`ImplementsRunContract`), nothing is tried twice (`StepsRunOut`), every request is answered | two requests over two peers with a table of one, one peer slow, two layers, two references in a step; a request alone has any budget, mode and plan, two of them are plain (constraint `PlainIfTwo`) and compete for one lease: what the richer cases add happens within one request, what the second adds is contention |
| `HostStalePlan` (violated) | remote steps of an expired plan do not run | |
| `LearnerReports` | replay window, conservation of outcomes, arm quota, policy versions | three ids over a cache of two (so that it sheds), two arms under a quota of one, batches of two, four reports: two flushes, one of them with a dropped outcome; a router keeps its policy through a restart of the learner (constraint `OutlivedIsPlain`: from then on without time passing and one report at a time, which is enough for the new learner to reach the policy's version with other counts) |
| `LearnerReplays` (violated) | replays are rejected throughout the window | |
| `RouterPlans` | what an answer promises, whatever changes between the reads | one request, two layers, two experts that need an adapter in layer 2, pools of one and three candidates (so that both cut), three budgets (one left unset, one soft), `n` of 1 and unset, any registry and one change of it between any two reads |
| `RouterPolicy` | age of the policy used | two threads, three candidates at most, four instants, TTL and deadline of one: a slow fetch overwrites a newer one, between its two statements too |
| `HubUploads` | when an adapter and its digest agree | three workers and two adapters: two crossing uploads and a reader between them, a third upload that heals |
| `Fleet` | who is up is listed and recently heard of, who is gone fades unless others vouch for it | one process with two experts, so that its start-up can fail half way; another publisher, who contends for one of them (constraint `OthersWantA1`: the other one then shows nothing new) and sends heartbeats in the node's name; a pause and a deadline of one and an upload of two against a TTL of two, a clock that is behind, so that slow calls are refused; four ticks: a start with everything slow (the bound of four before the loop's first heartbeat is reached, as is that of three after it), a missed heartbeat, a stop and the TTL |

`Fleet.cfg` tells states apart by `Seen`: the time, the entries, the processes and the histories,
without what can no longer matter: the stored routable flags (no describe reads them here), all but
the owner of an entry that is not the node's, the histories of a run that is over, and heartbeats
older than the TTL. The rest of the registry's state decides neither entries nor replies to a node, nor
does a property read it. `NodeCalls.cfg` leaves the last answer out in the same way (`Remembered`): nothing that
follows depends on it, and what is said of answers is said of the steps that give them.

`CHECK_DEADLOCK FALSE` is set for `HostRun` and `Router` only: once every request is answered, and no
message is left or time and changes are spent, the system rests.

Every property of a passing run has a mutant in `PROJECT.json`: a plausible bug in one mapped
definition that makes TLC find the property violated.

### Fairness

Only `HostRun` states fairness: weak fairness of each request's thread. Its steps are local
computation, or a call that is answered or fails at its deadline: every client call in
`client/__init__.py` passes `timeout=_rpc_timeout()`, so `CallFails` is always eventually taken by a
thread nobody answers. Nothing is assumed of peers, network, router or learner. `EveryRunAnswers`
holds under that alone; its mutant, a call without a deadline, breaks it.

### Findings

Runs that end in a violation, each a disagreement between the code and a document or comment:

- `RegistryPromotion`: the comment at `registry.py:115` says promotion is preserved on a version
  refresh; the servicer turns an absent flag into an explicit `False`.
- `HostStalePlan`: `SPEC.md:246`, remote steps of an expired plan must not run; the expiry is read
  once per layer, before the lease call.
- `LearnerReplays`: `schemas/cei.proto:309-311`, duplicates in the window must be rejected; a full
  cache drops its oldest half whatever their age.

Divergences read from the code, without a run:

- `node.py:127` lets any caller release a lease on an open node (`SPEC.md:245`).
- `node.py:115` caps each lease, not their sum (`docs/how-it-works.md:258`, "reservation").
- `node.py:162`: "recent load tokens" (`node.py:75`) are never lowered.
- `registry.py:120` counts registration as a heartbeat (`schemas/cei.proto:119`).
- `registry.py:306` returns experts that are not routable, with a flag (`docs/protocol.md:74`).
- `registry_servicer.py:109` takes a reported capacity of zero for absent (`docs/protocol.md:56`).
- `registry.py:157` forgets the version on removal, so that removing and registering again goes back to
  an earlier one (`docs/protocol.md:246`); for an owned entry only its owner can (`OnlyOwnerDisposes`).
- `host.py:278`: a failed report discards a finished forward (`docs/how-it-works.md:117-119`).
- `host.py:154` compares the latency the node claims, not the round trip (`SPEC.md:247`).
- `learner.py:160` reads a count outside the lock (`learner.py:3-4`).
- `learner_servicer.py:101` tells a client whose policy has the learner's version that it is unchanged,
  and `learner.py:27` counts versions from zero after a restart: once the new learner has as many
  flushes, a policy of the old one passes for its own. `PolicyCurrent` excepts exactly these
  policies (`exporter`). The router's own call names no version (`client/__init__.py:233`) and is not
  affected.
- `router.py:57-62`: a learner that is down makes a proposal fail
  (`docs/architecture.md:167` has it score with the prior only).
- `host.py:141`: a lease whose answer is lost stays until its deadline (`docs/how-it-works.md:119-120`:
  failures strand no capacity).
- `host.py:265`: with the router down RunStep answers INTERNAL (`docs/protocol.md:219`, local-only).
- `router.py:300` reads an adapter again after the pool admitted its expert, so a plan may name an
  expert of another layer without one (`docs/protocol.md:105`); `AdapterUnlessChanged` says when.
- `wire.py:95` takes a `max_remote_experts` of zero for unset, hence four (`SPEC.md:310`, a cap).
- `adapter_hub_servicer.py:88` stores adapter and digest apart, so the digest may be another upload's
  (`schemas/cei_internal.proto:78`, the hash of the matrices); `DigestHeals` says when it is not.
- `adapters.py:33`: the last upload of an `adapter_id` wins, and nodes of a domain publish different
  matrices under one id (`docs/architecture.md:192`, content-addressed).
- No node calls GetAdapter (`docs/architecture.md:109-111`: nodes fetch, verify the digest, cache).
- `client/__init__.py:97`: a heartbeat's `ok` and `next_heartbeat_ms` are not looked at, so a node
  whose heartbeats are refused goes on as if they counted.
- `server/app.py:129-140`: with the defaults two slow heartbeats that both succeed leave the registry
  without one for 25 s, against a time to live of 15 s, and a slow start (the first heartbeat answered
  at its deadline, the upload over at its own, the loop's first heartbeat taken up at its own) for
  30 s; see `BeatAgeBound`.
- `registry_servicer.py:58-71` and `registry.py:159-182`: a heartbeat may come from any publisher, whatever
  node it names (`docs/how-it-works.md:179`: heartbeats only refresh experts owned by the reporting
  node). Another publisher so reports a node's load and capacity, and keeps the experts of a node that
  is gone routable for as long as it likes (`docs/evaluation.md:54`: zombies must expire);
  `ZombieBound` excepts exactly the experts refreshed that way (`spokenFor`).
- `server/app.py:118`: experts register at start-up only; a registry that restarts stays without the
  experts of the nodes that run, whose heartbeats are accepted and refresh nothing. `UpMeansListed`
  excepts exactly these (`forgotten`).
- The router never leases, whatever `require_leases` says (`docs/protocol.md:106`, a SHOULD).

## 4. Proofs

Assumptions: `ConstantsAssumption` of each module (types of the constants, and that the bounds are
naturals) and `NullsAssumption` (the null values are not records); TLC evaluates them in the runs.
No theorem assumes a finite instance, except that a table which starts empty and grows by one stays
finite.

`ExpertNodeProofs`. *TypeCorrect*. *LeaseTableBounded* is not inductive alone: a grant adds to the
purged table, so `LeaseInv` also says that the table is finite, that what it holds is what was
granted, and that ids outside the grants are unused; *LeasesAsGranted* comes from the same
invariant. *ChargedOnce* needs `AccountInv`: `seen` holds the latest charge of its id, and the load
is the number of charges. *RefusalsJustified* is an action property: a refusal follows a purge,
and the load it may be due to is held against the capacity of the expert asked for.
*NodeIsALeaseTable* discharges what `HostRun` assumes of its peers, with any ACL: seen by one caller
(`Own`, its leases that are not overdue), each answer to it is one `LeaseTable` allows and changes its
leases as `LeaseTable` says, while other callers' requests, time and restarts only take leases away,
which is the step `LeaseLost` of `HostRun`. Other callers' leases may fill the table: a refusal is always
allowed. There is one lemma per handler.
*NodeImplementsLeaseContract* is a refinement proof, with a closed ACL, step by step: each action of
the node is a step of `LeaseContract` or a stutter under the mapping `ContractGrants`, live
leases, `ContractEvent` (which names the expert a forward asked for); `RefinementInv` adds that a
lease's grantee is a known principal.

`RegistryProofs`. *TypeCorrect*; *QuotaHolds* (an accepted registration of a new reference finds
room, everything else adds none); *OwnersDispose* (an entry keeps its owner, and never goes back to an
earlier version, under every handler but the owner's own); *RoutableAlive* (`HeardInv`: a beat is never newer than something heard, so the
refreshed flag is true only within the TTL); *ReadersSee* (`SightInv`: access follows registration).

`LearnerProofs`. One invariant `IInv`: types; `ArmInv` (finitely many arms, within the quota, counts
only for arms); `CacheInv` (what the cache remembers is when the id was let through; what it forgot
was out of its window or shed); `PolicyInv` (a policy of this run of the learner is no
newer than the learner, and one of its version has its counts; nothing is said of a policy that
outlived the learner it is of); and *OutcomesConserved*, itself inductive: the places of the batch still to be
learned grow by one with each outcome and shrink by one with each turn of a flush. *AdmittedOnce*,
an action property, follows from `CacheInv`.

`RouterProofs`. One invariant `IInv` of four parts, each inductive over the ones before it:
`ThreadInv` (types; the candidates of a request are plans, finitely many and at most
`max_candidates`; what a thread holds at each step of its program), which gives *TypeCorrect*;
`AgeInv`, for *PolicyAge*: a fetch is no older than its deadline (`FetchInv`); while any thread is
storing, the cached policy is at most a deadline old, whoever wrote it last (`StoreInv`); so the
cached time runs ahead of the cached policy by at most a deadline (`StampInv`), and a cache that
counts as fresh is younger than the TTL plus that; `OfferInv`, for *OfferedRoutable* and *AdaptersFollow*: what pools,
combinations, the plan under construction and the candidates borrow was routable, and admitted for
its layer, or has been touched since; `PromiseInv`, for *PromisesKept*: plans under construction edit at most
`m` layers, and a candidate other than the local-only plan is feasible for the budget as received.

`AdapterHubProofs`. *HubTypes*; *DigestsHeal* and *ReadersVerify* from `HubInv`: an id whose uploads do
not cross has at most one under way, and what it uploaded is what is stored (`OneUpload`); a read
that no upload disturbed holds what is stored (`CalmReads`).

`FleetProofs`. Every step of the fleet is a step of `Registry` or leaves it alone (`FleetIsRegistry`), so
`TypeOK` and `HeardInv` carry over. `CallsInv`: a process makes the calls of what it is doing, none
outlives its deadline, a stray one was sent before its process stopped; with *FleetTypes*.
`UpInv`, for *UpListed*: what a process is done registering is listed, under its own principal;
lemmas say what each call, its own, another process's, a stray or an outsider's, does to a listing
(`CallKeepsListed`, `OthersKeepListed`: ownership is what keeps it). `AgeInv`, for *BeatsBounded*: the
age of the last word at the time the call under way was sent, or the next one will be, is bounded by
what the process is doing; what may lie between two heartbeats besides the calls is the upload until
one of the loop has counted (`looped`), and the pause from then on. `ZombieInv`, for *ZombiesFade*:
what a host owns was last heard of before its process stopped, through a call it left, or through a
heartbeat of somebody else that is on record (`OthersBeatEffect`). Assumptions: no expert belongs to two processes, and the processes' principals
are used by nobody else (`Outsiders`); their node ids may be.

`HostRunProofs`. What a step does to its thread is one of nine kinds (`Moves`), and what it does to
leases and messages is `Settles` and `SendsFor`; each action is shown once to be such a step
(`Advances`, lemma `StepsAdvance`). `ThreadSound` is kept by the kinds: the thread's record fits its
program counter (`WellFormed`, `Quiet`), the sum of a step holds exactly the references before the
one at hand (`SumsUp`), and the layers behind are told truly (`TruthBehind`), which gives
*TypeCorrect*, *HostTellsTheTruth* and *StrictEndsBorrowing*. `LeasesInv`, for *LeasesAccounted*: a
lease request on its way, or a lease in a table, is of a call its thread came to; if that call is at
hand the thread is where it will learn of the lease or give it back, otherwise it gave up waiting.
*HostImplementsRunContract* is a refinement proof under the mapping `Requests`: what is told of a layer
behind the thread depends on the plan and on what became of it alone, so the tale only grows, by one
when a layer is left (`TaleGrows`), and what is added is what the contract allows (`DecidedLayer`, from
`ThreadSound`); every other kind of step is a stutter. *StepsAreSpent*: each kind of step but waiting
lowers `StepsLeft` (`MeasureFalls`) and no step of the thread only waits (`NeverWaits`). With the
measure a natural number and a step enabled at every program counter but the first and the last, this
is the argument behind `EveryRunAnswers`; what is missing of its proof is ENABLED.

Only model-checked: liveness (`EveryRunAnswers`), since fairness and ENABLED are out of the prover's reach.

## 5. Not modelled, and the plan

1. A composition of `Fleet` with `ExpertNode`: an expert removed from the registry still grants leases
   and serves, as the node is never told. (`ExpertNode` and `HostRun` meet in `LeaseTable`.)
2. Clocks that are set back, which bring overdue leases back to life; durations of whole requests:
   `_ensure_peers` (90 s for each missing peer) against the caller's deadline of 60 s, worker pools
   that wait on each other.

Modelled without a property of their own: the learner's unlocked read of a count (`learner.py:160`,
it only lends a score a count that is one old), arms that estimates make (`learner.py:47`, within
`ArmQuota`), the capacity a describe reads after an expert's removal
(`registry_servicer.py:109`, it falls back on the offer).

Left out for good: generated stubs, argument parsing, TLS files, logging, numeric kernels, the
simulator and its metrics (sequential experiments over the components above), and the gRPC library,
which the models replace by calls that are answered, fail or are lost.
