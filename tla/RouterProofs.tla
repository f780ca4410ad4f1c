---------------------------- MODULE RouterProofs ----------------------------
(* Theorems of Router, for every value of its constants. *)
EXTENDS Router, FiniteSetTheorems, TLAPS

-----------------------------------------------------------------------------
(* Threads *)

\* What a thread holds at each stage: room for the plan being built, the experts it
\* still has to read, and a plan to score while it fetches the policy.
Sound(t) ==
    /\ IsFiniteSet(t.candidates) /\ Cardinality(t.candidates) <= MaxCandidates
    /\ t.pc \in {"adapters", "latencies"} =>
          /\ t.plan \in Plan /\ t.unread \subseteq DOMAIN t.plan.route
          /\ Cardinality(t.candidates) < MaxCandidates
    /\ t.pc = "fetching" => t.start \in Time
    /\ t.pc = "stamping" => t.start \in Time
    /\ t.pc \in {"fetching", "stamping", "returning"} => t.unscored > 0

RegistryTypes ==
    /\ described \in [Refs -> Descriptor \cup {None}]
    /\ routed \in [Requests -> SUBSET Refs] /\ touched \in [Requests -> SUBSET Refs]
    /\ changes \in 0..MaxChanges

ThreadInv ==
    /\ RegistryTypes
    /\ now \in Time
    /\ request \in [Requests -> Thread]
    /\ \A r \in Requests : Sound(request[r])

LEMMA LocalOnlyIsPlan == LocalOnly \in Plan /\ LocalOnly.route \in Route
<1>1. <<>> \in [{} -> Refs]  OBVIOUS
<1>2. <<>> \in Route  BY <1>1 DEF Route
<1> QED  BY <1>2 DEF LocalOnly, Plan

LEMMA NewThreadTyped == NewThread \in Thread /\ Sound(NewThread)
BY ConstantsAssumption, FS_EmptySet DEF NewThread, NoPools, Thread, Sound, Never

LEMMA ThreadInit == Init => ThreadInv
<1> SUFFICES ASSUME Init PROVE ThreadInv  OBVIOUS
<1>1. request \in [Requests -> Thread] /\ \A r \in Requests : Sound(request[r])
  BY NewThreadTyped DEF Init
<1> QED  BY <1>1, ConstantsAssumption DEF Init, ThreadInv, RegistryTypes, Time

\* A step of one thread that leaves it typed and sound.
LEMMA ThreadBecomes ==
    ASSUME ThreadInv, NEW r \in Requests, NEW t \in Thread, Sound(t),
           Becomes(r, t), RegistryTypes', now' = now
    PROVE  ThreadInv'
BY DEF ThreadInv, Becomes, Sound

LEMMA RegistryUnchanged ==
    ASSUME RegistryTypes, UNCHANGED registry
    PROVE  RegistryTypes'
BY DEF RegistryTypes, registry

LEMMA PooledTyped ==
    ASSUME NEW t \in Thread, Sound(t), t.pc = "pooling"
    PROVE  Pooled(t) \in Thread /\ Sound(Pooled(t))
<1>1. Combinations(t.pools) \subseteq Candidate  BY DEF Combinations
<1>2. NoPools \in [Layers -> SUBSET Refs]  BY DEF NoPools
<1> QED  BY <1>1, <1>2 DEF Pooled, Thread, Sound

LEMMA ThreadProposes ==
    ASSUME ThreadInv, NEW r \in Requests, NEW budget \in Budgets, NEW n \in Wanted,
           NEW localToo \in BOOLEAN, NEW layers \in Selected,
           ProposeCombinations(r, budget, n, localToo, layers)
    PROVE  ThreadInv'
<1> DEFINE b == Received(budget)
           w == OrDefault(n, DefaultWanted)
           cs == IF localToo THEN {LocalOnly} ELSE {}
           t == [request[r] EXCEPT !.pc = "pooling", !.budget = b, !.wanted = w,
                                   !.localToo = localToo, !.unpooled = layers, !.candidates = cs]
<1>1. b \in [remotes : Nat, latency : Nat, soft : BOOLEAN]
  BY ConstantsAssumption DEF Received, OrDefault
<1>2. w \in Nat  BY ConstantsAssumption DEF OrDefault
<1>3. layers \in SUBSET Layers  BY ConstantsAssumption
<1>4. cs \in SUBSET Plan  BY LocalOnlyIsPlan
<1>5. IsFiniteSet(cs) /\ Cardinality(cs) <= MaxCandidates
  <2>1. cs = {} \/ cs = {LocalOnly}  OBVIOUS
  <2>2. /\ IsFiniteSet({}) /\ Cardinality({}) = 0
        /\ IsFiniteSet({LocalOnly}) /\ Cardinality({LocalOnly}) = 1
    BY FS_EmptySet, FS_Singleton
  <2> HIDE DEF cs
  <2> QED  BY <2>1, <2>2, ConstantsAssumption
<1>6. RegistryTypes'
  BY DEF ProposeCombinations, RegistryTypes, ThreadInv, Routable, Described
<1>7. Becomes(r, Pooled(t)) /\ now' = now  BY DEF ProposeCombinations
<1>8. request[r] \in Thread  BY DEF ThreadInv
<1> HIDE DEF b, w, cs
<1>9. t \in Thread /\ t.pc = "pooling" /\ t.candidates = cs
  BY <1>1, <1>2, <1>3, <1>4, <1>8 DEF Thread
<1> HIDE DEF t
<1>10. Sound(t)  BY <1>5, <1>9 DEF Sound
<1> QED  BY <1>6, <1>7, <1>9, <1>10, PooledTyped, ThreadBecomes

LEMMA ThreadPoolRead ==
    ASSUME ThreadInv, NEW r \in Requests, NEW l \in Layers, NEW pool \in SUBSET Refs,
           PoolRead(r, l, pool)
    PROVE  ThreadInv'
<1> DEFINE ps == [request[r].pools EXCEPT ![l] = pool]
           u == request[r].unpooled \ {l}
           t == [request[r] EXCEPT !.unpooled = u, !.pools = ps]
<1>1. request[r] \in Thread /\ request[r].pc = "pooling" /\ Sound(request[r])
  BY DEF ThreadInv, PoolRead
<1>2. ps \in [Layers -> SUBSET Refs] /\ u \in SUBSET Layers  BY <1>1 DEF Thread
<1>3. Becomes(r, Pooled(t)) /\ now' = now /\ UNCHANGED registry  BY DEF PoolRead
<1> HIDE DEF ps, u
<1>4. t \in Thread /\ t.pc = "pooling" /\ t.candidates = request[r].candidates
  BY <1>1, <1>2 DEF Thread
<1>5. Sound(t)  BY <1>1, <1>4 DEF Sound
<1> HIDE DEF t
<1> QED  BY <1>4, <1>5, <1>3, PooledTyped, ThreadBecomes, RegistryUnchanged DEF ThreadInv

LEMMA ThreadPlanStarts ==
    ASSUME ThreadInv, NEW r \in Requests, NEW c \in request[r].untried, PlanStarts(r, c)
    PROVE  ThreadInv'
<1> DEFINE p == [route |-> c.route, op |-> c.op, adapters |-> {}, latency |-> 0]
           t == [request[r] EXCEPT !.pc = "adapters", !.untried = @ \ {c},
                                   !.unread = DOMAIN c.route, !.plan = p]
<1>1. request[r] \in Thread /\ c \in Candidate /\ Sound(request[r])  BY DEF ThreadInv, Thread
<1>2. c.route \in Route /\ c.op \in Ops  BY <1>1 DEF Candidate
<1>3. DOMAIN c.route \in SUBSET Layers  BY <1>2 DEF Route
<1>4. p \in Plan /\ p.route = c.route  BY <1>2 DEF Plan
<1> HIDE DEF p
<1>5. t \in Thread  BY <1>1, <1>3, <1>4 DEF Thread
<1>6. /\ t.pc = "adapters" /\ t.plan = p /\ t.unread = DOMAIN c.route
      /\ t.candidates = request[r].candidates
  BY <1>1 DEF Thread
<1>7. Cardinality(request[r].candidates) < MaxCandidates
  BY <1>1, ConstantsAssumption, FS_CardinalityType DEF PlanStarts, Full, Sound
<1>8. Becomes(r, t) /\ now' = now /\ UNCHANGED registry  BY DEF PlanStarts, p
<1> HIDE DEF t
<1>9. Sound(t)  BY <1>1, <1>4, <1>6, <1>7 DEF Sound
<1> QED  BY <1>5, <1>8, <1>9, ThreadBecomes, RegistryUnchanged DEF ThreadInv

LEMMA ThreadAdapterRead ==
    ASSUME ThreadInv, NEW r \in Requests, NEW l \in request[r].unread, AdapterRead(r, l)
    PROVE  ThreadInv'
<1>1. request[r] \in Thread /\ Sound(request[r])  BY DEF ThreadInv
<1>2. /\ request[r].plan \in Plan /\ l \in DOMAIN request[r].plan.route
      /\ request[r].unread \subseteq DOMAIN request[r].plan.route
      /\ Cardinality(request[r].candidates) < MaxCandidates
      /\ request[r].pc = "adapters"
  BY <1>1 DEF Sound, AdapterRead
<1>3. DOMAIN request[r].plan.route \in SUBSET Layers  BY <1>2 DEF Plan, Route
<1> DEFINE d == described[request[r].plan.route[l]]
           last == request[r].unread = {l}
           a == IF d # None /\ d.adapter THEN request[r].plan.adapters \cup {l}
                ELSE request[r].plan.adapters
           p == [request[r].plan EXCEPT !.adapters = a]
           pc == IF last THEN "latencies" ELSE request[r].pc
           u == IF last THEN DOMAIN request[r].plan.route ELSE request[r].unread \ {l}
           t == [request[r] EXCEPT !.pc = pc, !.unread = u, !.plan = p]
<1>4. a \in SUBSET Layers  BY <1>2, <1>3 DEF Plan
<1>5. p \in Plan /\ p.route = request[r].plan.route  BY <1>2, <1>4 DEF Plan
<1>6. u \in SUBSET Layers /\ u \subseteq DOMAIN p.route /\ pc \in {"adapters", "latencies"}
  BY <1>2, <1>3, <1>5
<1>7. Becomes(r, t) /\ now' = now /\ UNCHANGED registry
  BY <1>1, <1>2 DEF AdapterRead, Becomes, Thread, Plan
<1> HIDE DEF a, p, pc, u
<1>8. t \in Thread  BY <1>1, <1>5, <1>6 DEF Thread
<1>9. /\ t.pc = pc /\ t.plan = p /\ t.unread = u /\ t.candidates = request[r].candidates
  BY <1>1 DEF Thread
<1> HIDE DEF t
<1>10. Sound(t)  BY <1>1, <1>2, <1>5, <1>6, <1>9 DEF Sound
<1> QED  BY <1>7, <1>8, <1>10, ThreadBecomes, RegistryUnchanged DEF ThreadInv

LEMMA ThreadLatencyRead ==
    ASSUME ThreadInv, NEW r \in Requests, NEW l \in request[r].unread, LatencyRead(r, l)
    PROVE  ThreadInv'
<1>1. request[r] \in Thread /\ Sound(request[r])  BY DEF ThreadInv
<1>2. /\ request[r].plan \in Plan /\ l \in DOMAIN request[r].plan.route
      /\ request[r].unread \subseteq DOMAIN request[r].plan.route
      /\ Cardinality(request[r].candidates) < MaxCandidates
      /\ request[r].pc = "latencies"
  BY <1>1 DEF Sound, LatencyRead
<1> DEFINE d == described[request[r].plan.route[l]]
           lat == request[r].plan.latency + IF d # None THEN d.latency ELSE UnknownLatency
           p == [request[r].plan EXCEPT !.latency = lat]
           t == [request[r] EXCEPT !.unread = @ \ {l}, !.plan = p]
<1>3. request[r].plan.route[l] \in Refs  BY <1>2 DEF Plan, Route
<1>4. d = None \/ d.latency \in Nat
  <2>1. d \in Descriptor \cup {None}  BY <1>3 DEF ThreadInv, RegistryTypes
  <2> HIDE DEF d
  <2> QED  BY <2>1, ConstantsAssumption DEF Descriptor
<1>5. lat \in Nat  BY <1>2, <1>4, ConstantsAssumption DEF Plan
<1>6. p \in Plan /\ p.route = request[r].plan.route  BY <1>2, <1>5 DEF Plan
<1>7. Becomes(r, t) /\ now' = now /\ UNCHANGED registry
  BY <1>1, <1>2 DEF LatencyRead, Becomes, Thread, Plan
<1> HIDE DEF lat, p
<1>8. t \in Thread  BY <1>1, <1>6 DEF Thread
<1>9. /\ t.pc = "latencies" /\ t.plan = p /\ t.unread = request[r].unread \ {l}
      /\ t.candidates = request[r].candidates
  BY <1>1, <1>2 DEF Thread
<1> HIDE DEF t
<1>10. Sound(t)  BY <1>1, <1>2, <1>6, <1>9 DEF Sound
<1> QED  BY <1>7, <1>8, <1>10, ThreadBecomes, RegistryUnchanged DEF ThreadInv

LEMMA ThreadPlanEnds ==
    ASSUME ThreadInv, NEW r \in Requests, PlanEnds(r)
    PROVE  ThreadInv'
<1>1. request[r] \in Thread /\ Sound(request[r])  BY DEF ThreadInv
<1>2. /\ request[r].plan \in Plan /\ Cardinality(request[r].candidates) < MaxCandidates
      /\ IsFiniteSet(request[r].candidates)
  BY <1>1 DEF Sound, PlanEnds
<1> DEFINE c == IF Infeasible(request[r].plan, request[r].budget) THEN request[r].candidates
                ELSE request[r].candidates \cup {request[r].plan}
           t == [request[r] EXCEPT !.pc = "planning", !.plan = None, !.unread = {},
                                   !.candidates = c]
<1>3. c \in SUBSET Plan  BY <1>1, <1>2 DEF Thread
<1>4. IsFiniteSet(c) /\ Cardinality(c) <= MaxCandidates
  <2> DEFINE old == request[r].candidates
             added == old \cup {request[r].plan}
  <2>1. IsFiniteSet(added) /\ Cardinality(added) \in {Cardinality(old), Cardinality(old) + 1}
    BY <1>2, FS_AddElement
  <2>2. Cardinality(old) \in Nat  BY <1>2, FS_CardinalityType
  <2>3. c = old \/ c = added  OBVIOUS
  <2> HIDE DEF c, added
  <2> QED  BY <1>2, <2>1, <2>2, <2>3, ConstantsAssumption
<1>5. Becomes(r, t) /\ now' = now /\ UNCHANGED registry
  BY <1>1 DEF PlanEnds, Becomes, Thread
<1> HIDE DEF c
<1>6. t \in Thread /\ t.pc = "planning" /\ t.candidates = c  BY <1>1, <1>3 DEF Thread
<1> HIDE DEF t
<1>7. Sound(t)  BY <1>4, <1>6 DEF Sound
<1> QED  BY <1>5, <1>6, <1>7, ThreadBecomes, RegistryUnchanged DEF ThreadInv

LEMMA ThreadPlansComplete ==
    ASSUME ThreadInv, NEW r \in Requests, PlansComplete(r)
    PROVE  ThreadInv'
<1>1. request[r] \in Thread /\ Sound(request[r])  BY DEF ThreadInv
<1> DEFINE t == [request[r] EXCEPT !.pc = "scoring", !.untried = {},
                                   !.unscored = Cardinality(request[r].candidates)]
<1>2. Cardinality(request[r].candidates) \in Nat  BY <1>1, FS_CardinalityType DEF Sound
<1>3. t \in Thread /\ t.pc = "scoring" /\ t.candidates = request[r].candidates
  BY <1>1, <1>2 DEF Thread
<1>4. Becomes(r, t) /\ now' = now /\ UNCHANGED registry  BY DEF PlansComplete
<1> HIDE DEF t
<1>5. Sound(t)  BY <1>1, <1>3 DEF Sound
<1> QED  BY <1>3, <1>4, <1>5, ThreadBecomes, RegistryUnchanged DEF ThreadInv

LEMMA ThreadScored ==
    ASSUME ThreadInv, NEW r \in Requests, ScoredFromCache(r) \/ ScoredAfterFetch(r)
    PROVE  ThreadInv'
<1>1. request[r] \in Thread /\ Sound(request[r]) /\ request[r].unscored > 0
  BY DEF ThreadInv, ScoredFromCache, ScoredAfterFetch, Sound
<1> DEFINE u == request[r].unscored - 1
           t == [request[r] EXCEPT !.pc = "scoring", !.unscored = u,
                                   !.start = Never, !.fetched = Never]
<1>2. u \in Nat  BY <1>1 DEF Thread
<1>3. Becomes(r, t) /\ now' = now /\ UNCHANGED registry
  BY DEF ScoredFromCache, ScoredAfterFetch, Scored
<1> HIDE DEF u
<1>4. t \in Thread /\ t.pc = "scoring" /\ t.candidates = request[r].candidates
  BY <1>1, <1>2 DEF Thread
<1> HIDE DEF t
<1>5. Sound(t)  BY <1>1, <1>4 DEF Sound
<1> QED  BY <1>4, <1>3, <1>5, ThreadBecomes, RegistryUnchanged DEF ThreadInv

LEMMA ThreadFetches ==
    ASSUME ThreadInv, NEW r \in Requests,
           FetchStarts(r) \/ PolicyExported(r) \/ PolicyStored(r) \/ PolicyStamped(r)
    PROVE  ThreadInv'
<1>1. request[r] \in Thread /\ Sound(request[r]) /\ now \in Time  BY DEF ThreadInv
<1>2. CASE FetchStarts(r)
  <2> DEFINE t == [request[r] EXCEPT !.pc = "fetching", !.start = now, !.fetched = Never]
  <2>1. /\ t \in Thread /\ t.pc = "fetching" /\ t.candidates = request[r].candidates
        /\ t.unscored = request[r].unscored /\ t.start = now
    BY <1>1, <1>2 DEF FetchStarts, Thread
  <2>2. Becomes(r, t) /\ now' = now /\ UNCHANGED registry  BY <1>2 DEF FetchStarts
  <2>3. request[r].unscored > 0 /\ ("fetching" \in {"fetching", "stamping"} => t.start \in Time)
    BY <1>1, <1>2, <2>1 DEF FetchStarts, Sound
  <2> HIDE DEF t
  <2>4. Sound(t)  BY <1>1, <2>1, <2>3 DEF Sound
  <2> QED  BY <2>1, <2>2, <2>4, ThreadBecomes, RegistryUnchanged DEF ThreadInv
<1>3. CASE PolicyExported(r)
  <2> DEFINE t == [request[r] EXCEPT !.fetched = now]
  <2>1. /\ t \in Thread /\ t.pc = "fetching" /\ t.candidates = request[r].candidates
        /\ t.unscored = request[r].unscored /\ t.start = request[r].start
    BY <1>1, <1>3 DEF PolicyExported, Thread
  <2>2. Becomes(r, t) /\ now' = now /\ UNCHANGED registry  BY <1>3 DEF PolicyExported
  <2>3. request[r].unscored > 0 /\ ("fetching" \in {"fetching", "stamping"} => t.start \in Time)
    BY <1>1, <1>3, <2>1 DEF PolicyExported, Sound
  <2> HIDE DEF t
  <2>4. Sound(t)  BY <1>1, <2>1, <2>3 DEF Sound
  <2> QED  BY <2>1, <2>2, <2>4, ThreadBecomes, RegistryUnchanged DEF ThreadInv
<1>4. CASE PolicyStored(r)
  <2> DEFINE t == [request[r] EXCEPT !.pc = "stamping"]
  <2>1. /\ t \in Thread /\ t.pc = "stamping" /\ t.candidates = request[r].candidates
        /\ t.unscored = request[r].unscored /\ t.start = request[r].start
    BY <1>1, <1>4 DEF PolicyStored, Thread
  <2>2. Becomes(r, t) /\ now' = now /\ UNCHANGED registry  BY <1>4 DEF PolicyStored
  <2>3. request[r].unscored > 0 /\ ("stamping" \in {"fetching", "stamping"} => t.start \in Time)
    BY <1>1, <1>4, <2>1 DEF PolicyStored, Sound
  <2> HIDE DEF t
  <2>4. Sound(t)  BY <1>1, <2>1, <2>3 DEF Sound
  <2> QED  BY <2>1, <2>2, <2>4, ThreadBecomes, RegistryUnchanged DEF ThreadInv
<1>5. CASE PolicyStamped(r)
  <2> DEFINE t == [request[r] EXCEPT !.pc = "returning"]
  <2>1. /\ t \in Thread /\ t.pc = "returning" /\ t.candidates = request[r].candidates
        /\ t.unscored = request[r].unscored /\ t.start = request[r].start
    BY <1>1, <1>5 DEF PolicyStamped, Thread
  <2>2. Becomes(r, t) /\ now' = now /\ UNCHANGED registry  BY <1>5 DEF PolicyStamped
  <2>3. request[r].unscored > 0 /\ ("returning" \in {"fetching", "stamping"} => t.start \in Time)
    BY <1>1, <1>5, <2>1 DEF PolicyStamped, Sound
  <2> HIDE DEF t
  <2>4. Sound(t)  BY <1>1, <2>1, <2>3 DEF Sound
  <2> QED  BY <2>1, <2>2, <2>4, ThreadBecomes, RegistryUnchanged DEF ThreadInv
<1> QED  BY <1>2, <1>3, <1>4, <1>5

LEMMA ThreadAnswers ==
    ASSUME ThreadInv, NEW r \in Requests,
           ProposeFails(r) \/ \E best \in SUBSET request[r].candidates : Proposed(r, best)
    PROVE  ThreadInv'
<1>1. request[r] \in Thread  BY DEF ThreadInv
<1>2. CASE ProposeFails(r)
  <2> DEFINE t == [NewThread EXCEPT !.pc = "failed"]
  <2>1. t \in Thread /\ t.pc = "failed" /\ t.candidates = {}
    BY NewThreadTyped DEF Thread, NewThread
  <2>2. Becomes(r, t) /\ now' = now /\ UNCHANGED registry  BY <1>2 DEF ProposeFails
  <2> HIDE DEF t
  <2>3. Sound(t)  BY <2>1, ConstantsAssumption, FS_EmptySet DEF Sound
  <2> QED  BY <2>1, <2>2, <2>3, ThreadBecomes, RegistryUnchanged DEF ThreadInv
<1>3. ASSUME NEW best \in SUBSET request[r].candidates, Proposed(r, best)
      PROVE  ThreadInv'
  <2> DEFINE reply == best \cup (IF request[r].localToo THEN {LocalOnly} ELSE {})
             t == [request[r] EXCEPT !.pc = "done", !.candidates = {}, !.reply = reply]
  <2>1. reply \in SUBSET Plan  BY <1>1, LocalOnlyIsPlan DEF Thread
  <2>2. Becomes(r, t)  BY ONLY <1>3 DEF Proposed
  <2>5. now' = now /\ UNCHANGED registry  BY ONLY <1>3 DEF Proposed
  <2> HIDE DEF reply
  <2>3. t \in Thread /\ t.pc = "done" /\ t.candidates = {}  BY <1>1, <2>1 DEF Thread
  <2> HIDE DEF t
  <2>4. Sound(t)  BY <2>3, ConstantsAssumption, FS_EmptySet DEF Sound
  <2> QED  BY <2>2, <2>3, <2>4, <2>5, ThreadBecomes, RegistryUnchanged DEF ThreadInv
<1> QED  BY <1>2, <1>3

LEMMA ThreadOthers ==
    ASSUME ThreadInv, \/ Tick \/ UNCHANGED vars
                      \/ \E e \in Refs, d \in Descriptor \cup {None} : RegistryChanges(e, d)
    PROVE  ThreadInv'
<1>1. CASE Tick
  BY <1>1, ConstantsAssumption DEF Tick, registry, ThreadInv, RegistryTypes, Time, Sound
<1>2. CASE UNCHANGED vars
  BY <1>2 DEF vars, ThreadInv, RegistryTypes, Sound
<1>3. ASSUME NEW e \in Refs, NEW d \in Descriptor \cup {None}, RegistryChanges(e, d)
      PROVE  ThreadInv'
  <2>1. RegistryTypes'
    BY <1>3, ConstantsAssumption DEF RegistryChanges, ThreadInv, RegistryTypes
  <2> QED  BY <1>3, <2>1 DEF RegistryChanges, ThreadInv, Sound
<1> QED  BY <1>1, <1>2, <1>3

LEMMA ThreadNext ==
    ASSUME ThreadInv, [Next]_vars
    PROVE  ThreadInv'
BY ThreadProposes, ThreadPoolRead, ThreadPlanStarts, ThreadAdapterRead, ThreadLatencyRead,
   ThreadPlanEnds, ThreadPlansComplete, ThreadScored, ThreadFetches, ThreadAnswers, ThreadOthers
   DEF Next

-----------------------------------------------------------------------------
(* The age of the policy plans are scored with *)

ClockTypes ==
    /\ fetchedAt \in Time /\ policy \in Time \cup {Never} /\ oldest \in Time

\* A fetch lasts no longer than a call, and exports a policy meanwhile.
FetchInv(r) ==
    request[r].pc = "fetching" =>
        /\ request[r].start \in Nat
        /\ request[r].start <= now /\ now <= request[r].start + RpcTimeout
        /\ request[r].fetched # Never =>
              /\ request[r].fetched \in Nat
              /\ request[r].start <= request[r].fetched /\ request[r].fetched <= now

\* While a thread stores what it fetched, the cached policy is at most a call old,
\* whichever thread wrote it last.
StoreInv(r) ==
    request[r].pc \in {"stamping", "returning"} =>
        /\ request[r].start \in Nat /\ request[r].start <= now
        /\ policy # Never /\ now <= policy + RpcTimeout

\* The time of the cache runs ahead of its policy by at most a call.
StampInv ==
    /\ fetchedAt <= now
    /\ policy # Never => policy <= now /\ fetchedAt <= policy + RpcTimeout

AgeInv ==
    /\ ClockTypes
    /\ \A r \in Requests : FetchInv(r) /\ StoreInv(r)
    /\ StampInv
    /\ PolicyAgeBound

LEMMA AgeInit == Init => AgeInv
BY ConstantsAssumption
   DEF Init, AgeInv, ClockTypes, FetchInv, StoreInv, StampInv, PolicyAgeBound, NewThread, Never, Time

\* Steps of a thread outside the fetch.
LEMMA AgeElsewhere ==
    ASSUME AgeInv, UNCHANGED <<now, cache>>,
           \A q \in Requests : \/ request'[q] = request[q]
                               \/ request'[q].pc \notin {"fetching", "stamping", "returning"}
    PROVE  AgeInv'
BY DEF AgeInv, ClockTypes, FetchInv, StoreInv, StampInv, PolicyAgeBound, cache

LEMMA AgePlans ==
    ASSUME AgeInv, ThreadInv, NEW r \in Requests,
           \/ \E budget \in Budgets, n \in Wanted, localToo \in BOOLEAN, layers \in Selected :
                 ProposeCombinations(r, budget, n, localToo, layers)
           \/ \E l \in Layers, pool \in SUBSET Refs : PoolRead(r, l, pool)
           \/ \E c \in request[r].untried : PlanStarts(r, c)
           \/ \E l \in request[r].unread : AdapterRead(r, l) \/ LatencyRead(r, l)
           \/ PlanEnds(r) \/ PlansComplete(r)
           \/ \E best \in SUBSET request[r].candidates : Proposed(r, best)
           \/ ProposeFails(r)
    PROVE  AgeInv'
<1> DEFINE Elsewhere == request'[r].pc \notin {"fetching", "stamping", "returning"}
<1>1. request \in [Requests -> Thread] /\ request[r] \in Thread  BY DEF ThreadInv
<1>2. Elsewhere
  <2>1. ASSUME NEW budget, NEW n, NEW localToo, NEW layers,
               ProposeCombinations(r, budget, n, localToo, layers)
        PROVE  Elsewhere
    BY <1>1, <2>1 DEF ProposeCombinations, Pooled, Thread, Becomes
  <2>2. ASSUME NEW l, NEW pool, PoolRead(r, l, pool)
        PROVE  Elsewhere
    BY <1>1, <2>2 DEF PoolRead, Pooled, Thread, Becomes
  <2>3. ASSUME NEW c, PlanStarts(r, c)
        PROVE  Elsewhere
    BY <1>1, <2>3 DEF PlanStarts, Thread, Becomes
  <2>4. ASSUME NEW l, AdapterRead(r, l)
        PROVE  Elsewhere
    BY <1>1, <2>4 DEF AdapterRead, Thread, Becomes
  <2>5. ASSUME NEW l, LatencyRead(r, l)
        PROVE  Elsewhere
    BY <1>1, <2>5 DEF LatencyRead, Thread, Becomes
  <2>6. ASSUME PlanEnds(r)
        PROVE  Elsewhere
    BY <1>1, <2>6 DEF PlanEnds, Thread, Becomes
  <2>9. ASSUME PlansComplete(r)
        PROVE  Elsewhere
    BY <1>1, <2>9 DEF PlansComplete, Thread, Becomes
  <2>7. ASSUME NEW best, Proposed(r, best)
        PROVE  Elsewhere
    BY <1>1, <2>7 DEF Proposed, Thread, Becomes
  <2>8. ASSUME ProposeFails(r)
        PROVE  Elsewhere
    BY <1>1, <2>8 DEF ProposeFails, NewThread, Becomes
  <2> QED  BY <2>1, <2>2, <2>3, <2>4, <2>5, <2>6, <2>7, <2>8, <2>9
<1>3. \A q \in Requests : q # r => request'[q] = request[q]
  BY <1>1 DEF ProposeCombinations, PoolRead, PlanStarts, AdapterRead, LatencyRead, PlanEnds,
              PlansComplete, Proposed, ProposeFails, Becomes
<1>4. UNCHANGED <<now, cache>>
  BY DEF ProposeCombinations, PoolRead, PlanStarts, AdapterRead, LatencyRead, PlanEnds,
         PlansComplete, Proposed, ProposeFails
<1> QED  BY <1>2, <1>3, <1>4, AgeElsewhere

\* The thread that scores finds the policy less than TTL and deadline old.
LEMMA AgeScoring ==
    ASSUME AgeInv, ThreadInv, NEW r \in Requests, ScoredFromCache(r) \/ ScoredAfterFetch(r)
    PROVE  AgeInv'
<1> DEFINE age == now - policy
<1>1. policy \in Time /\ age \in Time /\ age < PolicyTtl + RpcTimeout
  BY ConstantsAssumption
     DEF AgeInv, ThreadInv, ClockTypes, StoreInv, StampInv, ScoredFromCache, ScoredAfterFetch,
         CacheFresh, Time
<1>2. oldest' \in {oldest, age} /\ UNCHANGED <<now, policy, fetchedAt>>
  BY DEF ScoredFromCache, ScoredAfterFetch, Scored
<1> HIDE DEF age
<1>3. request'[r].pc = "scoring" /\ \A q \in Requests : q # r => request'[q] = request[q]
  BY DEF ScoredFromCache, ScoredAfterFetch, Scored, Becomes, ThreadInv, Thread
<1> QED  BY <1>1, <1>2, <1>3
            DEF AgeInv, ClockTypes, FetchInv, StoreInv, StampInv, PolicyAgeBound

LEMMA AgeFetching ==
    ASSUME AgeInv, ThreadInv, NEW r \in Requests,
           FetchStarts(r) \/ PolicyExported(r) \/ PolicyStored(r) \/ PolicyStamped(r)
    PROVE  AgeInv'
<1> USE ConstantsAssumption DEF AgeInv, ClockTypes, FetchInv, StoreInv, StampInv, PolicyAgeBound
<1>1. request \in [Requests -> Thread] /\ request[r] \in Thread /\ now \in Time
  BY DEF ThreadInv
<1>2. \A q \in Requests : q # r => request'[q] = request[q]
  BY <1>1 DEF FetchStarts, PolicyExported, PolicyStored, PolicyStamped, Becomes
<1>3. CASE FetchStarts(r)
  <2>1. request'[r].pc = "fetching" /\ request'[r].start = now /\ request'[r].fetched = Never
    BY <1>1, <1>3 DEF FetchStarts, Becomes, Thread
  <2>2. UNCHANGED <<now, cache>>  BY <1>3 DEF FetchStarts
  <2> QED  BY <1>1, <1>2, <2>1, <2>2 DEF cache, Time
<1>4. CASE PolicyExported(r)
  <2>1. /\ request[r].pc = "fetching" /\ request'[r].pc = "fetching"
        /\ request'[r].start = request[r].start /\ request'[r].fetched = now
    BY <1>1, <1>4 DEF PolicyExported, Becomes, Thread
  <2>2. UNCHANGED <<now, cache>>  BY <1>4 DEF PolicyExported
  <2> QED  BY <1>1, <1>2, <2>1, <2>2 DEF cache, Time
<1>5. CASE PolicyStored(r)
  <2>1. /\ request[r].pc = "fetching" /\ request'[r].pc = "stamping"
        /\ request'[r].start = request[r].start /\ policy' = request[r].fetched
    BY <1>1, <1>5 DEF PolicyStored, Becomes, Thread
  <2>2. UNCHANGED <<now, fetchedAt, oldest>> /\ request[r].fetched # Never
    BY <1>5 DEF PolicyStored
  <2>3. policy' \in Time /\ policy' # Never /\ policy' <= now /\ now <= policy' + RpcTimeout
    BY <1>1, <2>1, <2>2 DEF Thread, Time
  <2> QED  BY <1>1, <1>2, <2>1, <2>2, <2>3 DEF Time
<1>6. CASE PolicyStamped(r)
  <2>1. /\ request[r].pc = "stamping" /\ request'[r].pc = "returning"
        /\ request'[r].start = request[r].start /\ fetchedAt' = request[r].start
    BY <1>1, <1>6 DEF PolicyStamped, Becomes, Thread
  <2>2. UNCHANGED <<now, policy, oldest>>  BY <1>6 DEF PolicyStamped
  <2> QED  BY <1>1, <1>2, <2>1, <2>2 DEF Time
<1> QED  BY <1>3, <1>4, <1>5, <1>6

\* No time passes while a thread stores, nor beyond the deadline of one that fetches.
LEMMA AgeTick ==
    ASSUME AgeInv, ThreadInv, Tick
    PROVE  AgeInv'
BY ConstantsAssumption
   DEF Tick, Busy, AtDeadline, cache, AgeInv, ThreadInv, ClockTypes, FetchInv, StoreInv,
       StampInv, PolicyAgeBound, Time

LEMMA AgeNext ==
    ASSUME AgeInv, ThreadInv, [Next]_vars
    PROVE  AgeInv'
<1>1. ASSUME NEW e \in Refs, NEW d \in Descriptor \cup {None}, RegistryChanges(e, d)
      PROVE  AgeInv'
  BY <1>1, AgeElsewhere DEF RegistryChanges
<1>2. CASE UNCHANGED vars
  BY <1>2, AgeElsewhere DEF vars, cache
<1> QED  BY <1>1, <1>2, AgePlans, AgeScoring, AgeFetching, AgeTick DEF Next

-----------------------------------------------------------------------------
(* What plans borrow *)

\* The registry admits an expert to a layer, or changed what it says of it.
Usable(e, l, seen, said) ==
    \/ e \in seen
    \/ Compat = "free"
    \/ LayerOf[e] = l
    \/ Compat = "any_with_adapter" /\ said[e] # None /\ said[e].adapter

Settled(p, l, seen) == Compatible(p, l) \/ p.route[l] \in seen

\* What a thread has read so far, given the experts routable since its request came
\* (known), those changed since (seen), and what the registry says now (said).
Offers(t, known, seen, said) ==
    /\ \A l \in Layers : \A e \in t.pools[l] : e \in known /\ Usable(e, l, seen, said)
    /\ \A c \in t.untried : \A l \in DOMAIN c.route :
          c.route[l] \in known /\ Usable(c.route[l], l, seen, said)
    /\ t.pc \in {"adapters", "latencies"} => \A l \in DOMAIN t.plan.route :
          /\ t.plan.route[l] \in known /\ Usable(t.plan.route[l], l, seen, said)
          /\ \/ t.pc = "adapters" /\ l \in t.unread
             \/ Settled(t.plan, l, seen)
    /\ \A p \in t.candidates \cup t.reply : \A l \in DOMAIN p.route :
          p.route[l] \in known /\ Settled(p, l, seen)

OfferInv ==
    \A r \in Requests :
        /\ Offers(request[r], routed[r], touched[r], described)
        /\ IF request[r].pc = "waiting" THEN request[r] = NewThread ELSE Routable \subseteq routed[r]

LEMMA NothingOffered ==
    ASSUME NEW known, NEW seen, NEW said, NEW t,
           t.pools = NoPools, t.untried = {}, t.pc \notin {"adapters", "latencies"},
           t.candidates \subseteq {LocalOnly}, t.reply = {}
    PROVE  Offers(t, known, seen, said)
<1>1. DOMAIN LocalOnly.route = {}  BY DEF LocalOnly
<1> QED  BY <1>1 DEF Offers, NoPools

LEMMA OfferInit == Init => OfferInv
<1>1. \A known, seen, said : Offers(NewThread, known, seen, said)
  <2>1. /\ NewThread.pools = NoPools /\ NewThread.untried = {} /\ NewThread.pc = "waiting"
        /\ NewThread.candidates = {} /\ NewThread.reply = {}
    BY DEF NewThread
  <2> QED  BY <2>1, NothingOffered
<1>2. NewThread.pc = "waiting"  BY DEF NewThread
<1> QED  BY <1>1, <1>2 DEF Init, OfferInv

\* A step of one thread while the registry stays as it is.
LEMMA OfferBecomes ==
    ASSUME OfferInv, request \in [Requests -> Thread], NEW r \in Requests, NEW t,
           Becomes(r, t), UNCHANGED registry, request[r].pc # "waiting", t.pc # "waiting",
           Offers(t, routed[r], touched[r], described)
    PROVE  OfferInv'
<1>1. request' = [request EXCEPT ![r] = t] /\ UNCHANGED <<routed, touched, described>>
  BY DEF Becomes, registry
<1>2. Routable' = Routable  BY <1>1 DEF Routable, Described
<1> QED  BY <1>1, <1>2 DEF OfferInv

LEMMA OfferPooled ==
    ASSUME NEW t \in Thread, t.pc = "pooling", NEW known, NEW seen, NEW said,
           Offers(t, known, seen, said)
    PROVE  Offers(Pooled(t), known, seen, said) /\ Pooled(t).pc # "waiting"
<1>1. CASE t.unpooled # {}
  BY <1>1 DEF Pooled
<1>2. CASE t.unpooled = {}
  <2> DEFINE u == Combinations(t.pools)
             p == [t EXCEPT !.pc = "planning", !.untried = u, !.pools = NoPools]
  <2>1. \A c \in u : \A l \in DOMAIN c.route : l \in Layers /\ c.route[l] \in t.pools[l]
    BY DEF Combinations, Candidate, Route
  <2>2. Pooled(t) = p  BY <1>2 DEF Pooled
  <2> HIDE DEF u
  <2>3. /\ p.pc = "planning" /\ p.untried = u /\ p.pools = NoPools
        /\ p.candidates = t.candidates /\ p.reply = t.reply
    BY DEF Thread
  <2> HIDE DEF p
  <2>4. \A l \in Layers : NoPools[l] = {}  BY DEF NoPools
  <2> QED  BY <1>2, <2>1, <2>2, <2>3, <2>4 DEF Offers
<1> QED  BY <1>1, <1>2

LEMMA OfferProposes ==
    ASSUME OfferInv, ThreadInv, NEW r \in Requests, NEW budget \in Budgets, NEW n \in Wanted,
           NEW localToo \in BOOLEAN, NEW layers \in Selected,
           ProposeCombinations(r, budget, n, localToo, layers)
    PROVE  OfferInv'
<1> DEFINE b == Received(budget)
           w == OrDefault(n, DefaultWanted)
           cs == IF localToo THEN {LocalOnly} ELSE {}
           t == [request[r] EXCEPT !.pc = "pooling", !.budget = b, !.wanted = w,
                                   !.localToo = localToo, !.unpooled = layers, !.candidates = cs]
<1>1. /\ request' = [request EXCEPT ![r] = Pooled(t)] /\ request[r] = NewThread
      /\ routed' = [routed EXCEPT ![r] = Routable] /\ UNCHANGED <<touched, described>>
  BY DEF ProposeCombinations, Becomes, OfferInv
<1>2. Routable' = Routable  BY <1>1 DEF Routable, Described
<1>3. cs \subseteq {LocalOnly}  OBVIOUS
<1>4. b \in [remotes : Nat, latency : Nat, soft : BOOLEAN] /\ w \in Nat /\ cs \in SUBSET Plan
      /\ layers \in SUBSET Layers /\ request[r] \in Thread
  BY ConstantsAssumption, LocalOnlyIsPlan DEF Received, OrDefault, ThreadInv
<1> HIDE DEF b, w, cs
<1>5. /\ request[r].pools = NoPools /\ request[r].untried = {} /\ request[r].reply = {}
  BY <1>1 DEF NewThread
<1>6. /\ t \in Thread /\ t.pc = "pooling" /\ t.candidates = cs /\ t.pools = NoPools
      /\ t.untried = {} /\ t.reply = {}
  <2>1. t \in Thread /\ t.pc = "pooling" /\ t.candidates = cs  BY <1>4 DEF Thread
  <2>2. /\ t.pools = request[r].pools /\ t.untried = request[r].untried
        /\ t.reply = request[r].reply
    BY <1>4 DEF Thread
  <2> QED  BY <1>5, <2>1, <2>2
<1> HIDE DEF t
<1>7. Offers(t, Routable, touched[r], described)  BY <1>3, <1>6, NothingOffered
<1>8. Offers(Pooled(t), Routable, touched[r], described) /\ Pooled(t).pc # "waiting"
  BY <1>6, <1>7, OfferPooled
<1>9. request \in [Requests -> Thread] /\ routed \in [Requests -> SUBSET Refs]
  BY DEF ThreadInv, RegistryTypes
<1> QED  BY <1>1, <1>2, <1>8, <1>9 DEF OfferInv

LEMMA OfferPoolRead ==
    ASSUME OfferInv, ThreadInv, NEW r \in Requests, NEW l \in Layers, NEW pool \in SUBSET Refs,
           PoolRead(r, l, pool)
    PROVE  OfferInv'
<1> DEFINE ps == [request[r].pools EXCEPT ![l] = pool]
           u == request[r].unpooled \ {l}
           t == [request[r] EXCEPT !.unpooled = u, !.pools = ps]
<1>1. request[r] \in Thread /\ request[r].pc = "pooling" /\ Routable \subseteq routed[r]
  BY DEF ThreadInv, PoolRead, OfferInv
<1>2. ps \in [Layers -> SUBSET Refs] /\ u \in SUBSET Layers  BY <1>1 DEF Thread
<1>3. Becomes(r, Pooled(t)) /\ UNCHANGED registry  BY DEF PoolRead
<1>4. \A e \in pool : e \in routed[r] /\ Usable(e, l, touched[r], described)
  BY <1>1 DEF PoolRead, Admitted, LayerOk, Routable, Described, Usable
<1>5. ps[l] = pool /\ \A k \in Layers : k # l => ps[k] = request[r].pools[k]
  BY <1>1 DEF Thread
<1> HIDE DEF ps, u
<1>6. /\ t \in Thread /\ t.pc = "pooling" /\ t.pools = ps /\ t.untried = request[r].untried
      /\ t.candidates = request[r].candidates /\ t.reply = request[r].reply
  BY <1>1, <1>2 DEF Thread
<1> HIDE DEF t
<1>7. Offers(t, routed[r], touched[r], described)
  BY <1>1, <1>4, <1>5, <1>6 DEF OfferInv, Offers
<1> QED  BY <1>1, <1>3, <1>6, <1>7, OfferPooled, OfferBecomes DEF ThreadInv

LEMMA OfferPlanStarts ==
    ASSUME OfferInv, ThreadInv, NEW r \in Requests, NEW c \in request[r].untried, PlanStarts(r, c)
    PROVE  OfferInv'
<1> DEFINE p == [route |-> c.route, op |-> c.op, adapters |-> {}, latency |-> 0]
           u == request[r].untried \ {c}
           t == [request[r] EXCEPT !.pc = "adapters", !.untried = u,
                                   !.unread = DOMAIN c.route, !.plan = p]
<1>1. request[r] \in Thread /\ request[r].pc = "planning"  BY DEF ThreadInv, PlanStarts
<1>2. Becomes(r, t) /\ UNCHANGED registry  BY DEF PlanStarts
<1>3. p.route = c.route /\ u \subseteq request[r].untried  OBVIOUS
<1> HIDE DEF p, u
<1>4. /\ t.pc = "adapters" /\ t.plan = p /\ t.unread = DOMAIN c.route /\ t.untried = u
      /\ t.pools = request[r].pools
      /\ t.candidates = request[r].candidates /\ t.reply = request[r].reply
  BY <1>1 DEF Thread
<1> HIDE DEF t
<1>5. Offers(t, routed[r], touched[r], described)
  BY <1>1, <1>3, <1>4 DEF OfferInv, Offers
<1> QED  BY <1>1, <1>2, <1>4, <1>5, OfferBecomes DEF ThreadInv

\* Having read the expert of a layer, the plan has its adapter if it needs one.
LEMMA OfferAdapterRead ==
    ASSUME OfferInv, ThreadInv, NEW r \in Requests, NEW l \in request[r].unread, AdapterRead(r, l)
    PROVE  OfferInv'
<1>1. /\ request[r] \in Thread /\ request[r].pc = "adapters" /\ request[r].plan \in Plan
      /\ l \in DOMAIN request[r].plan.route
      /\ Offers(request[r], routed[r], touched[r], described)
  BY DEF ThreadInv, Sound, AdapterRead, OfferInv
<1> DEFINE d == described[request[r].plan.route[l]]
           last == request[r].unread = {l}
           a == IF d # None /\ d.adapter THEN request[r].plan.adapters \cup {l}
                ELSE request[r].plan.adapters
           p == [request[r].plan EXCEPT !.adapters = a]
           pc == IF last THEN "latencies" ELSE request[r].pc
           u == IF last THEN DOMAIN request[r].plan.route ELSE request[r].unread \ {l}
           t == [request[r] EXCEPT !.pc = pc, !.unread = u, !.plan = p]
<1>2. Becomes(r, t) /\ UNCHANGED registry  BY <1>1 DEF AdapterRead, Becomes, Thread, Plan
<1>3. p.route = request[r].plan.route /\ p.adapters = a  BY <1>1 DEF Plan
<1>4. request[r].plan.adapters \subseteq a /\ (d # None /\ d.adapter => l \in a)  OBVIOUS
<1>5. /\ pc \in {"adapters", "latencies"}
      /\ \A k \in request[r].unread : k = l \/ (pc = "adapters" /\ k \in u)
  BY <1>1
<1> HIDE DEF a, p, pc, u
<1>6. /\ t.pc = pc /\ t.plan = p /\ t.unread = u /\ t.untried = request[r].untried
      /\ t.pools = request[r].pools
      /\ t.candidates = request[r].candidates /\ t.reply = request[r].reply
  BY <1>1 DEF Thread
<1> HIDE DEF t
<1>7. Settled(p, l, touched[r])
  BY <1>1, <1>3, <1>4 DEF Offers, Usable, Settled, Compatible
<1>8. \A k \in DOMAIN p.route :
         /\ p.route[k] \in routed[r] /\ Usable(p.route[k], k, touched[r], described)
         /\ (pc = "adapters" /\ k \in u) \/ Settled(p, k, touched[r])
  BY <1>1, <1>3, <1>4, <1>5, <1>7 DEF Offers, Settled, Compatible
<1>9. Offers(t, routed[r], touched[r], described)
  BY <1>1, <1>6, <1>8 DEF Offers
<1> QED  BY <1>1, <1>2, <1>5, <1>6, <1>9, OfferBecomes DEF ThreadInv

LEMMA OfferLatencyRead ==
    ASSUME OfferInv, ThreadInv, NEW r \in Requests, NEW l \in request[r].unread, LatencyRead(r, l)
    PROVE  OfferInv'
<1>1. /\ request[r] \in Thread /\ request[r].pc = "latencies" /\ request[r].plan \in Plan
      /\ Offers(request[r], routed[r], touched[r], described)
  BY DEF ThreadInv, Sound, LatencyRead, OfferInv
<1> DEFINE d == described[request[r].plan.route[l]]
           lat == request[r].plan.latency + IF d # None THEN d.latency ELSE UnknownLatency
           p == [request[r].plan EXCEPT !.latency = lat]
           u == request[r].unread \ {l}
           t == [request[r] EXCEPT !.unread = u, !.plan = p]
<1>2. Becomes(r, t) /\ UNCHANGED registry  BY <1>1 DEF LatencyRead, Becomes, Thread, Plan
<1> HIDE DEF lat
<1>3. p.route = request[r].plan.route /\ p.adapters = request[r].plan.adapters  BY <1>1 DEF Plan
<1> HIDE DEF p, u
<1>4. /\ t.pc = "latencies" /\ t.plan = p /\ t.untried = request[r].untried
      /\ t.pools = request[r].pools
      /\ t.candidates = request[r].candidates /\ t.reply = request[r].reply
  BY <1>1 DEF Thread
<1> HIDE DEF t
<1>5. Offers(t, routed[r], touched[r], described)
  BY <1>1, <1>3, <1>4 DEF Offers, Settled, Compatible
<1> QED  BY <1>1, <1>2, <1>4, <1>5, OfferBecomes DEF ThreadInv

LEMMA OfferPlanEnds ==
    ASSUME OfferInv, ThreadInv, NEW r \in Requests, PlanEnds(r)
    PROVE  OfferInv'
<1>1. /\ request[r] \in Thread /\ request[r].pc = "latencies"
      /\ Offers(request[r], routed[r], touched[r], described)
  BY DEF ThreadInv, PlanEnds, OfferInv
<1> DEFINE c == IF Infeasible(request[r].plan, request[r].budget) THEN request[r].candidates
                ELSE request[r].candidates \cup {request[r].plan}
           t == [request[r] EXCEPT !.pc = "planning", !.plan = None, !.unread = {},
                                   !.candidates = c]
<1>2. Becomes(r, t) /\ UNCHANGED registry  BY <1>1 DEF PlanEnds, Becomes, Thread
<1>3. c \subseteq request[r].candidates \cup {request[r].plan}  OBVIOUS
<1> HIDE DEF c
<1>4. /\ t.pc = "planning" /\ t.untried = request[r].untried /\ t.pools = request[r].pools
      /\ t.candidates = c /\ t.reply = request[r].reply
  BY <1>1 DEF Thread
<1> HIDE DEF t
<1>5. Offers(t, routed[r], touched[r], described)
  BY <1>1, <1>3, <1>4 DEF Offers
<1> QED  BY <1>1, <1>2, <1>4, <1>5, OfferBecomes DEF ThreadInv

LEMMA OfferAnswers ==
    ASSUME OfferInv, ThreadInv, NEW r \in Requests, NEW best \in SUBSET request[r].candidates,
           Proposed(r, best)
    PROVE  OfferInv'
<1>1. /\ request[r] \in Thread /\ request[r].pc = "scoring"
      /\ Offers(request[r], routed[r], touched[r], described)
  BY DEF ThreadInv, Proposed, OfferInv
<1> DEFINE reply == best \cup (IF request[r].localToo THEN {LocalOnly} ELSE {})
           t == [request[r] EXCEPT !.pc = "done", !.candidates = {}, !.reply = reply]
<1>2. Becomes(r, t)  BY DEF Proposed
<1>3. UNCHANGED registry  BY DEF Proposed
<1>4. reply \subseteq request[r].candidates \cup {LocalOnly}  OBVIOUS
<1> HIDE DEF reply
<1>5. /\ t.pc = "done" /\ t.untried = request[r].untried /\ t.pools = request[r].pools
      /\ t.candidates = {} /\ t.reply = reply
  BY <1>1 DEF Thread
<1> HIDE DEF t
<1>6. DOMAIN LocalOnly.route = {}  BY DEF LocalOnly
<1>7. Offers(t, routed[r], touched[r], described)
  BY <1>1, <1>4, <1>5, <1>6 DEF Offers
<1> QED  BY <1>1, <1>2, <1>3, <1>5, <1>7, OfferBecomes DEF ThreadInv

\* Steps that leave what the thread has read alone, and a failure, which drops it.
LEMMA OfferScores ==
    ASSUME OfferInv, ThreadInv, NEW r \in Requests,
           \/ PlansComplete(r) \/ ScoredFromCache(r) \/ ScoredAfterFetch(r)
           \/ FetchStarts(r) \/ PolicyExported(r) \/ PolicyStored(r) \/ PolicyStamped(r)
           \/ ProposeFails(r)
    PROVE  OfferInv'
<1>1. /\ request \in [Requests -> Thread] /\ request[r] \in Thread
      /\ Offers(request[r], routed[r], touched[r], described)
  BY DEF ThreadInv, OfferInv
<1> DEFINE t == request'[r]
<1>2. UNCHANGED registry
  BY DEF PlansComplete, ScoredFromCache, ScoredAfterFetch, Scored, FetchStarts, PolicyExported,
         PolicyStored, PolicyStamped, ProposeFails
<1>3. Becomes(r, t)
  BY <1>1 DEF PlansComplete, ScoredFromCache, ScoredAfterFetch, Scored, FetchStarts,
              PolicyExported, PolicyStored, PolicyStamped, ProposeFails, Becomes
<1>4. request[r].pc # "waiting"
  BY DEF PlansComplete, ScoredFromCache, ScoredAfterFetch, FetchStarts, PolicyExported,
         PolicyStored, PolicyStamped, ProposeFails
<1>5. CASE ProposeFails(r)
  <2>1. /\ t.pools = NoPools /\ t.untried = {} /\ t.pc = "failed"
        /\ t.candidates = {} /\ t.reply = {}
    BY <1>1, <1>5 DEF ProposeFails, Becomes, NewThread
  <2> HIDE DEF t
  <2>2. Offers(t, routed[r], touched[r], described)  BY <2>1, NothingOffered
  <2> QED  BY <1>1, <1>2, <1>3, <1>4, <2>1, <2>2, OfferBecomes
<1>6. CASE ~ProposeFails(r)
  <2>1. /\ t.pools = request[r].pools /\ t.untried \subseteq request[r].untried
        /\ t.pc \in {"scoring", "fetching", "stamping", "returning"}
        /\ t.candidates = request[r].candidates /\ t.reply = request[r].reply
    <3>1. CASE PlansComplete(r)
      BY <1>1, <3>1 DEF PlansComplete, Becomes, Thread
    <3>2. CASE ScoredFromCache(r)
      BY <1>1, <3>2 DEF ScoredFromCache, Scored, Becomes, Thread
    <3>3. CASE ScoredAfterFetch(r)
      BY <1>1, <3>3 DEF ScoredAfterFetch, Scored, Becomes, Thread
    <3>4. CASE FetchStarts(r)
      BY <1>1, <3>4 DEF FetchStarts, Becomes, Thread
    <3>5. CASE PolicyExported(r)
      BY <1>1, <3>5 DEF PolicyExported, Becomes, Thread
    <3>6. CASE PolicyStored(r)
      BY <1>1, <3>6 DEF PolicyStored, Becomes, Thread
    <3>7. CASE PolicyStamped(r)
      BY <1>1, <3>7 DEF PolicyStamped, Becomes, Thread
    <3> QED  BY <1>6, <3>1, <3>2, <3>3, <3>4, <3>5, <3>6, <3>7
  <2> HIDE DEF t
  <2>2. Offers(t, routed[r], touched[r], described)  BY <1>1, <2>1 DEF Offers
  <2> QED  BY <1>1, <1>2, <1>3, <1>4, <2>1, <2>2, OfferBecomes
<1> QED  BY <1>5, <1>6

\* A change makes the expert one that changed; nothing routable is forgotten.
LEMMA OfferRegistryChanges ==
    ASSUME OfferInv, ThreadInv, NEW e \in Refs, NEW d \in Descriptor \cup {None},
           RegistryChanges(e, d)
    PROVE  OfferInv'
<1> SUFFICES ASSUME NEW r \in Requests
             PROVE  /\ Offers(request[r], routed'[r], touched'[r], described')
                    /\ IF request[r].pc = "waiting" THEN request[r] = NewThread
                       ELSE Routable' \subseteq routed'[r]
  BY DEF RegistryChanges, OfferInv
<1>1. /\ routed[r] \subseteq routed'[r]
      /\ described' = [described EXCEPT ![e] = d]
      /\ described \in [Refs -> Descriptor \cup {None}]
      /\ d # None /\ d.routable => e \in routed'[r]
  BY DEF RegistryChanges, ThreadInv, RegistryTypes
<1>2. CASE request[r].pc = "waiting"
  <2>1. request[r] = NewThread  BY <1>2 DEF OfferInv
  <2>2. /\ NewThread.pools = NoPools /\ NewThread.untried = {} /\ NewThread.pc = "waiting"
        /\ NewThread.candidates = {} /\ NewThread.reply = {}
    BY DEF NewThread
  <2> QED  BY <1>2, <2>1, <2>2, NothingOffered
<1>3. CASE request[r].pc # "waiting"
  <2>1. touched[r] \subseteq touched'[r] /\ e \in touched'[r]
    BY <1>3 DEF RegistryChanges, ThreadInv, RegistryTypes
  <2>2. Routable' \subseteq routed'[r]
    BY <1>1, <1>3 DEF OfferInv, Routable, Described
  <2>3. \A x, l : x \in Refs /\ Usable(x, l, touched[r], described)
                     => Usable(x, l, touched'[r], described')
    BY <1>1, <2>1 DEF Usable
  <2>4. \A p, l : Settled(p, l, touched[r]) => Settled(p, l, touched'[r])
    BY <2>1 DEF Settled
  <2>5. \A x \in routed[r] : x \in Refs  BY DEF ThreadInv, RegistryTypes
  <2>6. Offers(request[r], routed[r], touched[r], described)  BY DEF OfferInv
  <2>7. Offers(request[r], routed'[r], touched'[r], described')
    BY <1>1, <2>3, <2>4, <2>5, <2>6 DEF Offers
  <2> QED  BY <1>3, <2>2, <2>7
<1> QED  BY <1>2, <1>3

LEMMA OfferNext ==
    ASSUME OfferInv, ThreadInv, [Next]_vars
    PROVE  OfferInv'
<1>1. CASE Tick \/ UNCHANGED vars
  BY <1>1 DEF Tick, vars, registry, OfferInv, Routable, Described
<1> QED  BY <1>1, OfferProposes, OfferPoolRead, OfferPlanStarts, OfferAdapterRead,
            OfferLatencyRead, OfferPlanEnds, OfferAnswers, OfferScores, OfferRegistryChanges
         DEF Next

-----------------------------------------------------------------------------
(* What requests are promised *)

Kept(p, budget) == Size(p) \in 1..MaxLayers /\ ~Infeasible(p, budget)

\* What a thread has built so far: plans within the budget as received.
Promises(t) ==
    /\ t.pc \notin {"waiting", "failed"} =>
          t.budget \in [remotes : Nat, latency : Nat, soft : BOOLEAN] /\ t.wanted \in Nat \ {0}
    /\ t.pc = "waiting" => t.untried = {}
    /\ \A c \in t.untried : Size(c) \in 1..MaxLayers
    /\ t.pc \in {"adapters", "latencies"} => Size(t.plan) \in 1..MaxLayers
    /\ \A p \in t.candidates \ {LocalOnly} : Kept(p, t.budget)
    /\ t.pc = "done" =>
          /\ Cardinality(t.reply) <= t.wanted
          /\ t.localToo => LocalOnly \in t.reply
          /\ \A p \in t.reply \ {LocalOnly} : Kept(p, t.budget)

PromiseInv == \A r \in Requests : Promises(request[r])

LEMMA PromiseInit == Init => PromiseInv
<1>1. Promises(NewThread)  BY DEF Promises, NewThread
<1> QED  BY <1>1 DEF Init, PromiseInv

LEMMA PromiseBecomes ==
    ASSUME PromiseInv, request \in [Requests -> Thread], NEW r \in Requests, NEW t,
           Becomes(r, t), Promises(t)
    PROVE  PromiseInv'
<1>1. \A q \in Requests : request'[q] = request[q] \/ request'[q] = t
  BY DEF Becomes
<1> QED  BY <1>1 DEF PromiseInv

LEMMA PromisePooled ==
    ASSUME NEW t \in Thread, t.pc = "pooling", Promises(t)
    PROVE  Promises(Pooled(t))
<1>1. CASE t.unpooled # {}
  BY <1>1 DEF Pooled
<1>2. CASE t.unpooled = {}
  <2> DEFINE u == Combinations(t.pools)
             p == [t EXCEPT !.pc = "planning", !.untried = u, !.pools = NoPools]
  <2>1. \A c \in u : Size(c) \in 1..MaxLayers  BY DEF Combinations
  <2>2. Pooled(t) = p  BY <1>2 DEF Pooled
  <2> HIDE DEF u
  <2>3. /\ p.pc = "planning" /\ p.untried = u /\ p.candidates = t.candidates
        /\ p.budget = t.budget /\ p.wanted = t.wanted
    BY DEF Thread
  <2> HIDE DEF p
  <2> QED  BY <2>1, <2>2, <2>3 DEF Promises
<1> QED  BY <1>1, <1>2

LEMMA PromiseProposes ==
    ASSUME PromiseInv, ThreadInv, NEW r \in Requests, NEW budget \in Budgets, NEW n \in Wanted,
           NEW localToo \in BOOLEAN, NEW layers \in Selected,
           ProposeCombinations(r, budget, n, localToo, layers)
    PROVE  PromiseInv'
<1> DEFINE b == Received(budget)
           w == OrDefault(n, DefaultWanted)
           cs == IF localToo THEN {LocalOnly} ELSE {}
           t == [request[r] EXCEPT !.pc = "pooling", !.budget = b, !.wanted = w,
                                   !.localToo = localToo, !.unpooled = layers, !.candidates = cs]
<1>1. request[r] \in Thread /\ request[r].untried = {} /\ Becomes(r, Pooled(t))
  BY DEF ProposeCombinations, ThreadInv, PromiseInv, Promises
<1>2. b \in [remotes : Nat, latency : Nat, soft : BOOLEAN]
  BY ConstantsAssumption DEF Received, OrDefault
<1>3. w \in Nat \ {0} /\ layers \in SUBSET Layers
  BY ConstantsAssumption DEF OrDefault
<1>4. cs \in SUBSET Plan /\ cs \subseteq {LocalOnly}  BY LocalOnlyIsPlan
<1> HIDE DEF b, w, cs
<1>5. /\ t \in Thread /\ t.pc = "pooling" /\ t.candidates = cs /\ t.budget = b /\ t.wanted = w
      /\ t.untried = request[r].untried
  BY <1>1, <1>2, <1>3, <1>4 DEF Thread
<1> HIDE DEF t
<1>6. Promises(t)  BY <1>1, <1>2, <1>3, <1>4, <1>5 DEF Promises
<1> QED  BY <1>1, <1>5, <1>6, PromisePooled, PromiseBecomes DEF ThreadInv

LEMMA PromisePoolRead ==
    ASSUME PromiseInv, ThreadInv, NEW r \in Requests, NEW l \in Layers, NEW pool \in SUBSET Refs,
           PoolRead(r, l, pool)
    PROVE  PromiseInv'
<1> DEFINE ps == [request[r].pools EXCEPT ![l] = pool]
           u == request[r].unpooled \ {l}
           t == [request[r] EXCEPT !.unpooled = u, !.pools = ps]
<1>1. /\ request[r] \in Thread /\ request[r].pc = "pooling" /\ Promises(request[r])
      /\ Becomes(r, Pooled(t))
  BY DEF ThreadInv, PoolRead, PromiseInv
<1>2. ps \in [Layers -> SUBSET Refs] /\ u \in SUBSET Layers  BY <1>1 DEF Thread
<1> HIDE DEF ps, u
<1>3. /\ t \in Thread /\ t.pc = "pooling" /\ t.untried = request[r].untried
      /\ t.candidates = request[r].candidates /\ t.budget = request[r].budget
      /\ t.wanted = request[r].wanted
  BY <1>1, <1>2 DEF Thread
<1> HIDE DEF t
<1>4. Promises(t)  BY <1>1, <1>3 DEF Promises
<1> QED  BY <1>1, <1>3, <1>4, PromisePooled, PromiseBecomes DEF ThreadInv

LEMMA PromisePlanStarts ==
    ASSUME PromiseInv, ThreadInv, NEW r \in Requests, NEW c \in request[r].untried,
           PlanStarts(r, c)
    PROVE  PromiseInv'
<1> DEFINE p == [route |-> c.route, op |-> c.op, adapters |-> {}, latency |-> 0]
           u == request[r].untried \ {c}
           t == [request[r] EXCEPT !.pc = "adapters", !.untried = u,
                                   !.unread = DOMAIN c.route, !.plan = p]
<1>1. /\ request[r] \in Thread /\ request[r].pc = "planning" /\ Promises(request[r])
      /\ Becomes(r, t)
  BY DEF ThreadInv, PlanStarts, PromiseInv
<1>2. Size(p) = Size(c) /\ u \subseteq request[r].untried  BY DEF Size
<1> HIDE DEF p, u
<1>3. /\ t.pc = "adapters" /\ t.plan = p /\ t.untried = u
      /\ t.candidates = request[r].candidates /\ t.budget = request[r].budget
      /\ t.wanted = request[r].wanted
  BY <1>1 DEF Thread
<1> HIDE DEF t
<1>4. Promises(t)  BY <1>1, <1>2, <1>3 DEF Promises
<1> QED  BY <1>1, <1>4, PromiseBecomes DEF ThreadInv

\* A read leaves alone everything but the plan being built, whose route stays.
LEMMA PromiseReads ==
    ASSUME PromiseInv, ThreadInv, NEW r \in Requests, NEW l \in request[r].unread,
           AdapterRead(r, l) \/ LatencyRead(r, l)
    PROVE  PromiseInv'
<1> DEFINE t == request'[r]
<1>1. /\ request \in [Requests -> Thread] /\ request[r] \in Thread /\ request[r].plan \in Plan
      /\ request[r].pc \in {"adapters", "latencies"} /\ Promises(request[r])
  BY DEF ThreadInv, Sound, AdapterRead, LatencyRead, PromiseInv
<1>2. Becomes(r, t)
  BY <1>1 DEF AdapterRead, LatencyRead, Becomes
<1>3. /\ t.pc \in {"adapters", "latencies"} /\ t.plan.route = request[r].plan.route
      /\ t.untried = request[r].untried
      /\ t.candidates = request[r].candidates /\ t.budget = request[r].budget
      /\ t.wanted = request[r].wanted
  <2>1. CASE AdapterRead(r, l)
    BY <1>1, <2>1 DEF AdapterRead, Becomes, Thread, Plan
  <2>2. CASE LatencyRead(r, l)
    BY <1>1, <2>2 DEF LatencyRead, Becomes, Thread, Plan
  <2> QED  BY <2>1, <2>2
<1> HIDE DEF t
<1>4. Size(t.plan) = Size(request[r].plan)  BY <1>3 DEF Size
<1>5. Promises(t)  BY <1>1, <1>3, <1>4 DEF Promises
<1> QED  BY <1>1, <1>2, <1>5, PromiseBecomes

LEMMA PromisePlanEnds ==
    ASSUME PromiseInv, ThreadInv, NEW r \in Requests, PlanEnds(r)
    PROVE  PromiseInv'
<1> DEFINE c == IF Infeasible(request[r].plan, request[r].budget) THEN request[r].candidates
                ELSE request[r].candidates \cup {request[r].plan}
           t == [request[r] EXCEPT !.pc = "planning", !.plan = None, !.unread = {},
                                   !.candidates = c]
<1>1. /\ request \in [Requests -> Thread] /\ request[r] \in Thread
      /\ request[r].pc = "latencies" /\ Promises(request[r])
  BY DEF ThreadInv, PlanEnds, PromiseInv
<1>2. Becomes(r, t)  BY <1>1 DEF PlanEnds, Becomes, Thread
<1>3. \A p \in c \ {LocalOnly} : Kept(p, request[r].budget)  BY <1>1 DEF Promises, Kept
<1> HIDE DEF c
<1>4. /\ t.pc = "planning" /\ t.untried = request[r].untried /\ t.candidates = c
      /\ t.budget = request[r].budget /\ t.wanted = request[r].wanted
  BY <1>1 DEF Thread
<1> HIDE DEF t
<1>5. Promises(t)  BY <1>1, <1>3, <1>4 DEF Promises
<1> QED  BY <1>1, <1>2, <1>5, PromiseBecomes

\* The answer: the local-only plan leaves room for one plan less.
LEMMA PromiseAnswers ==
    ASSUME PromiseInv, ThreadInv, NEW r \in Requests, NEW best \in SUBSET request[r].candidates,
           Proposed(r, best)
    PROVE  PromiseInv'
<1>1. /\ request \in [Requests -> Thread] /\ request[r] \in Thread
      /\ request[r].pc = "scoring" /\ Promises(request[r]) /\ Sound(request[r])
      /\ best \subseteq request[r].candidates \ {LocalOnly}
      /\ Cardinality(best) <= Room(request[r])
  BY DEF ThreadInv, Proposed, PromiseInv
<1> DEFINE reply == best \cup (IF request[r].localToo THEN {LocalOnly} ELSE {})
           t == [request[r] EXCEPT !.pc = "done", !.candidates = {}, !.reply = reply]
<1>2. Becomes(r, t)  BY DEF Proposed
<1>3. request[r].wanted \in Nat \ {0} /\ request[r].localToo \in BOOLEAN
  BY <1>1 DEF Promises, Thread
<1>4. Cardinality(reply) <= request[r].wanted /\ (request[r].localToo => LocalOnly \in reply)
  <2>1. IsFiniteSet(best) /\ LocalOnly \notin best  BY <1>1, FS_Subset DEF Sound
  <2>2. Cardinality(best) \in Nat /\ Cardinality(best \cup {LocalOnly}) = Cardinality(best) + 1
    BY <2>1, FS_AddElement, FS_CardinalityType
  <2>3. CASE request[r].localToo
    <3>1. reply = best \cup {LocalOnly}  BY <2>3
    <3>2. Room(request[r]) = request[r].wanted - 1  BY <2>3 DEF Room
    <3> HIDE DEF reply
    <3> QED  BY <1>1, <1>3, <2>2, <3>1, <3>2
  <2>4. CASE ~request[r].localToo
    <3>1. reply = best  BY <2>4
    <3>2. Room(request[r]) = request[r].wanted  BY <2>4 DEF Room
    <3> HIDE DEF reply
    <3> QED  BY <1>1, <2>4, <3>1, <3>2
  <2> QED  BY <2>3, <2>4
<1>5. \A p \in reply \ {LocalOnly} : Kept(p, request[r].budget)  BY <1>1 DEF Promises
<1> HIDE DEF reply
<1>6. /\ t.pc = "done" /\ t.untried = request[r].untried /\ t.candidates = {} /\ t.reply = reply
      /\ t.budget = request[r].budget /\ t.wanted = request[r].wanted
      /\ t.localToo = request[r].localToo
  BY <1>1 DEF Thread
<1> HIDE DEF t
<1>7. Promises(t)  BY <1>1, <1>4, <1>5, <1>6 DEF Promises
<1> QED  BY <1>1, <1>2, <1>7, PromiseBecomes

LEMMA PromiseScores ==
    ASSUME PromiseInv, ThreadInv, NEW r \in Requests,
           \/ PlansComplete(r) \/ ScoredFromCache(r) \/ ScoredAfterFetch(r)
           \/ FetchStarts(r) \/ PolicyExported(r) \/ PolicyStored(r) \/ PolicyStamped(r)
    PROVE  PromiseInv'
<1> DEFINE t == request'[r]
<1>1. /\ request \in [Requests -> Thread] /\ request[r] \in Thread /\ Promises(request[r])
  BY DEF ThreadInv, PromiseInv
<1>2. Becomes(r, t)
  BY <1>1 DEF PlansComplete, ScoredFromCache, ScoredAfterFetch, Scored, FetchStarts,
              PolicyExported, PolicyStored, PolicyStamped, Becomes
<1>3. /\ t.pc \in {"scoring", "fetching", "stamping", "returning"}
      /\ request[r].pc \in {"planning", "scoring", "fetching", "stamping", "returning"}
      /\ t.untried \subseteq request[r].untried /\ t.candidates = request[r].candidates
      /\ t.budget = request[r].budget /\ t.wanted = request[r].wanted
  <2>1. CASE PlansComplete(r)
    BY <1>1, <2>1 DEF PlansComplete, Becomes, Thread
  <2>2. CASE ScoredFromCache(r)
    BY <1>1, <2>2 DEF ScoredFromCache, Scored, Becomes, Thread
  <2>3. CASE ScoredAfterFetch(r)
    BY <1>1, <2>3 DEF ScoredAfterFetch, Scored, Becomes, Thread
  <2>4. CASE FetchStarts(r)
    BY <1>1, <2>4 DEF FetchStarts, Becomes, Thread
  <2>5. CASE PolicyExported(r)
    BY <1>1, <2>5 DEF PolicyExported, Becomes, Thread
  <2>6. CASE PolicyStored(r)
    BY <1>1, <2>6 DEF PolicyStored, Becomes, Thread
  <2>7. CASE PolicyStamped(r)
    BY <1>1, <2>7 DEF PolicyStamped, Becomes, Thread
  <2> QED  BY <2>1, <2>2, <2>3, <2>4, <2>5, <2>6, <2>7
<1> HIDE DEF t
<1>4. Promises(t)  BY <1>1, <1>3 DEF Promises
<1> QED  BY <1>1, <1>2, <1>4, PromiseBecomes

LEMMA PromiseFails ==
    ASSUME PromiseInv, ThreadInv, NEW r \in Requests, ProposeFails(r)
    PROVE  PromiseInv'
<1> DEFINE t == [NewThread EXCEPT !.pc = "failed"]
<1>1. Becomes(r, t)  BY DEF ProposeFails
<1>2. Promises(t)  BY DEF Promises, NewThread
<1> HIDE DEF t
<1> QED  BY <1>1, <1>2, PromiseBecomes DEF ThreadInv

LEMMA PromiseNext ==
    ASSUME PromiseInv, ThreadInv, [Next]_vars
    PROVE  PromiseInv'
<1>1. CASE Tick \/ UNCHANGED vars \/ \E e \in Refs, d \in Descriptor \cup {None} : RegistryChanges(e, d)
  <2>1. request' = request  BY <1>1 DEF Tick, vars, RegistryChanges
  <2> QED  BY <2>1 DEF PromiseInv
<1> QED  BY <1>1, PromiseProposes, PromisePoolRead, PromisePlanStarts, PromiseReads,
            PromisePlanEnds, PromiseAnswers, PromiseScores, PromiseFails
         DEF Next

-----------------------------------------------------------------------------
(* Theorems *)

IInv == ThreadInv /\ AgeInv /\ OfferInv /\ PromiseInv

LEMMA Invariance == Spec => []IInv
<1>1. Init => IInv  BY ThreadInit, AgeInit, OfferInit, PromiseInit DEF IInv
<1>2. IInv /\ [Next]_vars => IInv'  BY ThreadNext, AgeNext, OfferNext, PromiseNext DEF IInv
<1> QED  BY <1>1, <1>2, PTL DEF Spec

\* Types, and that the plans a request holds never exceed max_candidates.
THEOREM TypeCorrect == Spec => []TypeOK
<1>1. IInv => TypeOK
  BY DEF IInv, ThreadInv, RegistryTypes, Sound, AgeInv, ClockTypes, TypeOK
<1> QED  BY <1>1, Invariance, PTL

\* However threads race on the cache, whose policy and time they write in two
\* statements, no plan is scored with a policy as old as TTL and deadline together.
THEOREM PolicyAge == Spec => []PolicyAgeBound
<1>1. IInv => PolicyAgeBound  BY DEF IInv, AgeInv
<1> QED  BY <1>1, Invariance, PTL

\* Whatever changes between the reads of a request, its plans borrow experts that were
\* routable since it came.
THEOREM OfferedRoutable == Spec => []OfferedWereRoutable
<1>1. IInv => OfferedWereRoutable
  BY DEF IInv, OfferInv, Offers, OfferedWereRoutable, Remotes
<1> QED  BY <1>1, Invariance, PTL

\* A plan that borrows an expert of another layer has its adapter, unless the registry
\* changed what it says of the expert while the request was served.
THEOREM AdaptersFollow == Spec => []AdapterUnlessChanged
<1>1. IInv => AdapterUnlessChanged
  BY DEF IInv, OfferInv, Offers, Settled, AdapterUnlessChanged
<1> QED  BY <1>1, Invariance, PTL

\* Every answer is within the number of plans wanted, has the local-only plan if it was
\* asked for, and holds only plans that edit few enough layers within the budget.
THEOREM PromisesKept == Spec => []RepliesKeepPromises
<1>1. IInv => RepliesKeepPromises
  <2> SUFFICES ASSUME IInv, NEW r \in Requests, Answered(r)
               PROVE  /\ Cardinality(request[r].reply) <= request[r].wanted
                      /\ request[r].localToo => LocalOnly \in request[r].reply
                      /\ \A p \in request[r].reply \ {LocalOnly} :
                            /\ Size(p) \in 1..MaxLayers
                            /\ Size(p) <= request[r].budget.remotes
                            /\ request[r].budget.soft \/ p.latency <= request[r].budget.latency
    BY DEF RepliesKeepPromises
  <2>1. /\ request[r] \in Thread /\ Promises(request[r]) /\ request[r].pc = "done"
    BY DEF IInv, ThreadInv, PromiseInv, Answered
  <2>2. request[r].budget \in [remotes : Nat, latency : Nat, soft : BOOLEAN]
    BY <2>1 DEF Promises
  <2>3. ASSUME NEW p \in request[r].reply \ {LocalOnly}
        PROVE  /\ Size(p) \in 1..MaxLayers
               /\ Size(p) <= request[r].budget.remotes
               /\ request[r].budget.soft \/ p.latency <= request[r].budget.latency
    <3>1. Size(p) \in 1..MaxLayers /\ ~Infeasible(p, request[r].budget)
      BY <2>1, <2>3 DEF Promises, Kept
    <3>2. p.latency \in Nat  BY <2>1, <2>3 DEF Thread, Plan
    <3> QED  BY <2>2, <3>1, <3>2, ConstantsAssumption
                DEF Infeasible, TooManyRemotes, TooSlow, Size
  <2> QED  BY <2>1, <2>3 DEF Promises
<1> QED  BY <1>1, Invariance, PTL
=============================================================================
