----------------------------- MODULE ExpertNode -----------------------------
(***************************************************************************)
(* One expert node (cei/node.py) behind its RPC servicer               *)
(* (cei/server/node_servicer.py): the capacity-lease table, the        *)
(* request ids already charged, and the load tokens that gate admission.   *)
(*                                                                         *)
(* Every handler takes the node's lock, so each call is one step.  What    *)
(* ForwardExpert does after it drops the lock (checking dimensions, the    *)
(* matrix product) touches no shared state; only its verdict is kept.      *)
(* Calls come from any principal, with any lease id and request id, in any *)
(* order; the clock may pass any deadline between two calls; the node may  *)
(* restart, which loses all it holds.                                      *)
(***************************************************************************)
EXTENDS LeaseTable

CONSTANTS
    Principals,      \* authenticated callers
    Anonymous,       \* the caller no principal was resolved for (None)
    Refs,            \* expert references a request can name
    Experts,         \* the references this node serves
    LeaseIds,        \* ids uuid4 can draw
    NoExpert,        \* a call that names no expert
    NoLease,         \* "no lease with this id" / "no lease id in the request"
    RequestIds,      \* request ids
    NoRequestId,     \* a request without one
    NoReply,         \* "no call was answered in this step"
    Capacity,        \* expert -> capacity_qps of its descriptor
    Qps,             \* qps a lease request may ask for
    Ttls,            \* ttl_ms a lease request may ask for
    DefaultTtl,      \* what the servicer puts for a ttl_ms of zero (5000)
    MaxTtl,          \* the longest ttl_ms accepted (3_600_000)
    RequestIdTtl,    \* request_id_ttl_ms
    BatchTokens,     \* tokens in one activation batch
    AclOpen,         \* acl_open
    AclAllow,        \* acl_allow
    PriorityAdmins,  \* priority_admins
    MaxTime          \* bound on the clock

ASSUME ConstantsAssumption ==
    /\ Experts \subseteq Refs
    /\ AclAllow \subseteq Principals
    /\ PriorityAdmins \subseteq Principals
    /\ Anonymous \notin Principals
    /\ NoRequestId \notin RequestIds
    /\ NoExpert \notin Refs
    /\ NoLease \notin LeaseIds
    /\ Capacity \in [Experts -> Nat]
    /\ Qps \subseteq Int
    /\ Ttls \subseteq Int
    /\ {DefaultTtl, MaxTtl, RequestIdTtl, BatchTokens, MaxTime} \subseteq Nat
    /\ MaxLeases \in Nat
    /\ AclOpen \in BOOLEAN

VARIABLES
    now,       \* _now_ms()
    leases,    \* lease id -> Lease, or NoLease
    seen,      \* seen_request_ids: request id -> when it was charged, or Never
    load,      \* _load_tokens
    grants,    \* history: lease id -> the Lease as it was granted, or NoLease
    charges,   \* history: the charges that load is made of
    reply      \* the answer to the last call

vars == <<now, leases, seen, load, grants, charges, reply>>

Never == -1
Callers == Principals \cup {Anonymous}
Time == 0..MaxTime
Lease == [principal : Callers, expert : Experts, deadline : Nat, qps : Nat]
Charge == [id : RequestIds, at : Time]
Code == {"OK", "ACL_DENIED", "INVALID_TTL", "INVALID_QPS", "NOT_ROUTABLE",
         "CAPACITY_EXHAUSTED", "PROFILE_DISABLED", "LEASE_MISMATCH", "INCOMPATIBLE_DIMS"}
Reply == [op : {"Lease", "Release", "Forward"}, who : Callers, expert : Refs \cup {NoExpert},
          lease : LeaseIds \cup {NoLease}, code : Code]

\* The null values are none of the values they stand beside.
ASSUME NullsAssumption ==
    /\ NoLease \notin Lease
    /\ NoLease \notin [principal : Callers, expert : Experts, deadline : Nat]
    /\ NoReply \notin Reply
    /\ NoReply \notin [op : {"Release"}, lease : LeaseIds, principal : Callers]
    /\ NoReply \notin [op : {"Forward"}, lease : LeaseIds, principal : Callers, expert : Refs]

Answer(op, p, e, l, code) == [op |-> op, who |-> p, expert |-> e, lease |-> l, code |-> code]

-----------------------------------------------------------------------------
(* State predicates of the handlers. *)

Held == {l \in LeaseIds : leases[l] # NoLease}
Expired(l) == leases[l].deadline < now
Unexpired == {l \in Held : ~Expired(l)}

Allowed(p) == AclOpen \/ p \in AclAllow
LeaseTtl(ttl) == IF ttl = 0 THEN DefaultTtl ELSE ttl
ValidTtlUpperOnly(ttl) == ttl <= MaxTtl
ValidTtl(ttl) == 0 < ttl /\ ttl <= MaxTtl
ValidQps(q) == q >= 0   \* and finite: a negative one stands for both
Bypass(p, high) == high /\ p \in PriorityAdmins
Overloaded(e) == load > Capacity[e] * 10

LesserOf(a, b) == IF a <= b THEN a ELSE b

\* _purge_expired_leases_locked: the table once its expired leases are dropped.
PurgedAtDeadline ==
    [l \in LeaseIds |-> IF l \in Unexpired /\ leases[l].deadline # now THEN leases[l] ELSE NoLease]
Purged == [l \in LeaseIds |-> IF l \in Unexpired THEN leases[l] ELSE NoLease]

\* Is there no room for one more, once the expired ones are gone?
TableFullOffByOne == Cardinality(Unexpired) > MaxLeases
TableFullBeforePurge == Cardinality(Held) >= MaxLeases
TableFull == Cardinality(Unexpired) >= MaxLeases

\* Request ids forward_expert forgets, and those it therefore sees as new.
ForgottenAtTtl == {r \in RequestIds : seen[r] # Never /\ now - seen[r] >= RequestIdTtl}
Forgotten == {r \in RequestIds : seen[r] # Never /\ now - seen[r] > RequestIdTtl}
New(r) == r \in RequestIds /\ (seen[r] = Never \/ r \in Forgotten)

\* The checks under require_lease: the lease is there and not past its deadline,
LeaseStands(l) == l \in Held /\ ~Expired(l)
\* and it was granted for this expert to this caller.
LeaseCoversAnyExpert(l, p, e) == leases[l].principal # Anonymous => leases[l].principal = p
LeaseCovers(l, p, e) ==
    /\ leases[l].expert = e
    /\ leases[l].principal # Anonymous => leases[l].principal = p

-----------------------------------------------------------------------------
(* LeaseCapacity. *)

LeaseWellFormed(p, q, ttl) == Allowed(p) /\ ValidTtl(LeaseTtl(ttl)) /\ ValidQps(q)

\* Refused before the lock is taken or before the table is looked at.
LeaseRejected(p, e, q, ttl) ==
    /\ \/ ~Allowed(p) /\ reply' = Answer("Lease", p, e, NoLease, "ACL_DENIED")
       \/ /\ Allowed(p)
          /\ ~ValidTtl(LeaseTtl(ttl))
          /\ reply' = Answer("Lease", p, e, NoLease, "INVALID_TTL")
       \/ /\ Allowed(p)
          /\ ValidTtl(LeaseTtl(ttl))
          /\ ~ValidQps(q)
          /\ reply' = Answer("Lease", p, e, NoLease, "INVALID_QPS")
       \/ /\ LeaseWellFormed(p, q, ttl)
          /\ e \notin Experts
          /\ reply' = Answer("Lease", p, e, NoLease, "NOT_ROUTABLE")
    /\ UNCHANGED <<now, leases, seen, load, grants, charges>>

LeaseAdmissible(p, e, q, ttl) == LeaseWellFormed(p, q, ttl) /\ e \in Experts

\* The expired leases are dropped even when the call is then refused.
LeaseExhausted(p, e, q, ttl, high) ==
    /\ LeaseAdmissible(p, e, q, ttl)
    /\ TableFull \/ (Overloaded(e) /\ ~Bypass(p, high))
    /\ leases' = Purged
    /\ reply' = Answer("Lease", p, e, NoLease, "CAPACITY_EXHAUSTED")
    /\ UNCHANGED <<now, seen, load, grants, charges>>

LeaseGranted(p, e, q, ttl, high, l) ==
    /\ LeaseAdmissible(p, e, q, ttl)
    /\ ~TableFull
    /\ Overloaded(e) => Bypass(p, high)
    /\ grants[l] = NoLease
    /\ LET lease == [principal |-> p, expert |-> e, deadline |-> now + LeaseTtl(ttl),
                     qps |-> LesserOf(q, Capacity[e])]
       IN  /\ leases' = [Purged EXCEPT ![l] = lease]
           /\ grants' = [grants EXCEPT ![l] = lease]
    /\ reply' = Answer("Lease", p, e, l, "OK")
    /\ UNCHANGED <<now, seen, load, charges>>

LeaseCapacity(p, e, q, ttl, high) ==
    \/ LeaseRejected(p, e, q, ttl)
    \/ LeaseExhausted(p, e, q, ttl, high)
    \/ \E l \in LeaseIds : LeaseGranted(p, e, q, ttl, high, l)

-----------------------------------------------------------------------------
(* ReleaseCapacity: no ACL check, and a lease that is not there is no error. *)

MayRelease(l, p) ==
    \/ AclOpen
    \/ leases[l].principal = Anonymous
    \/ leases[l].principal = p

ReleaseCapacity(p, l) ==
    /\ \/ /\ l \in Held /\ ~MayRelease(l, p)
          /\ leases' = leases
          /\ reply' = Answer("Release", p, NoExpert, l, "ACL_DENIED")
       \/ /\ l \in Held => MayRelease(l, p)
          /\ leases' = [leases EXCEPT ![l] = NoLease]
          /\ reply' = Answer("Release", p, NoExpert, l, "OK")
    /\ UNCHANGED <<now, seen, load, grants, charges>>

-----------------------------------------------------------------------------
(* ForwardExpert.  Over the wire a lease is required exactly when one is    *)
(* named (node_servicer.py:77).                                            *)

\* Refused before anything is charged; grad is the request's grad_required
\* (the fleet runs with training_profile off).
ForwardRejected(p, e, l, grad) ==
    /\ \/ ~Allowed(p) /\ reply' = Answer("Forward", p, e, l, "ACL_DENIED")
       \/ Allowed(p) /\ e \notin Experts /\ reply' = Answer("Forward", p, e, l, "NOT_ROUTABLE")
       \/ /\ Allowed(p) /\ e \in Experts /\ grad
          /\ reply' = Answer("Forward", p, e, l, "PROFILE_DISABLED")
    /\ UNCHANGED <<now, leases, seen, load, grants, charges>>

\* The load is charged once per request id, before the lease is looked at.
ChargeOnce(r) ==
    IF New(r)
    THEN /\ seen' = [s \in RequestIds |->
                        IF s = r THEN now ELSE IF s \in Forgotten THEN Never ELSE seen[s]]
         /\ load' = load + BatchTokens
         /\ charges' = charges \cup {[id |-> r, at |-> now]}
    ELSE /\ seen' = [s \in RequestIds |->
                        IF r \in RequestIds /\ s \in Forgotten THEN Never ELSE seen[s]]
         /\ UNCHANGED <<load, charges>>

\* fits: the adapter, if one is named, is known and the dimensions agree.
ForwardAdmitted(p, e, l, r, fits) ==
    /\ Allowed(p) /\ e \in Experts
    /\ ChargeOnce(r)
    /\ \/ /\ l # NoLease /\ ~LeaseStands(l)
          /\ reply' = Answer("Forward", p, e, l, "CAPACITY_EXHAUSTED")
       \/ /\ l # NoLease /\ LeaseStands(l) /\ ~LeaseCovers(l, p, e)
          /\ reply' = Answer("Forward", p, e, l, "LEASE_MISMATCH")
       \/ /\ l # NoLease => LeaseStands(l) /\ LeaseCovers(l, p, e)
          /\ reply' = Answer("Forward", p, e, l, IF fits THEN "OK" ELSE "INCOMPATIBLE_DIMS")
    /\ UNCHANGED <<now, leases, grants>>

ForwardExpert(p, e, l, r, grad, fits) ==
    \/ ForwardRejected(p, e, l, grad)
    \/ ~grad /\ ForwardAdmitted(p, e, l, r, fits)

-----------------------------------------------------------------------------
\* Time passes (the wall clock is taken to be monotone).
Tick ==
    /\ now < MaxTime
    /\ now' = now + 1
    /\ reply' = NoReply
    /\ UNCHANGED <<leases, seen, load, grants, charges>>

\* A crash and restart: leases, request ids and load were only in memory.
Restart ==
    /\ leases' = [l \in LeaseIds |-> NoLease]
    /\ seen' = [r \in RequestIds |-> Never]
    /\ load' = 0
    /\ charges' = {}
    /\ reply' = NoReply
    /\ UNCHANGED <<now, grants>>

Init ==
    /\ now = 0
    /\ leases = [l \in LeaseIds |-> NoLease]
    /\ seen = [r \in RequestIds |-> Never]
    /\ load = 0
    /\ grants = [l \in LeaseIds |-> NoLease]
    /\ charges = {}
    /\ reply = NoReply

Next ==
    \/ \E p \in Callers, e \in Refs, q \in Qps, ttl \in Ttls, high \in BOOLEAN :
           LeaseCapacity(p, e, q, ttl, high)
    \/ \E p \in Callers, l \in LeaseIds : ReleaseCapacity(p, l)
    \/ \E p \in Callers, e \in Refs, l \in LeaseIds \cup {NoLease},
          r \in RequestIds \cup {NoRequestId}, grad \in BOOLEAN, fits \in BOOLEAN :
           ForwardExpert(p, e, l, r, grad, fits)
    \/ Tick
    \/ Restart

Spec == Init /\ [][Next]_vars

-----------------------------------------------------------------------------
(* Properties. *)

\* Every variable has its type.
TypeOK ==
    /\ now \in Time
    /\ leases \in [LeaseIds -> Lease \cup {NoLease}]
    /\ seen \in [RequestIds -> Time \cup {Never}]
    /\ load \in Nat
    /\ grants \in [LeaseIds -> Lease \cup {NoLease}]
    /\ charges \in SUBSET Charge
    /\ reply \in Reply \cup {NoReply}

\* The lease table never holds more than max_active_leases entries, the
\* expired ones that no call has purged yet included (node.py:104).
LeaseTableBound == Cardinality(Held) <= MaxLeases

\* At-most-once accounting (protocol.md 5.3): the load is exactly the charges
\* made since the last restart, and two charges for one request id are more
\* than request_id_ttl_ms apart, however often the request was sent and
\* whatever became of it.
ChargedOncePerTtl ==
    /\ load = BatchTokens * Cardinality(charges)
    /\ \A c, d \in charges :
           c.id = d.id /\ c.at < d.at => d.at - c.at > RequestIdTtl

\* A lease is refused for capacity only when max_active_leases leases are live,
\* expired ones not counted, or the load passed ten times the capacity of the
\* expert it was asked for (node.py:103-110): leases their holders abandoned never
\* shut the node, and the load of a small expert shuts no larger one.
RefusedOnlyAtCapacity ==
    [][ reply' # NoReply /\ reply'.op = "Lease" /\ reply'.code = "CAPACITY_EXHAUSTED"
        => Cardinality(Unexpired) >= MaxLeases \/ Overloaded(reply'.expert) ]_vars

-----------------------------------------------------------------------------
(* What a caller sees of the node. *)

Own(p) == {l \in Unexpired : leases[l].principal = p}

\* The last call was p's, and named no lease, or one granted to p.
AnsweredOn(p) ==
    /\ reply # NoReply /\ reply.who = p
    /\ reply.lease # NoLease => /\ grants[reply.lease] # NoLease
                                /\ grants[reply.lease].principal = p
Outcome(code) == IF code = "OK" THEN "ok" ELSE "refused"

\* HostRun may take a peer for a table of its own leases: to a caller that names no
\* lease but its own, the node answers what LeaseTable allows and does what it
\* says, and whatever others ask, time or a crash does, takes leases from the
\* caller at most (node.py:99-197).
EachCallerSeesATable ==
    [][ \A p \in Callers :
          IF AnsweredOn(p)'
          THEN LET op == reply'.op
                   l == reply'.lease
                   answer == Outcome(reply'.code)
               IN  /\ answer \in TableAnswers(op, l, l # NoLease, Own(p))
                   /\ Own(p)' = TableAfter(op, l, answer, Own(p))
          ELSE Own(p)' \subseteq Own(p) ]_vars

-----------------------------------------------------------------------------
(* The node implements the lease contract. *)

\* What the contract sees of the leases granted, and of the last answer.
ContractGrants ==
    [l \in LeaseIds |->
        IF grants[l] = NoLease THEN NoLease
        ELSE [principal |-> grants[l].principal, expert |-> grants[l].expert,
              deadline |-> grants[l].deadline]]

ContractEvent ==
    IF reply = NoReply \/ reply.code # "OK" \/ reply.lease = NoLease THEN NoReply
    ELSE CASE reply.op = "Release" ->
                [op |-> "Release", lease |-> reply.lease, principal |-> reply.who]
           [] reply.op = "Forward" ->
                [op |-> "Forward", lease |-> reply.lease, principal |-> reply.who,
                 expert |-> reply.expert]
           [] OTHER -> NoReply

Contract == INSTANCE LeaseContract WITH
    Principals <- Callers,
    Deadlines  <- 0..(MaxTime + MaxTtl),
    NoGrant    <- NoLease,
    NoEvent    <- NoReply,
    clock      <- now,
    grants     <- ContractGrants,
    live       <- Held,
    event      <- ContractEvent

\* Refinement: a lease serves only forwards of its grantee for its expert, from
\* its grant until it is given back by the grantee, passes its deadline or is
\* lost in a crash (SPEC.md 5.2).
ImplementsLeaseContract == Contract!Spec

=============================================================================

