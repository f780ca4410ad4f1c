------------------------------ MODULE Registry ------------------------------
(***************************************************************************)
(* The expert registry (cei/registry.py) behind its RPC servicer       *)
(* (cei/server/registry_servicer.py): the catalogue of descriptors,    *)
(* who owns each, who may read each, which are promoted and fresh enough   *)
(* to be routed to.                                                        *)
(*                                                                         *)
(* Register, heartbeat, deregister and the snapshot of a describe run      *)
(* under the registry's lock and are one step each.  The describe handler  *)
(* then reads the capacity of each hit in calls of their own, between      *)
(* which any other handler may run.  load_qps is updated with capacity_qps *)
(* and read the same way; the model keeps the capacity only.               *)
(***************************************************************************)
EXTENDS Integers, FiniteSets

CONSTANTS
    Principals,      \* authenticated callers
    Anonymous,       \* no principal (None)
    Publishers,      \* can_publish
    Consumers,       \* consumer_principals
    Refs,            \* expert references
    Model,           \* ref -> its model_id
    Nodes,           \* node ids
    NoNode,          \* a descriptor without node_id
    NoEntry,         \* the reference is not registered
    NoReply,         \* no mutation was answered in this step
    Idle,            \* no describe is being answered
    Unread,          \* a capacity not read yet
    Versions,        \* descriptor versions, in semver order
    Caps,            \* capacity_qps values
    Limits,          \* k of nearest-neighbour queries
    Readers,         \* bound: the callers that describe
    Grantees,        \* bound: the principals whose read access an operator edits
    MaxPerModel,     \* max_experts_per_model
    HeartbeatTtl,    \* heartbeat_ttl_ms
    AutoPromote,     \* auto_promote
    EnforceOwnership,
    AllowAll,        \* the initial value of allow_all
    MaxTime          \* bound on the clock

ASSUME ConstantsAssumption ==
    /\ Anonymous \notin Principals
    /\ Consumers \subseteq Principals
    /\ Grantees \subseteq Principals
    /\ Readers \subseteq Principals \cup {Anonymous}
    /\ Publishers \subseteq Principals
    /\ NoNode \notin Nodes
    /\ Unread \notin Caps
    /\ Versions \subseteq Nat /\ Caps \subseteq Nat /\ 0 \in Caps /\ Limits \subseteq Nat
    /\ MaxPerModel \in Nat /\ HeartbeatTtl \in Nat /\ MaxTime \in Nat
    /\ AutoPromote \in BOOLEAN /\ EnforceOwnership \in BOOLEAN /\ AllowAll \in BOOLEAN

VARIABLES
    now,
    entries,     \* _entries: ref -> _Entry, or NoEntry
    acl,         \* _acl, as a set of <<principal, ref>>
    allowAll,    \* allow_all
    answering,   \* the describe being answered, or Idle
    reply,       \* the answer to the last mutation
    enrolled,    \* history: ref -> when it was last registered
    heard,       \* history: node -> when a heartbeat last named it as its sender
    promoter     \* history: the refs somebody asked to promote while registered

vars == <<now, entries, acl, allowAll, answering, reply, enrolled, heard, promoter>>
catalogue == <<entries, acl, allowAll>>
registrations == <<enrolled, promoter>>

Callers == Principals \cup {Anonymous}
Never == -1
Time == 0..MaxTime
Entry == [version : Versions, offered : Caps, node : Nodes \cup {NoNode},
          beat : Time, cap : Caps, promoted : BOOLEAN, routable : BOOLEAN, owner : Callers]
Describe == [who : Callers, offered : [Refs -> Caps \cup {Unread}],
             routable : SUBSET Refs, caps : [Refs -> Caps \cup {Unread}]]
Reply == [op : {"Register", "Heartbeat", "Deregister"}, who : Callers,
          code : {"OK", "ACL_DENIED", "INVALID", "STALE_VERSION", "QUOTA_EXCEEDED"}]

ASSUME NullsAssumption ==
    /\ NoEntry \notin Entry
    /\ NoReply \notin Reply
    /\ Idle \notin Describe

Answer(op, p, code) == [op |-> op, who |-> p, code |-> code]

-----------------------------------------------------------------------------
Registered == {r \in Refs : entries[r] # NoEntry}
OfModel(m) == {r \in Registered : Model[r] = m}

\* _model_expert_count against the quota, for a reference not registered yet.
OverQuotaOffByOne(r) == Cardinality(OfModel(Model[r])) > MaxPerModel
OverQuota(r) == Cardinality(OfModel(Model[r])) >= MaxPerModel

Fresh(e) == now - e.beat <= HeartbeatTtl

\* _refresh_routability_locked, on a table t.
Refreshed(t) ==
    [r \in Refs |-> IF t[r] = NoEntry THEN NoEntry
                    ELSE [t[r] EXCEPT !.routable = t[r].promoted /\ Fresh(t[r])]]

Visible(p, r) == allowAll \/ (p # Anonymous /\ <<p, r>> \in acl)

\* Entries that ownership forbids p to replace or remove.
NobodyElses(r, p) == FALSE
SomeoneElses(r, p) ==
    /\ EnforceOwnership
    /\ entries[r].owner # Anonymous
    /\ entries[r].owner # p

-----------------------------------------------------------------------------
(* RegisterExpert *)

\* The promotion an RPC asks for is always explicit (registry_servicer.py:37).
AskedPromotion(promote) == promote \/ AutoPromote

RegisterDenied(p) ==
    /\ p \notin Publishers
    /\ reply' = Answer("Register", p, "ACL_DENIED")
    /\ UNCHANGED <<now, catalogue, answering, registrations, heard>>

\* The checks of register, in the order it makes them.
RegisterRejected(p, r, v, force, valid) ==
    /\ p \in Publishers
    /\ \/ ~valid /\ reply' = Answer("Register", p, "INVALID")
       \/ /\ valid /\ r \in Registered
          /\ ~force /\ v < entries[r].version
          /\ reply' = Answer("Register", p, "STALE_VERSION")
       \/ /\ valid /\ r \in Registered
          /\ force \/ v >= entries[r].version
          /\ SomeoneElses(r, p)
          /\ reply' = Answer("Register", p, "ACL_DENIED")
       \/ /\ valid /\ r \notin Registered /\ OverQuota(r)
          /\ reply' = Answer("Register", p, "QUOTA_EXCEEDED")
    /\ UNCHANGED <<now, catalogue, answering, registrations, heard>>

\* _grant_on_register
GrantedToPublisher(p, r) == {<<p, r>>}
GrantedOnRegister(p, r) == {<<q, r>> : q \in Consumers \cup {p}}

\* The entry is replaced whole: the heartbeat starts afresh, the capacity is the
\* one the descriptor offers, the caller owns it and may read it.
RegisterAccepted(p, r, v, cap, node, force, promote) ==
    /\ p \in Publishers
    /\ IF r \in Registered
       THEN (force \/ v >= entries[r].version) /\ ~SomeoneElses(r, p)
       ELSE ~OverQuota(r)
    /\ entries' = Refreshed([entries EXCEPT ![r] =
                     [version |-> v, offered |-> cap, node |-> node, beat |-> now, cap |-> cap,
                      promoted |-> AskedPromotion(promote), routable |-> FALSE, owner |-> p]])
    /\ acl' = acl \cup GrantedOnRegister(p, r)
    /\ reply' = Answer("Register", p, "OK")
    /\ enrolled' = [enrolled EXCEPT ![r] = now]
    /\ promoter' = (IF r \in Registered THEN promoter ELSE promoter \ {r})
                   \cup (IF promote THEN {r} ELSE {})
    /\ UNCHANGED <<now, allowAll, answering, heard>>

RegisterExpert(p, r, v, cap, node, force, promote, valid) ==
    \/ RegisterDenied(p)
    \/ RegisterRejected(p, r, v, force, valid)
    \/ valid /\ RegisterAccepted(p, r, v, cap, node, force, promote)

-----------------------------------------------------------------------------
(* Heartbeat *)

\* The entries a heartbeat of node refreshes: those it names that are its own
\* (or no node's), or all of its own when it names none.
BeatenAnyNode(node, named) == IF named = {} THEN {r \in Registered : entries[r].node = node}
                              ELSE named \cap Registered
BeatenNamed(node, named) == {r \in named \cap Registered : entries[r].node \in {NoNode, node}}
Beaten(node, named) ==
    IF named = {} THEN {r \in Registered : entries[r].node = node}
    ELSE {r \in named \cap Registered : entries[r].node \in {NoNode, node}}

\* The capacity an entry keeps when a heartbeat reports cap; Unread stands for none,
\* or one that is negative or not finite, which is ignored.
ReportedUnchecked(old, cap) == cap
Reported(old, cap) == IF cap = Unread THEN old ELSE cap

Heartbeat(p, node, named, cap) ==
    \/ /\ p \notin Publishers
       /\ reply' = Answer("Heartbeat", p, "ACL_DENIED")
       /\ UNCHANGED <<now, catalogue, answering, registrations, heard>>
    \/ /\ p \in Publishers
       /\ entries' = Refreshed([r \in Refs |->
              IF r \in Beaten(node, named)
              THEN [entries[r] EXCEPT !.beat = now, !.cap = Reported(@, cap)]
              ELSE entries[r]])
       /\ heard' = [heard EXCEPT ![node] = now]
       /\ reply' = Answer("Heartbeat", p, "OK")
       /\ UNCHANGED <<now, acl, allowAll, answering, registrations>>

-----------------------------------------------------------------------------
(* Deregister: a loop over the list, cut short by the first reference that is
   someone else's; what it removed before stays removed.  The read grants of a
   removed reference stay. *)
Deregister(p, named) ==
    LET blocked == {r \in named \cap Registered : SomeoneElses(r, p)}
        mine    == (named \cap Registered) \ blocked
        Without(gone) == [r \in Refs |-> IF r \in gone THEN NoEntry ELSE entries[r]]
    IN  /\ \/ /\ p \notin Publishers
              /\ reply' = Answer("Deregister", p, "ACL_DENIED")
              /\ entries' = entries
           \/ /\ p \in Publishers /\ blocked # {}
              /\ \E gone \in SUBSET mine : entries' = Without(gone)
              /\ reply' = Answer("Deregister", p, "ACL_DENIED")
           \/ /\ p \in Publishers /\ blocked = {}
              /\ entries' = Without(mine)
              /\ reply' = Answer("Deregister", p, "OK")
        /\ UNCHANGED <<now, acl, allowAll, answering, registrations, heard>>

-----------------------------------------------------------------------------
(* The operator's calls, in the registry's own process. *)

Promote(named) ==
    /\ entries' = Refreshed([r \in Refs |->
           IF r \in named \cap Registered THEN [entries[r] EXCEPT !.promoted = TRUE] ELSE entries[r]])
    /\ promoter' = promoter \cup (named \cap Registered)
    /\ reply' = NoReply
    /\ UNCHANGED <<now, acl, allowAll, answering, enrolled, heard>>

Grant(q, named) ==
    /\ acl' = acl \cup ({q} \X named)
    /\ allowAll' = FALSE
    /\ reply' = NoReply
    /\ UNCHANGED <<now, entries, answering, registrations, heard>>

SetAcl(q, named) ==
    /\ acl' = {g \in acl : g[1] # q} \cup ({q} \X named)
    /\ allowAll' = FALSE
    /\ reply' = NoReply
    /\ UNCHANGED <<now, entries, answering, registrations, heard>>

-----------------------------------------------------------------------------
(* DescribeExperts *)

\* The snapshot taken under the lock, routability refreshed first.
DescribeHits(p, hits) ==
    /\ answering = Idle
    /\ entries' = Refreshed(entries)
    /\ answering' = [who      |-> p,
                     offered  |-> [r \in Refs |-> IF r \in hits THEN entries[r].offered ELSE Unread],
                     routable |-> {r \in hits : entries'[r].routable},
                     caps     |-> [r \in Refs |-> Unread]]
    /\ reply' = NoReply
    /\ UNCHANGED <<now, acl, allowAll, registrations, heard>>

VisibleHits(p) == {r \in Registered : Visible(p, r)}

DescribeExplicit(p, named) == DescribeHits(p, named \cap VisibleHits(p))

\* At most the k nearest of the visible entries, routable or not; which ones are
\* nearest, and pass the filters, depends on the query.
DescribeNN(p, k) ==
    \E hits \in SUBSET VisibleHits(p) :
        /\ Cardinality(hits) <= k
        /\ DescribeHits(p, hits)

Hits == {r \in Refs : answering.offered[r] # Unread}

\* `capacity(ref) or d.capacity_qps`, one hit at a time after the lock is dropped:
\* an entry deregistered meanwhile, and one at capacity zero, give the offer.
CapacityRead(r) ==
    IF r \in Registered /\ entries[r].cap # 0 THEN entries[r].cap ELSE answering.offered[r]

DescribeRead(r) ==
    /\ answering # Idle
    /\ r \in Hits /\ answering.caps[r] = Unread
    /\ answering' = [answering EXCEPT !.caps[r] = CapacityRead(r)]
    /\ reply' = NoReply
    /\ UNCHANGED <<now, catalogue, registrations, heard>>

DescribeReply ==
    /\ answering # Idle
    /\ \A r \in Hits : answering.caps[r] # Unread
    /\ answering' = Idle
    /\ reply' = NoReply
    /\ UNCHANGED <<now, catalogue, registrations, heard>>

-----------------------------------------------------------------------------
\* The registry restarts: nothing is persisted.
Restart ==
    /\ entries' = [r \in Refs |-> NoEntry]
    /\ acl' = {}
    /\ allowAll' = AllowAll
    /\ answering' = Idle
    /\ reply' = NoReply
    /\ UNCHANGED <<now, registrations, heard>>

Tick ==
    /\ now < MaxTime
    /\ now' = now + 1
    /\ reply' = NoReply
    /\ UNCHANGED <<catalogue, answering, registrations, heard>>

Init ==
    /\ now = 0
    /\ entries = [r \in Refs |-> NoEntry]
    /\ acl = {}
    /\ allowAll = AllowAll
    /\ answering = Idle
    /\ reply = NoReply
    /\ enrolled = [r \in Refs |-> Never]
    /\ heard = [n \in Nodes |-> Never]
    /\ promoter = {}

\* The calls of publishers, of the principals who; heartbeats speak for the nodes ids.
PublisherCalls(who, ids) ==
    \/ \E p \in who, r \in Refs, v \in Versions, cap \in Caps, node \in Nodes \cup {NoNode},
          force \in BOOLEAN, promote \in BOOLEAN, valid \in BOOLEAN :
           RegisterExpert(p, r, v, cap, node, force, promote, valid)
    \/ \E p \in who, node \in ids, named \in SUBSET Refs, cap \in Caps \cup {Unread} :
           Heartbeat(p, node, named, cap)
    \/ \E p \in who, named \in SUBSET Refs : Deregister(p, named)

OperatorCalls ==
    \/ \E named \in SUBSET Refs : Promote(named)
    \/ \E q \in Grantees, named \in SUBSET Refs : Grant(q, named) \/ SetAcl(q, named)

ReaderCalls ==
    \/ \E p \in Readers, named \in SUBSET Refs : DescribeExplicit(p, named)
    \/ \E p \in Readers, k \in Limits : DescribeNN(p, k)
    \/ \E r \in Refs : DescribeRead(r)
    \/ DescribeReply

Next ==
    \/ PublisherCalls(Callers, Nodes)
    \/ OperatorCalls
    \/ ReaderCalls
    \/ Restart
    \/ Tick

Spec == Init /\ [][Next]_vars

-----------------------------------------------------------------------------
(* Properties. *)

\* Every variable has its type.
TypeOK ==
    /\ now \in Time
    /\ entries \in [Refs -> Entry \cup {NoEntry}]
    /\ acl \in SUBSET (Principals \X Refs)
    /\ allowAll \in BOOLEAN
    /\ answering \in Describe \cup {Idle}
    /\ reply \in Reply \cup {NoReply}
    /\ enrolled \in [Refs -> Time \cup {Never}]
    /\ heard \in [Nodes -> Time \cup {Never}]
    /\ promoter \in SUBSET Refs

\* No model ever has more entries than max_experts_per_model, whatever the order
\* of registrations, re-registrations and removals.
QuotaBound == \A r \in Refs : Cardinality(OfModel(Model[r])) <= MaxPerModel

\* The instants at which something was last heard about r: its registration, a heartbeat
\* in the name of the node that serves it (of any node if the descriptor names none).
HeardAt(r) ==
    ({enrolled[r]} \cup {heard[n] : n \in {m \in Nodes : entries[r].node \in {m, NoNode}}})
    \ {Never}

\* An expert is described as routable only if it was promoted and something was heard
\* about it within heartbeat_ttl, its registration or a heartbeat in its node's name:
\* never on the strength of a flag computed earlier, of a heartbeat in another node's name
\* or of a registration since removed.  (That the sender is the node is not checked.)
RoutableIsAlive ==
    [][ answering = Idle /\ answering' # Idle =>
          \A r \in answering'.routable :
              /\ AutoPromote \/ r \in promoter
              /\ \E t \in HeardAt(r) : now - t <= HeartbeatTtl ]_vars

\* security.md, registry ownership: with ownership enforced, a call that removes
\* an entry, gives it another owner or takes it back to an earlier version, even one
\* that is refused half way through its list, comes from the entry's owner.  The way
\* around the version check, to remove and to register again, is open to nobody else.
OnlyOwnerDisposes ==
    [][ \A r \in Registered :
          /\ EnforceOwnership /\ reply' # NoReply
          /\ entries[r].owner # Anonymous
          /\ \/ entries'[r] = NoEntry \/ entries'[r].owner # entries[r].owner
             \/ entries'[r].version < entries[r].version
          => reply'.who = entries[r].owner ]_vars

\* Whatever is registered, removed and registered again, the consumers (the
\* router among them) and its owner can read each registered expert, unless an
\* operator edited their access.
ReadersKeepSight ==
    \A r \in Registered :
        \A q \in (Consumers \cup {entries[r].owner}) \ Grantees : Visible(q, r)

\* registry.py:115: a version refresh preserves the promotion.
PromotionPreserved ==
    [][ \A r \in Registered :
          entries[r].promoted /\ entries'[r] # NoEntry => entries'[r].promoted ]_vars

=============================================================================
