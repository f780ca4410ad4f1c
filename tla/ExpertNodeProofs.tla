-------------------------- MODULE ExpertNodeProofs --------------------------
(***************************************************************************)
(* Proofs about ExpertNode for every value of its constants: any number of *)
(* principals, experts, lease ids and request ids, any clock bound.        *)
(***************************************************************************)
EXTENDS ExpertNode, FiniteSetTheorems, TLAPS

-----------------------------------------------------------------------------
(* Type correctness. *)

LEMMA InitTyped == Init => TypeOK
BY ConstantsAssumption DEF ConstantsAssumption, Init, TypeOK, Time, Never

\* A lease granted by an admissible request is a Lease record.
LEMMA LeaseTyped ==
    ASSUME TypeOK, NEW p \in Callers, NEW e \in Experts, NEW q \in Qps, NEW ttl \in Ttls,
           ValidTtl(LeaseTtl(ttl)), ValidQps(q)
    PROVE  [principal |-> p, expert |-> e, deadline |-> now + LeaseTtl(ttl),
            qps |-> LesserOf(q, Capacity[e])] \in Lease
<1>1. now + LeaseTtl(ttl) \in Nat
  BY ConstantsAssumption DEF ConstantsAssumption, TypeOK, Time, ValidTtl, LeaseTtl
<1>2. LesserOf(q, Capacity[e]) \in Nat
  BY ConstantsAssumption DEF ConstantsAssumption, LesserOf, ValidQps
<1> QED
  BY <1>1, <1>2 DEF Lease

LEMMA AnswerTyped ==
    ASSUME NEW op \in {"Lease", "Release", "Forward"}, NEW p \in Callers,
           NEW e \in Refs \cup {NoExpert}, NEW l \in LeaseIds \cup {NoLease}, NEW code \in Code
    PROVE  Answer(op, p, e, l, code) \in Reply
BY DEF Answer, Reply

LEMMA PurgedTyped == TypeOK => Purged \in [LeaseIds -> Lease \cup {NoLease}]
BY DEF TypeOK, Purged, Unexpired, Held

\* ChargeOnce keeps the accounting variables in their types.
LEMMA ChargeTyped ==
    ASSUME TypeOK, NEW r \in RequestIds \cup {NoRequestId}, ChargeOnce(r)
    PROVE  /\ seen' \in [RequestIds -> Time \cup {Never}]
           /\ load' \in Nat
           /\ charges' \in SUBSET Charge
<1>1. CASE New(r)
  <2>1. r \in RequestIds
    BY <1>1 DEF New
  <2>2. [id |-> r, at |-> now] \in Charge
    BY <2>1 DEF Charge, TypeOK
  <2> QED
    BY <1>1, <2>2, ConstantsAssumption DEF ChargeOnce, TypeOK, ConstantsAssumption
<1>2. CASE ~New(r)
  BY <1>2 DEF ChargeOnce, TypeOK
<1> QED
  BY <1>1, <1>2

LEMMA StepTyped == TypeOK /\ [Next]_vars => TypeOK'
<1> SUFFICES ASSUME TypeOK, [Next]_vars PROVE TypeOK'
  OBVIOUS
<1>1. ASSUME NEW p \in Callers, NEW e \in Refs, NEW q \in Qps, NEW ttl \in Ttls, NEW high \in BOOLEAN,
             LeaseCapacity(p, e, q, ttl, high)
      PROVE TypeOK'
  <2>1. CASE LeaseRejected(p, e, q, ttl)
    <3>1. reply' \in Reply
      BY <2>1, AnswerTyped DEF LeaseRejected, Code
    <3> QED
      BY <2>1, <3>1 DEF LeaseRejected, TypeOK
  <2>2. CASE LeaseExhausted(p, e, q, ttl, high)
    <3>1. reply' \in Reply
      BY <2>2, AnswerTyped DEF LeaseExhausted, Code
    <3> QED
      BY <2>2, <3>1, PurgedTyped DEF LeaseExhausted, TypeOK
  <2>3. ASSUME NEW l \in LeaseIds, LeaseGranted(p, e, q, ttl, high, l)
        PROVE TypeOK'
    <3>1. reply' \in Reply
      BY <2>3, AnswerTyped DEF LeaseGranted, Code
    <3>2. e \in Experts /\ ValidTtl(LeaseTtl(ttl)) /\ ValidQps(q)
      BY <2>3 DEF LeaseGranted, LeaseAdmissible, LeaseWellFormed
    <3> DEFINE lease == [principal |-> p, expert |-> e, deadline |-> now + LeaseTtl(ttl),
                         qps |-> LesserOf(q, Capacity[e])]
    <3>3. lease \in Lease
      BY <3>2, LeaseTyped
    <3>4. /\ leases' = [Purged EXCEPT ![l] = lease]
          /\ grants' = [grants EXCEPT ![l] = lease]
      BY <2>3 DEF LeaseGranted
    <3> HIDE DEF lease
    <3>5. /\ leases' \in [LeaseIds -> Lease \cup {NoLease}]
          /\ grants' \in [LeaseIds -> Lease \cup {NoLease}]
      BY <3>3, <3>4, PurgedTyped DEF TypeOK
    <3> QED
      BY <2>3, <3>1, <3>5 DEF LeaseGranted, TypeOK
  <2> QED
    BY <1>1, <2>1, <2>2, <2>3 DEF LeaseCapacity
<1>2. ASSUME NEW p \in Callers, NEW l \in LeaseIds, ReleaseCapacity(p, l)
      PROVE TypeOK'
  <2>1. reply' \in Reply
    BY <1>2, AnswerTyped DEF ReleaseCapacity, Code
  <2>2. leases' \in [LeaseIds -> Lease \cup {NoLease}]
    BY <1>2 DEF ReleaseCapacity, TypeOK
  <2> QED
    BY <1>2, <2>1, <2>2 DEF ReleaseCapacity, TypeOK
<1>3. ASSUME NEW p \in Callers, NEW e \in Refs, NEW l \in LeaseIds \cup {NoLease},
             NEW r \in RequestIds \cup {NoRequestId}, NEW grad \in BOOLEAN, NEW fits \in BOOLEAN,
             ForwardExpert(p, e, l, r, grad, fits)
      PROVE TypeOK'
  <2>1. CASE ForwardRejected(p, e, l, grad)
    <3>1. reply' \in Reply
      BY <2>1, AnswerTyped DEF ForwardRejected, Code
    <3> QED
      BY <2>1, <3>1 DEF ForwardRejected, TypeOK
  <2>2. CASE ForwardAdmitted(p, e, l, r, fits)
    <3>1. reply' \in Reply
      BY <2>2, AnswerTyped DEF ForwardAdmitted, Code
    <3>2. ChargeOnce(r)
      BY <2>2 DEF ForwardAdmitted
    <3> QED
      BY <2>2, <3>1, <3>2, ChargeTyped DEF ForwardAdmitted, TypeOK
  <2> QED
    BY <1>3, <2>1, <2>2 DEF ForwardExpert
<1>4. CASE Tick
  BY <1>4, ConstantsAssumption DEF Tick, TypeOK, Time, ConstantsAssumption
<1>5. CASE Restart
  BY <1>5 DEF Restart, TypeOK
<1>6. CASE UNCHANGED vars
  BY <1>6 DEF vars, TypeOK
<1> QED
  BY <1>1, <1>2, <1>3, <1>4, <1>5, <1>6 DEF Next

\* Every variable keeps its type in every behaviour.
THEOREM TypeCorrect == Spec => []TypeOK
BY InitTyped, StepTyped, PTL DEF Spec

-----------------------------------------------------------------------------
(* The lease table. *)

\* What the node holds under an id is what it told the grantee: no later call
\* alters a lease, and no id is granted twice.
LeaseAsGranted == \A l \in Held : leases[l] = grants[l]

\* The inductive invariant: the bound needs the set it counts to be finite,
\* and the table to agree with what was granted.
LeaseInv ==
    /\ TypeOK
    /\ IsFiniteSet(Held)
    /\ LeaseTableBound
    /\ LeaseAsGranted

LEMMA PurgedHolds ==
    ASSUME LeaseInv, NEW l \in LeaseIds, Purged[l] # NoLease
    PROVE  l \in Unexpired /\ Purged[l] = grants[l]
BY DEF LeaseInv, LeaseAsGranted, Purged, Unexpired

LEMMA UnexpiredSmaller ==
    ASSUME LeaseInv
    PROVE  /\ IsFiniteSet(Unexpired)
           /\ Cardinality(Unexpired) \in Nat
           /\ Cardinality(Unexpired) <= MaxLeases
<1>1. Unexpired \subseteq Held /\ IsFiniteSet(Held)
  BY DEF Unexpired, LeaseInv
<1>2. /\ IsFiniteSet(Unexpired)
      /\ Cardinality(Unexpired) <= Cardinality(Held)
      /\ Cardinality(Unexpired) \in Nat
      /\ Cardinality(Held) \in Nat
  BY <1>1, FS_Subset, FS_CardinalityType
<1> QED
  BY <1>2, ConstantsAssumption DEF LeaseInv, LeaseTableBound, ConstantsAssumption

\* A step whose new table is contained in the purged one keeps the invariant.
LEMMA ShrunkTable ==
    ASSUME LeaseInv, TypeOK', NEW S \in SUBSET Held, Held' = S,
           \A l \in S : leases'[l] = grants'[l]
    PROVE  LeaseInv'
<1>1. /\ IsFiniteSet(S)
      /\ Cardinality(S) <= Cardinality(Held)
      /\ Cardinality(S) \in Nat /\ Cardinality(Held) \in Nat
  BY FS_Subset, FS_CardinalityType DEF LeaseInv
<1>2. Cardinality(Held') <= MaxLeases
  BY <1>1, ConstantsAssumption DEF LeaseInv, LeaseTableBound, ConstantsAssumption
<1> QED
  BY <1>1, <1>2 DEF LeaseInv, LeaseTableBound, LeaseAsGranted

LEMMA GrantedStep ==
    ASSUME LeaseInv, TypeOK', NEW p \in Callers, NEW e \in Refs, NEW q \in Qps, NEW ttl \in Ttls,
           NEW high \in BOOLEAN, NEW l \in LeaseIds, LeaseGranted(p, e, q, ttl, high, l)
    PROVE  LeaseInv'
<1> DEFINE lease == [principal |-> p, expert |-> e, deadline |-> now + LeaseTtl(ttl),
                     qps |-> LesserOf(q, Capacity[e])]
<1>1. /\ leases' = [Purged EXCEPT ![l] = lease]
      /\ grants' = [grants EXCEPT ![l] = lease]
      /\ grants[l] = NoLease /\ ~TableFull
  BY DEF LeaseGranted
<1>2. lease \in Lease /\ lease # NoLease
  BY LeaseTyped, NullsAssumption DEF LeaseGranted, LeaseAdmissible, LeaseWellFormed, LeaseInv
<1> HIDE DEF lease
<1>3. Purged \in [LeaseIds -> Lease \cup {NoLease}] /\ grants \in [LeaseIds -> Lease \cup {NoLease}]
  BY PurgedTyped DEF LeaseInv, TypeOK
<1>4. l \notin Held
  BY <1>1 DEF LeaseInv, LeaseAsGranted, Held
<1>5. Held' = Unexpired \cup {l}
  <2>1. \A m \in LeaseIds \ {l} : leases'[m] = Purged[m]
    BY <1>1, <1>3
  <2>2. leases'[l] # NoLease
    BY <1>1, <1>2, <1>3
  <2>3. \A m \in LeaseIds : m \in Unexpired <=> Purged[m] # NoLease
    BY DEF Purged, Unexpired, Held
  <2> QED
    BY <2>1, <2>2, <2>3 DEF Held, Unexpired
<1>6. /\ IsFiniteSet(Held')
      /\ Cardinality(Held') = Cardinality(Unexpired) + 1
  <2>1. l \notin Unexpired
    BY <1>4 DEF Unexpired
  <2> QED
    BY <1>5, <2>1, UnexpiredSmaller, FS_AddElement
<1>7. Cardinality(Held') <= MaxLeases
  BY <1>1, <1>6, UnexpiredSmaller, ConstantsAssumption DEF TableFull, ConstantsAssumption
<1>8. \A m \in Held' : leases'[m] = grants'[m]
  <2>1. leases'[l] = grants'[l]
    BY <1>1, <1>3
  <2>2. ASSUME NEW m \in Unexpired, m # l PROVE leases'[m] = grants'[m]
    <3>1. m \in LeaseIds /\ leases'[m] = leases[m] /\ grants'[m] = grants[m]
      BY <1>1, <1>3, <2>2 DEF Purged, Unexpired, Held
    <3> QED
      BY <3>1, <2>2 DEF LeaseInv, LeaseAsGranted, Unexpired
  <2> QED
    BY <1>5, <2>1, <2>2
<1> QED
  BY <1>6, <1>7, <1>8 DEF LeaseInv, LeaseTableBound, LeaseAsGranted

LEMMA LeaseInvInit == Init => LeaseInv
<1> SUFFICES ASSUME Init PROVE LeaseInv
  OBVIOUS
<1>1. Held = {}
  BY DEF Init, Held
<1>2. IsFiniteSet(Held) /\ Cardinality(Held) = 0
  BY <1>1, FS_EmptySet
<1> QED
  BY <1>1, <1>2, InitTyped, ConstantsAssumption
     DEF LeaseInv, LeaseTableBound, LeaseAsGranted, ConstantsAssumption

LEMMA LeaseInvStep == LeaseInv /\ [Next]_vars => LeaseInv'
<1> SUFFICES ASSUME LeaseInv, [Next]_vars PROVE LeaseInv'
  OBVIOUS
<1>0. TypeOK'
  BY StepTyped DEF LeaseInv
<1>a. ASSUME UNCHANGED <<leases, grants>> PROVE LeaseInv'
  <2>1. Held' = Held
    BY <1>a DEF Held
  <2>2. \A l \in Held : leases'[l] = grants'[l]
    BY <1>a DEF LeaseInv, LeaseAsGranted
  <2> QED
    BY <1>0, <2>1, <2>2, ShrunkTable
<1>1. ASSUME NEW p \in Callers, NEW e \in Refs, NEW q \in Qps, NEW ttl \in Ttls, NEW high \in BOOLEAN,
             LeaseCapacity(p, e, q, ttl, high)
      PROVE LeaseInv'
  <2>1. CASE LeaseRejected(p, e, q, ttl)
    BY <2>1, <1>a DEF LeaseRejected
  <2>2. CASE LeaseExhausted(p, e, q, ttl, high)
    <3>1. leases' = Purged /\ grants' = grants
      BY <2>2 DEF LeaseExhausted
    <3>2. Held' = Unexpired
      BY <3>1 DEF Held, Purged, Unexpired
    <3>3. \A l \in Unexpired : leases'[l] = grants'[l]
      BY <3>1 DEF Purged, LeaseInv, LeaseAsGranted, Unexpired, Held
    <3>4. Unexpired \in SUBSET Held
      BY DEF Unexpired
    <3> QED
      BY <1>0, <3>2, <3>3, <3>4, ShrunkTable
  <2>3. ASSUME NEW l \in LeaseIds, LeaseGranted(p, e, q, ttl, high, l)
        PROVE LeaseInv'
    BY <1>0, <2>3, GrantedStep
  <2> QED
    BY <1>1, <2>1, <2>2, <2>3 DEF LeaseCapacity
<1>2. ASSUME NEW p \in Callers, NEW l \in LeaseIds, ReleaseCapacity(p, l)
      PROVE LeaseInv'
  <2>1. CASE leases' = leases
    BY <1>2, <2>1, <1>a DEF ReleaseCapacity
  <2>2. CASE leases' = [leases EXCEPT ![l] = NoLease]
    <3>1. grants' = grants
      BY <1>2 DEF ReleaseCapacity
    <3>2. Held' = Held \ {l}
      BY <2>2 DEF Held, LeaseInv, TypeOK
    <3>3. \A m \in Held \ {l} : leases'[m] = grants'[m]
      BY <2>2, <3>1 DEF LeaseInv, LeaseAsGranted, TypeOK, Held
    <3> QED
      BY <1>0, <3>2, <3>3, ShrunkTable
  <2> QED
    BY <1>2, <2>1, <2>2 DEF ReleaseCapacity
<1>3. ASSUME NEW p \in Callers, NEW e \in Refs, NEW l \in LeaseIds \cup {NoLease},
             NEW r \in RequestIds \cup {NoRequestId}, NEW grad \in BOOLEAN, NEW fits \in BOOLEAN,
             ForwardExpert(p, e, l, r, grad, fits)
      PROVE LeaseInv'
  BY <1>3, <1>a DEF ForwardExpert, ForwardRejected, ForwardAdmitted
<1>4. CASE Tick
  BY <1>4, <1>a DEF Tick
<1>5. CASE Restart
  <2>1. Held' = {}
    BY <1>5 DEF Restart, Held
  <2> QED
    BY <1>0, <2>1, ShrunkTable
<1>6. CASE UNCHANGED vars
  BY <1>6, <1>a DEF vars
<1> QED
  BY <1>1, <1>2, <1>3, <1>4, <1>5, <1>6 DEF Next

THEOREM LeaseInvariant == Spec => []LeaseInv
BY LeaseInvInit, LeaseInvStep, PTL DEF Spec

\* The lease table never exceeds max_active_leases, whatever the calls.
THEOREM LeaseTableBounded == Spec => []LeaseTableBound
BY LeaseInvariant, PTL DEF LeaseInv

\* No call alters a lease once granted, and no id is granted twice.
THEOREM LeasesAsGranted == Spec => []LeaseAsGranted
BY LeaseInvariant, PTL DEF LeaseInv

-----------------------------------------------------------------------------
(* Capacity accounting. *)

\* What ties the remembered request ids to the charges: an id still remembered
\* was last charged no later than remembered, an id forgotten was last charged
\* more than the TTL ago.
ChargesRemembered ==
    \A c \in charges :
        /\ c.at <= now
        /\ seen[c.id] # Never => c.at <= seen[c.id]
        /\ seen[c.id] = Never => now - c.at > RequestIdTtl

AccountInv ==
    /\ TypeOK
    /\ IsFiniteSet(charges)
    /\ ChargedOncePerTtl
    /\ ChargesRemembered

LEMMA AccountInvInit == Init => AccountInv
<1> SUFFICES ASSUME Init PROVE AccountInv
  OBVIOUS
<1>1. IsFiniteSet(charges) /\ Cardinality(charges) = 0 /\ charges = {} /\ load = 0
  BY FS_EmptySet DEF Init
<1>2. BatchTokens * 0 = 0
  BY ConstantsAssumption DEF ConstantsAssumption
<1> QED
  BY <1>1, <1>2, InitTyped DEF AccountInv, ChargedOncePerTtl, ChargesRemembered

\* A request id seen as new was not charged within the TTL.
LEMMA NewIsOld ==
    ASSUME AccountInv, NEW r \in RequestIds, New(r), NEW c \in charges, c.id = r
    PROVE  now - c.at > RequestIdTtl
<1>1. now \in Int /\ c.at \in Int /\ seen[r] \in Int
  BY DEF AccountInv, TypeOK, Time, Charge, Never
<1> QED
  BY <1>1, ConstantsAssumption
     DEF New, Forgotten, AccountInv, ChargesRemembered, ConstantsAssumption

LEMMA ChargeStep ==
    ASSUME AccountInv, TypeOK', NEW r \in RequestIds \cup {NoRequestId}, ChargeOnce(r), now' = now
    PROVE  AccountInv'
<1>0. /\ now \in Int /\ RequestIdTtl \in Nat /\ BatchTokens \in Nat
      /\ \A s \in RequestIds : seen[s] \in Int
      /\ \A c \in charges : c \in Charge /\ c.id \in RequestIds /\ c.at \in Int
  BY ConstantsAssumption DEF AccountInv, TypeOK, Time, Charge, Never, ConstantsAssumption
<1>1. CASE New(r)
  <2> DEFINE new == [id |-> r, at |-> now]
  <2>1. /\ r \in RequestIds
        /\ charges' = charges \cup {new}
        /\ load' = load + BatchTokens
        /\ seen' = [s \in RequestIds |->
                       IF s = r THEN now ELSE IF s \in Forgotten THEN Never ELSE seen[s]]
    BY <1>1 DEF ChargeOnce, New
  <2>2. \A c \in charges : c.id = r => now - c.at > RequestIdTtl
    BY <1>1, <2>1, NewIsOld
  <2>3. new \notin charges
    BY <1>0, <2>2
  <2>4. /\ IsFiniteSet(charges')
        /\ Cardinality(charges') = Cardinality(charges) + 1
        /\ Cardinality(charges) \in Nat
    BY <2>1, <2>3, FS_AddElement, FS_CardinalityType DEF AccountInv
  <2>5. load' = BatchTokens * Cardinality(charges')
    <3>1. BatchTokens * (Cardinality(charges) + 1) = BatchTokens * Cardinality(charges) + BatchTokens
      BY <1>0, <2>4
    <3> QED
      BY <2>1, <2>4, <3>1 DEF AccountInv, ChargedOncePerTtl
  <2>6. ASSUME NEW c \in charges', NEW d \in charges', c.id = d.id, c.at < d.at
        PROVE  d.at - c.at > RequestIdTtl
    <3>1. CASE c \in charges /\ d \in charges
      BY <2>6, <3>1 DEF AccountInv, ChargedOncePerTtl
    <3>2. CASE c \in charges /\ d = new
      BY <2>2, <2>6, <3>2
    <3>3. CASE c = new
      BY <1>0, <2>1, <2>6, <3>3 DEF AccountInv, ChargesRemembered
    <3> QED
      BY <2>1, <3>1, <3>2, <3>3
  <2>7. ASSUME NEW c \in charges'
        PROVE  /\ c.at <= now
               /\ seen'[c.id] # Never => c.at <= seen'[c.id]
               /\ seen'[c.id] = Never => now - c.at > RequestIdTtl
    <3>1. CASE c = new
      BY <1>0, <2>1, <3>1 DEF Never, AccountInv, TypeOK, Time
    <3>2. CASE c \in charges /\ c.id = r
      BY <1>0, <2>1, <2>2, <3>2 DEF AccountInv, ChargesRemembered, TypeOK, Time, Never
    <3>3. CASE c \in charges /\ c.id # r /\ c.id \in Forgotten
      BY <1>0, <2>1, <3>3 DEF AccountInv, ChargesRemembered, Forgotten
    <3>4. CASE c \in charges /\ c.id # r /\ c.id \notin Forgotten
      BY <1>0, <2>1, <3>4 DEF AccountInv, ChargesRemembered
    <3> QED
      BY <2>1, <3>1, <3>2, <3>3, <3>4
  <2> QED
    BY <2>4, <2>5, <2>6, <2>7 DEF AccountInv, ChargedOncePerTtl, ChargesRemembered
<1>2. CASE ~New(r)
  <2>1. /\ charges' = charges /\ load' = load
        /\ \A s \in RequestIds : \/ seen'[s] = seen[s]
                                 \/ s \in Forgotten /\ seen'[s] = Never
    BY <1>2 DEF ChargeOnce
  <2>2. ASSUME NEW c \in charges
        PROVE  /\ c.at <= now
               /\ seen'[c.id] # Never => c.at <= seen'[c.id]
               /\ seen'[c.id] = Never => now - c.at > RequestIdTtl
    <3>1. CASE seen'[c.id] = seen[c.id]
      BY <3>1 DEF AccountInv, ChargesRemembered
    <3>2. CASE c.id \in Forgotten /\ seen'[c.id] = Never
      BY <1>0, <3>2 DEF AccountInv, ChargesRemembered, Forgotten
    <3> QED
      BY <1>0, <2>1, <3>1, <3>2
  <2> QED
    BY <2>1, <2>2 DEF AccountInv, ChargedOncePerTtl, ChargesRemembered
<1> QED
  BY <1>1, <1>2

LEMMA AccountInvStep == AccountInv /\ [Next]_vars => AccountInv'
<1> SUFFICES ASSUME AccountInv, [Next]_vars PROVE AccountInv'
  OBVIOUS
<1>0. TypeOK'
  BY StepTyped DEF AccountInv
<1>a. ASSUME UNCHANGED <<now, seen, load, charges>> PROVE AccountInv'
  BY <1>0, <1>a DEF AccountInv, ChargedOncePerTtl, ChargesRemembered
<1>1. ASSUME NEW p \in Callers, NEW e \in Refs, NEW q \in Qps, NEW ttl \in Ttls, NEW high \in BOOLEAN,
             LeaseCapacity(p, e, q, ttl, high)
      PROVE AccountInv'
  BY <1>1, <1>a DEF LeaseCapacity, LeaseRejected, LeaseExhausted, LeaseGranted
<1>2. ASSUME NEW p \in Callers, NEW l \in LeaseIds, ReleaseCapacity(p, l)
      PROVE AccountInv'
  BY <1>2, <1>a DEF ReleaseCapacity
<1>3. ASSUME NEW p \in Callers, NEW e \in Refs, NEW l \in LeaseIds \cup {NoLease},
             NEW r \in RequestIds \cup {NoRequestId}, NEW grad \in BOOLEAN, NEW fits \in BOOLEAN,
             ForwardExpert(p, e, l, r, grad, fits)
      PROVE AccountInv'
  <2>1. CASE ForwardRejected(p, e, l, grad)
    BY <2>1, <1>a DEF ForwardRejected
  <2>2. CASE ForwardAdmitted(p, e, l, r, fits)
    BY <1>0, <2>2, ChargeStep DEF ForwardAdmitted
  <2> QED
    BY <1>3, <2>1, <2>2 DEF ForwardExpert
<1>4. CASE Tick
  <2>1. now' = now + 1 /\ charges' = charges /\ seen' = seen /\ load' = load
    BY <1>4 DEF Tick
  <2>2. now \in Int /\ RequestIdTtl \in Int /\ \A c \in charges : c.at \in Int
    BY ConstantsAssumption DEF AccountInv, TypeOK, Time, Charge, ConstantsAssumption
  <2>3. ChargesRemembered'
    BY <2>1, <2>2 DEF AccountInv, ChargesRemembered
  <2> QED
    BY <1>0, <2>1, <2>3 DEF AccountInv, ChargedOncePerTtl
<1>5. CASE Restart
  <2>1. charges' = {} /\ load' = 0 /\ IsFiniteSet({}) /\ Cardinality({}) = 0
    BY <1>5, FS_EmptySet DEF Restart
  <2>2. BatchTokens * 0 = 0
    BY ConstantsAssumption DEF ConstantsAssumption
  <2> QED
    BY <1>0, <2>1, <2>2 DEF AccountInv, ChargedOncePerTtl, ChargesRemembered
<1>6. CASE UNCHANGED vars
  BY <1>6, <1>a DEF vars
<1> QED
  BY <1>1, <1>2, <1>3, <1>4, <1>5, <1>6 DEF Next

\* No request id is charged twice within request_id_ttl_ms, and the load is
\* the sum of the charges: at-most-once accounting for any number of retries.
THEOREM ChargedOnce == Spec => []ChargedOncePerTtl
BY AccountInvInit, AccountInvStep, PTL DEF Spec, AccountInv

-----------------------------------------------------------------------------
(* Refusals. *)

\* A lease is refused for capacity only when the live leases fill the table or the
\* expert it was asked for is overloaded: abandoned leases never count, and the load
\* of one expert is no reason to refuse another.
THEOREM RefusalsJustified == Spec => RefusedOnlyAtCapacity
<1> DEFINE Justified ==
      (reply' # NoReply /\ reply'.op = "Lease" /\ reply'.code = "CAPACITY_EXHAUSTED")
      => (Cardinality(Unexpired) >= MaxLeases \/ Overloaded(reply'.expert))
<1>1. [Next]_vars => [Justified]_vars
  <2> SUFFICES ASSUME Next PROVE Justified
    OBVIOUS
  <2>1. ASSUME NEW p \in Callers, NEW e \in Refs, NEW q \in Qps, NEW ttl \in Ttls, NEW high \in BOOLEAN,
               LeaseCapacity(p, e, q, ttl, high)
        PROVE Justified
    <3>1. CASE LeaseRejected(p, e, q, ttl)
      BY <3>1 DEF LeaseRejected, Answer
    <3>2. CASE LeaseExhausted(p, e, q, ttl, high)
      BY <3>2 DEF LeaseExhausted, TableFull, Answer
    <3>3. ASSUME NEW l \in LeaseIds, LeaseGranted(p, e, q, ttl, high, l)
          PROVE Justified
      BY <3>3 DEF LeaseGranted, Answer
    <3> QED
      BY <2>1, <3>1, <3>2, <3>3 DEF LeaseCapacity
  <2>2. ASSUME NEW p \in Callers, NEW l \in LeaseIds, ReleaseCapacity(p, l)
        PROVE Justified
    BY <2>2 DEF ReleaseCapacity, Answer
  <2>3. ASSUME NEW p \in Callers, NEW e \in Refs, NEW l \in LeaseIds \cup {NoLease},
               NEW r \in RequestIds \cup {NoRequestId}, NEW grad \in BOOLEAN, NEW fits \in BOOLEAN,
               ForwardExpert(p, e, l, r, grad, fits)
        PROVE Justified
    BY <2>3 DEF ForwardExpert, ForwardRejected, ForwardAdmitted, Answer
  <2>4. Tick \/ Restart => Justified
    BY DEF Tick, Restart
  <2> QED
    BY <2>1, <2>2, <2>3, <2>4 DEF Next
<1> QED
  BY <1>1, PTL DEF Spec, RefusedOnlyAtCapacity

-----------------------------------------------------------------------------
(* What a caller sees of the node. *)

\* The step of a table of p's leases that EachCallerSeesATable asks for.
TableStep(p) ==
    /\ Outcome(reply'.code)
          \in TableAnswers(reply'.op, reply'.lease, reply'.lease # NoLease, Own(p))
    /\ Own(p)' = TableAfter(reply'.op, reply'.lease, Outcome(reply'.code), Own(p))
CallerStep(p) == IF AnsweredOn(p)' THEN TableStep(p) ELSE Own(p)' \subseteq Own(p)

\* No more of p's leases are in the table than leases that stand.
LEMMA OwnSmaller ==
    ASSUME LeaseInv, NEW p \in Callers
    PROVE  Cardinality(Own(p)) \in Nat /\ Cardinality(Own(p)) <= Cardinality(Unexpired)
BY UnexpiredSmaller, FS_Subset, FS_CardinalityType DEF Own

\* A step that keeps every lease that stands keeps each caller's.
LEMMA OwnKept ==
    ASSUME NEW p \in Callers, now' = now,
           \A l \in LeaseIds : l \in Unexpired => leases'[l] = leases[l],
           \A l \in LeaseIds : l \notin Unexpired => leases'[l] \in {leases[l], NoLease}
    PROVE  Own(p)' = Own(p)
<1>1. ASSUME NEW l \in LeaseIds PROVE l \in Own(p)' <=> l \in Own(p)
  BY <1>1 DEF Own, Unexpired, Held, Expired
<1> QED
  BY <1>1 DEF Own, Unexpired, Held

\* A refusal, and a forward that is served, leave the table as it was.
LEMMA UnchangedTable ==
    ASSUME LeaseInv, NEW p \in Callers, Own(p)' = Own(p), NEW who \in Callers,
           NEW op \in {"Lease", "Forward"}, NEW e \in Refs \cup {NoExpert},
           NEW l \in LeaseIds \cup {NoLease}, NEW code \in Code,
           reply' = Answer(op, who, e, l, code),
           code = "OK" => op = "Forward" /\ (l # NoLease => l \in Unexpired),
           grants' = grants
    PROVE  CallerStep(p)
<1>1. reply'.op = op /\ reply'.lease = l /\ reply'.code = code
  BY DEF Answer
<1>2. CASE code # "OK"
  BY <1>1, <1>2 DEF CallerStep, TableStep, Outcome, TableAnswers, TableAfter
<1>3. CASE code = "OK"
  <2>1. AnsweredOn(p)' => (l # NoLease => l \in Own(p))
    BY <1>1, <1>3 DEF AnsweredOn, Own, LeaseInv, LeaseAsGranted, Unexpired
  <2> QED
    BY <1>1, <1>3, <2>1 DEF CallerStep, TableStep, Outcome, TableAnswers, TableAfter
<1> QED
  BY <1>2, <1>3

LEMMA GrantSeen ==
    ASSUME LeaseInv, NEW p \in Callers, NEW who \in Callers, NEW e \in Refs, NEW q \in Qps,
           NEW ttl \in Ttls, NEW high \in BOOLEAN, NEW l \in LeaseIds,
           LeaseGranted(who, e, q, ttl, high, l)
    PROVE  CallerStep(p)
<1> DEFINE lease == [principal |-> who, expert |-> e, deadline |-> now + LeaseTtl(ttl),
                     qps |-> LesserOf(q, Capacity[e])]
<1>1. /\ leases' = [Purged EXCEPT ![l] = lease]
      /\ grants' = [grants EXCEPT ![l] = lease]
      /\ grants[l] = NoLease /\ ~TableFull /\ ValidTtl(LeaseTtl(ttl)) /\ now' = now
      /\ reply' = Answer("Lease", who, e, l, "OK")
  BY DEF LeaseGranted, LeaseAdmissible, LeaseWellFormed
<1>2. lease \in Lease /\ lease # NoLease
  BY LeaseTyped, NullsAssumption DEF LeaseGranted, LeaseAdmissible, LeaseWellFormed, LeaseInv
<1>3. Purged \in [LeaseIds -> Lease \cup {NoLease}] /\ grants \in [LeaseIds -> Lease \cup {NoLease}]
  BY PurgedTyped DEF LeaseInv, TypeOK
<1>4. l \notin Own(p)
  BY <1>1 DEF LeaseInv, LeaseAsGranted, Held, Unexpired, Own
<1>5. lease.principal = who /\ ~(lease.deadline < now)
  BY <1>1, ConstantsAssumption DEF LeaseInv, TypeOK, Time, ValidTtl, LeaseTtl, ConstantsAssumption
<1> HIDE DEF lease
<1>6. leases'[l] = lease /\ grants'[l] = lease
  BY <1>1, <1>3
<1>7. ASSUME NEW m \in LeaseIds, m # l PROVE m \in Own(p)' <=> m \in Own(p)
  <2>1. leases'[m] = Purged[m]
    BY <1>1, <1>3, <1>7
  <2> QED
    BY <1>1, <2>1 DEF Purged, Own, Unexpired, Held, Expired
<1>8. l \in Own(p)' <=> who = p
  BY <1>1, <1>2, <1>5, <1>6 DEF Own, Unexpired, Held, Expired
<1>9. Own(p)' = IF who = p THEN Own(p) \cup {l} ELSE Own(p)
  BY <1>4, <1>7, <1>8 DEF Own, Unexpired, Held
<1>10. /\ reply'.op = "Lease" /\ reply'.who = who /\ reply'.lease = l /\ reply'.code = "OK"
  BY <1>1 DEF Answer
<1>11. CASE who = p
  <2>1. Cardinality(Own(p)) < MaxLeases
    BY <1>1, OwnSmaller, UnexpiredSmaller, ConstantsAssumption DEF TableFull, ConstantsAssumption
  <2>2. AnsweredOn(p)'
    <3>1. Answer("Lease", who, e, l, "OK") # NoReply
      BY NullsAssumption, AnswerTyped DEF Code
    <3>2. reply' # NoReply
      BY <1>1, <3>1
    <3>3. grants'[reply'.lease] # NoLease /\ grants'[reply'.lease].principal = p
      BY <1>2, <1>5, <1>6, <1>10, <1>11
    <3> QED
      BY <1>10, <1>11, <3>2, <3>3 DEF AnsweredOn
  <2> QED
    BY <1>9, <1>10, <1>11, <2>1, <2>2 DEF CallerStep, TableStep, Outcome, TableAnswers, TableAfter
<1>12. CASE who # p
  <2>1. ~AnsweredOn(p)'
    BY <1>10, <1>12 DEF AnsweredOn
  <2> QED
    BY <1>9, <1>12, <2>1 DEF CallerStep
<1> QED
  BY <1>11, <1>12

LEMMA ReleaseSeen ==
    ASSUME LeaseInv, NEW p \in Callers, NEW who \in Callers, NEW l \in LeaseIds,
           ReleaseCapacity(who, l)
    PROVE  CallerStep(p)
<1>1. now' = now /\ grants' = grants
  BY DEF ReleaseCapacity
<1>2. CASE l \in Held /\ ~MayRelease(l, who)
  <2>1. leases' = leases /\ reply' = Answer("Release", who, NoExpert, l, "ACL_DENIED")
    BY <1>2 DEF ReleaseCapacity
  <2>2. Own(p)' = Own(p)
    BY <1>1, <2>1 DEF Own, Unexpired, Held, Expired
  <2>3. ~AnsweredOn(p)'
    <3>1. grants[l] = leases[l] /\ leases[l].principal # who /\ l \in LeaseIds
      BY <1>2 DEF MayRelease, LeaseInv, LeaseAsGranted, Held
    <3>2. l # NoLease
      BY ConstantsAssumption DEF ConstantsAssumption
    <3> QED
      BY <1>1, <2>1, <3>1, <3>2 DEF AnsweredOn, Answer
  <2> QED
    BY <2>2, <2>3 DEF CallerStep
<1>3. CASE l \in Held => MayRelease(l, who)
  <2>1. leases' = [leases EXCEPT ![l] = NoLease] /\ reply' = Answer("Release", who, NoExpert, l, "OK")
    BY <1>3 DEF ReleaseCapacity
  <2>2. ASSUME NEW m \in LeaseIds PROVE m \in Own(p)' <=> m \in Own(p) /\ m # l
    BY <1>1, <2>1, <2>2 DEF Own, Unexpired, Held, Expired, LeaseInv, TypeOK
  <2>3. Own(p)' = Own(p) \ {l}
    BY <2>2 DEF Own, Unexpired, Held
  <2> QED
    BY <2>1, <2>3 DEF CallerStep, TableStep, Outcome, Answer, TableAnswers, TableAfter
<1> QED
  BY <1>2, <1>3

LEMMA ForwardSeen ==
    ASSUME LeaseInv, NEW p \in Callers, NEW who \in Callers, NEW e \in Refs,
           NEW l \in LeaseIds \cup {NoLease}, NEW r \in RequestIds \cup {NoRequestId},
           NEW grad \in BOOLEAN, NEW fits \in BOOLEAN, ForwardExpert(who, e, l, r, grad, fits)
    PROVE  CallerStep(p)
<1>1. UNCHANGED <<now, leases, grants>>
  BY DEF ForwardExpert, ForwardRejected, ForwardAdmitted
<1>2. Own(p)' = Own(p)
  BY <1>1 DEF Own, Unexpired, Held, Expired
<1>3. \/ \E code \in Code \ {"OK"} : reply' = Answer("Forward", who, e, l, code)
      \/ /\ l # NoLease => l \in Unexpired
         /\ reply' = Answer("Forward", who, e, l, "OK")
  BY DEF ForwardExpert, ForwardRejected, ForwardAdmitted, LeaseStands, Unexpired, Code
<1> QED
  BY <1>1, <1>2, <1>3, UnchangedTable DEF Code

LEMMA CallersSee ==
    ASSUME LeaseInv, [Next]_vars, NEW p \in Callers
    PROVE  vars' = vars \/ CallerStep(p)
<1>1. ASSUME NEW who \in Callers, NEW e \in Refs, NEW q \in Qps, NEW ttl \in Ttls,
             NEW high \in BOOLEAN, LeaseCapacity(who, e, q, ttl, high)
      PROVE CallerStep(p)
  <2>1. CASE LeaseRejected(who, e, q, ttl)
    <3>1. /\ UNCHANGED <<now, leases, grants>>
          /\ \E code \in Code \ {"OK"} : reply' = Answer("Lease", who, e, NoLease, code)
      BY <2>1 DEF LeaseRejected, Code
    <3>2. Own(p)' = Own(p)
      BY <3>1 DEF Own, Unexpired, Held, Expired
    <3> QED
      BY <3>1, <3>2, UnchangedTable
  <2>2. CASE LeaseExhausted(who, e, q, ttl, high)
    <3>1. /\ now' = now /\ grants' = grants /\ leases' = Purged
          /\ reply' = Answer("Lease", who, e, NoLease, "CAPACITY_EXHAUSTED")
      BY <2>2 DEF LeaseExhausted
    <3>2. Own(p)' = Own(p)
      BY <3>1, OwnKept DEF Purged
    <3> QED
      BY <3>1, <3>2, UnchangedTable DEF Code
  <2>3. ASSUME NEW l \in LeaseIds, LeaseGranted(who, e, q, ttl, high, l)
        PROVE CallerStep(p)
    BY <2>3, GrantSeen
  <2> QED
    BY <1>1, <2>1, <2>2, <2>3 DEF LeaseCapacity
<1>2. ASSUME NEW who \in Callers, NEW l \in LeaseIds, ReleaseCapacity(who, l)
      PROVE CallerStep(p)
  BY <1>2, ReleaseSeen
<1>3. ASSUME NEW who \in Callers, NEW e \in Refs, NEW l \in LeaseIds \cup {NoLease},
             NEW r \in RequestIds \cup {NoRequestId}, NEW grad \in BOOLEAN, NEW fits \in BOOLEAN,
             ForwardExpert(who, e, l, r, grad, fits)
      PROVE CallerStep(p)
  BY <1>3, ForwardSeen
<1>4. CASE Tick
  <2>1. now' = now + 1 /\ leases' = leases /\ reply' = NoReply
    BY <1>4 DEF Tick
  <2>2. \A l \in Held : leases[l].deadline \in Nat
    BY DEF LeaseInv, TypeOK, Held, Lease
  <2>3. Own(p)' \subseteq Own(p)
    BY <2>1, <2>2 DEF Own, Unexpired, Held, Expired, LeaseInv, TypeOK, Time
  <2> QED
    BY <2>1, <2>3 DEF CallerStep, AnsweredOn
<1>5. CASE Restart
  <2>1. Own(p)' = {} /\ reply' = NoReply
    BY <1>5 DEF Restart, Own, Unexpired, Held
  <2> QED
    BY <2>1 DEF CallerStep, AnsweredOn
<1> QED
  BY <1>1, <1>2, <1>3, <1>4, <1>5 DEF Next

\* To each of its callers the node is the table of that caller's own leases which
\* HostRun takes a peer for: it answers and does what LeaseTable says, and other
\* callers, time and crashes only take leases away.
THEOREM NodeIsALeaseTable == Spec => EachCallerSeesATable
<1>1. LeaseInv /\ [Next]_vars => [\A p \in Callers : CallerStep(p)]_vars
  BY CallersSee
<1>2. [][\A p \in Callers : CallerStep(p)]_vars => EachCallerSeesATable
  BY DEF EachCallerSeesATable, CallerStep, TableStep
<1> QED
  BY <1>1, <1>2, LeaseInvariant, PTL DEF Spec

-----------------------------------------------------------------------------
(* The node implements the lease contract, when its ACL is closed. *)

\* With a closed ACL every lease has a grantee, so nobody else may give it back.
GranteeKnown == \A l \in Held : leases[l].principal # Anonymous

RefinementInv == LeaseInv /\ (~AclOpen => GranteeKnown)

LEMMA RefinementInvStep == RefinementInv /\ [Next]_vars => RefinementInv'
<1> SUFFICES ASSUME RefinementInv, [Next]_vars, ~AclOpen PROVE GranteeKnown'
  BY LeaseInvStep DEF RefinementInv
<1>0. GranteeKnown /\ TypeOK
  BY DEF RefinementInv, LeaseInv
<1>a. ASSUME \A l \in LeaseIds : leases'[l] \in {leases[l], NoLease} PROVE GranteeKnown'
  BY <1>0, <1>a DEF GranteeKnown, Held
<1>1. ASSUME NEW p \in Callers, NEW e \in Refs, NEW q \in Qps, NEW ttl \in Ttls, NEW high \in BOOLEAN,
             LeaseCapacity(p, e, q, ttl, high)
      PROVE GranteeKnown'
  <2>1. CASE LeaseRejected(p, e, q, ttl)
    BY <2>1, <1>a DEF LeaseRejected
  <2>2. CASE LeaseExhausted(p, e, q, ttl, high)
    BY <2>2, <1>a DEF LeaseExhausted, Purged
  <2>3. ASSUME NEW l \in LeaseIds, LeaseGranted(p, e, q, ttl, high, l)
        PROVE GranteeKnown'
    <3> DEFINE lease == [principal |-> p, expert |-> e, deadline |-> now + LeaseTtl(ttl),
                         qps |-> LesserOf(q, Capacity[e])]
    <3>1. leases' = [Purged EXCEPT ![l] = lease] /\ p \in AclAllow
      BY <2>3 DEF LeaseGranted, LeaseAdmissible, LeaseWellFormed, Allowed
    <3>2. lease.principal # Anonymous
      BY <3>1, ConstantsAssumption DEF ConstantsAssumption
    <3> HIDE DEF lease
    <3>3. \A m \in LeaseIds : leases'[m] \in {leases[m], NoLease} \/ leases'[m] = lease
      BY <3>1 DEF Purged
    <3> QED
      BY <1>0, <3>2, <3>3 DEF GranteeKnown, Held
  <2> QED
    BY <1>1, <2>1, <2>2, <2>3 DEF LeaseCapacity
<1>2. ASSUME NEW p \in Callers, NEW l \in LeaseIds, ReleaseCapacity(p, l)
      PROVE GranteeKnown'
  BY <1>0, <1>2, <1>a DEF ReleaseCapacity, TypeOK
<1>3. ASSUME NEW p \in Callers, NEW e \in Refs, NEW l \in LeaseIds \cup {NoLease},
             NEW r \in RequestIds \cup {NoRequestId}, NEW grad \in BOOLEAN, NEW fits \in BOOLEAN,
             ForwardExpert(p, e, l, r, grad, fits)
      PROVE GranteeKnown'
  BY <1>3, <1>a DEF ForwardExpert, ForwardRejected, ForwardAdmitted
<1>4. CASE Tick
  BY <1>4, <1>a DEF Tick
<1>5. CASE Restart
  BY <1>5, <1>a DEF Restart
<1>6. CASE UNCHANGED vars
  BY <1>6, <1>a DEF vars
<1> QED
  BY <1>1, <1>2, <1>3, <1>4, <1>5, <1>6 DEF Next

LEMMA RefinementInvariant == Spec => []RefinementInv
<1>1. Init => RefinementInv
  BY LeaseInvInit DEF RefinementInv, GranteeKnown, Init, Held
<1> QED
  BY <1>1, RefinementInvStep, PTL DEF Spec

\* The contract's overdue leases are those the node takes for expired.
LEMMA OverdueIsExpired == LeaseInv => Contract!Overdue = Held \ Unexpired
<1> SUFFICES ASSUME LeaseInv PROVE Contract!Overdue = Held \ Unexpired
  OBVIOUS
<1>1. \A l \in Held : l \in LeaseIds /\ ContractGrants[l].deadline = leases[l].deadline
  BY DEF ContractGrants, Held, LeaseInv, LeaseAsGranted
<1> QED
  BY <1>1 DEF Contract!Overdue, Unexpired, Expired

\* A granted lease seen through the contract is not the null value.
LEMMA ContractGrantsNull ==
    ASSUME TypeOK, NEW l \in LeaseIds
    PROVE  ContractGrants[l] = NoLease <=> grants[l] = NoLease
<1>1. CASE grants[l] # NoLease
  <2>1. grants[l] \in Lease
    BY <1>1 DEF TypeOK
  <2>2. [principal |-> grants[l].principal, expert |-> grants[l].expert,
         deadline |-> grants[l].deadline] \in [principal : Callers, expert : Experts, deadline : Nat]
    BY <2>1 DEF Lease
  <2> QED
    BY <1>1, <2>2, NullsAssumption DEF ContractGrants
<1>2. CASE grants[l] = NoLease
  BY <1>2 DEF ContractGrants
<1> QED
  BY <1>1, <1>2

\* A step that only drops overdue leases, and reports neither a forward nor a
\* release, is an Expire step.
LEMMA DroppingRefines ==
    ASSUME LeaseInv, UNCHANGED <<now, grants>>, NEW gone \in SUBSET (Held \ Unexpired),
           Held' = Held \ gone, ContractEvent' = NoReply
    PROVE  Contract!Expire
<1>1. ContractGrants' = ContractGrants
  BY DEF ContractGrants
<1>2. gone \in SUBSET Contract!Overdue
  BY OverdueIsExpired
<1> QED
  BY <1>1, <1>2 DEF Contract!Expire

LEMMA GrantRefines ==
    ASSUME LeaseInv, NEW p \in Callers, NEW e \in Refs, NEW q \in Qps, NEW ttl \in Ttls,
           NEW high \in BOOLEAN, NEW l \in LeaseIds, LeaseGranted(p, e, q, ttl, high, l)
    PROVE  Contract!Next
<1> DEFINE d == now + LeaseTtl(ttl)
           lease == [principal |-> p, expert |-> e, deadline |-> d, qps |-> LesserOf(q, Capacity[e])]
           seenLease == [principal |-> p, expert |-> e, deadline |-> d]
<1>1. /\ leases' = [Purged EXCEPT ![l] = lease]
      /\ grants' = [grants EXCEPT ![l] = lease]
      /\ grants[l] = NoLease /\ e \in Experts /\ ValidTtl(LeaseTtl(ttl)) /\ ValidQps(q)
      /\ reply' = Answer("Lease", p, e, l, "OK") /\ now' = now
  BY DEF LeaseGranted, LeaseAdmissible, LeaseWellFormed
<1>2. TypeOK
  BY DEF LeaseInv
<1>3. lease \in Lease /\ lease # NoLease
  BY <1>1, <1>2, LeaseTyped, NullsAssumption
<1>4. d \in 0..(MaxTime + MaxTtl) /\ d > now
  BY <1>1, <1>2, ConstantsAssumption DEF TypeOK, Time, ValidTtl, LeaseTtl, ConstantsAssumption
<1>5. ContractGrants[l] = NoLease
  BY <1>1, <1>2, ContractGrantsNull
<1>6. ContractGrants' = [ContractGrants EXCEPT ![l] = seenLease]
  <2>1. \A m \in LeaseIds : grants'[m] = IF m = l THEN lease ELSE grants[m]
    BY <1>1, <1>2 DEF TypeOK
  <2>2. lease.principal = p /\ lease.expert = e /\ lease.deadline = d
    OBVIOUS
  <2> HIDE DEF lease, d
  <2>3. \A m \in LeaseIds :
           ContractGrants'[m] = IF m = l THEN seenLease ELSE ContractGrants[m]
    BY <1>3, <2>1, <2>2 DEF ContractGrants
  <2> HIDE DEF seenLease
  <2>4. /\ ContractGrants' = [m \in LeaseIds |-> ContractGrants'[m]]
        /\ ContractGrants = [m \in LeaseIds |-> ContractGrants[m]]
    BY DEF ContractGrants
  <2> QED
    BY <2>3, <2>4
<1>7. Held' = (Held \ (Held \ Unexpired)) \cup {l}
  <2>1. Purged \in [LeaseIds -> Lease \cup {NoLease}]
    BY <1>2, PurgedTyped
  <2>2. \A m \in LeaseIds : leases'[m] = IF m = l THEN lease ELSE Purged[m]
    BY <1>1, <2>1
  <2> HIDE DEF lease
  <2>3. \A m \in LeaseIds : leases'[m] # NoLease <=> (m = l \/ m \in Unexpired)
    BY <1>3, <2>2 DEF Purged, Unexpired, Held
  <2> QED
    BY <2>3 DEF Held, Unexpired
<1>8. Held \ Unexpired \in SUBSET Contract!Overdue
  BY OverdueIsExpired
<1>9. ContractEvent' = NoReply
  BY <1>1 DEF ContractEvent, Answer
<1> HIDE DEF d
<1>10. Contract!Grant(l, p, e, d)
  BY <1>1, <1>4, <1>5, <1>6, <1>7, <1>8, <1>9 DEF Contract!Grant
<1> QED
  BY <1>1, <1>4, <1>10 DEF Contract!Next

LEMMA ReleaseRefines ==
    ASSUME RefinementInv, ~AclOpen, NEW p \in Callers, NEW l \in LeaseIds, ReleaseCapacity(p, l)
    PROVE  Contract!Next
<1>1. /\ ContractGrants' = ContractGrants /\ now' = now /\ grants' = grants
  BY DEF ReleaseCapacity, ContractGrants
<1>2. CASE l \in Held /\ ~MayRelease(l, p)
  <2>1. leases' = leases /\ reply' = Answer("Release", p, NoExpert, l, "ACL_DENIED")
    BY <1>2 DEF ReleaseCapacity
  <2>2. Held' = Held \ {} /\ ContractEvent' = NoReply
    BY <2>1 DEF Held, ContractEvent, Answer
  <2>3. Contract!Expire
    BY <1>1, <2>2, DroppingRefines DEF RefinementInv
  <2> QED
    BY <2>3 DEF Contract!Next
<1>3. CASE l \in Held => MayRelease(l, p)
  <2>1. leases' = [leases EXCEPT ![l] = NoLease] /\ reply' = Answer("Release", p, NoExpert, l, "OK")
    BY <1>3 DEF ReleaseCapacity
  <2>2. Held' = Held \ {l}
    BY <2>1 DEF Held, RefinementInv, LeaseInv, TypeOK
  <2>3. l \in Held => ContractGrants[l].principal = p
    BY <1>3 DEF MayRelease, RefinementInv, GranteeKnown, LeaseInv, LeaseAsGranted, ContractGrants, Held
  <2>4. Answer("Release", p, NoExpert, l, "OK") # NoReply
    BY NullsAssumption, AnswerTyped DEF Code
  <2>5. ContractEvent' = [op |-> "Release", lease |-> l, principal |-> p]
    BY <2>1, <2>4, ConstantsAssumption DEF ContractEvent, Answer, ConstantsAssumption
  <2>6. Contract!GiveBack(l, p)
    BY <1>1, <2>2, <2>3, <2>5 DEF Contract!GiveBack
  <2> QED
    BY <2>6 DEF Contract!Next
<1> QED
  BY <1>2, <1>3

LEMMA ForwardRefines ==
    ASSUME RefinementInv, ~AclOpen, NEW p \in Callers, NEW e \in Refs,
           NEW l \in LeaseIds \cup {NoLease}, NEW r \in RequestIds \cup {NoRequestId},
           NEW grad \in BOOLEAN, NEW fits \in BOOLEAN, ForwardExpert(p, e, l, r, grad, fits)
    PROVE  Contract!Next
<1>1. UNCHANGED <<now, leases, grants>>
  BY DEF ForwardExpert, ForwardRejected, ForwardAdmitted
<1>2. Held' = Held /\ ContractGrants' = ContractGrants
  BY <1>1 DEF Held, ContractGrants
<1>3. ASSUME NEW code \in Code \ {"OK"}, reply' = Answer("Forward", p, e, l, code)
      PROVE Contract!Next
  <2>1. ContractEvent' = NoReply
    BY <1>3 DEF ContractEvent, Answer
  <2>2. Contract!Expire
    <3>1. Held' = Held \ {} /\ {} \in SUBSET (Held \ Unexpired)
      BY <1>2
    <3> QED
      BY <1>1, <2>1, <3>1, DroppingRefines DEF RefinementInv
  <2> QED
    BY <2>2 DEF Contract!Next
<1>4. ASSUME l = NoLease, reply' = Answer("Forward", p, e, l, "OK")
      PROVE Contract!Next
  <2>1. ContractEvent' = NoReply
    BY <1>4 DEF ContractEvent, Answer
  <2>2. Held' = Held \ {} /\ {} \in SUBSET (Held \ Unexpired)
    BY <1>2
  <2>3. Contract!Expire
    BY <1>1, <2>1, <2>2, DroppingRefines DEF RefinementInv
  <2> QED
    BY <2>3 DEF Contract!Next
<1>5. ASSUME l # NoLease, LeaseStands(l), LeaseCovers(l, p, e), e \in Experts,
             reply' = Answer("Forward", p, e, l, "OK")
      PROVE Contract!Next
  <2>1. l \in LeaseIds /\ l \in Held \ Contract!Overdue
    BY <1>5, OverdueIsExpired DEF LeaseStands, Unexpired, RefinementInv, Held
  <2>2. ContractGrants[l].principal = p /\ ContractGrants[l].expert = e
    BY <1>5, <2>1 DEF LeaseCovers, RefinementInv, GranteeKnown, LeaseInv, LeaseAsGranted, ContractGrants, Held
  <2>3. Answer("Forward", p, e, l, "OK") # NoReply
    BY NullsAssumption, AnswerTyped DEF Code
  <2>4. ContractEvent' = [op |-> "Forward", lease |-> l, principal |-> p, expert |-> e]
    BY <1>5, <2>3 DEF ContractEvent, Answer
  <2>5. Contract!Serve(l, p, e)
    BY <1>1, <1>2, <2>1, <2>2, <2>4 DEF Contract!Serve
  <2> QED
    BY <1>5, <2>1, <2>5 DEF Contract!Next
<1>6. CASE ForwardRejected(p, e, l, grad)
  BY <1>3, <1>6 DEF ForwardRejected, Code
<1>7. CASE ForwardAdmitted(p, e, l, r, fits)
  <2>1. \/ \E code \in Code \ {"OK"} : reply' = Answer("Forward", p, e, l, code)
        \/ l = NoLease /\ reply' = Answer("Forward", p, e, l, "OK")
        \/ /\ l # NoLease /\ LeaseStands(l) /\ LeaseCovers(l, p, e) /\ e \in Experts
           /\ reply' = Answer("Forward", p, e, l, "OK")
    BY <1>7 DEF ForwardAdmitted, Code
  <2> QED
    BY <2>1, <1>3, <1>4, <1>5
<1> QED
  BY <1>6, <1>7 DEF ForwardExpert

\* With a closed ACL the node implements LeaseContract: a lease serves only forwards
\* of its grantee to its expert, until given back, overdue or lost in a crash.
THEOREM NodeImplementsLeaseContract ==
    ASSUME ~AclOpen PROVE Spec => ImplementsLeaseContract
<1>1. Init => Contract!Init
  <2> SUFFICES ASSUME Init PROVE Contract!Init
    OBVIOUS
  <2>1. Held = {} /\ ContractEvent = NoReply
    BY DEF Init, Held, ContractEvent
  <2>2. ContractGrants = [l \in LeaseIds |-> NoLease]
    BY DEF Init, ContractGrants
  <2> QED
    BY <2>1, <2>2 DEF Init, Contract!Init
<1>2. RefinementInv /\ [Next]_vars => [Contract!Next]_(Contract!cvars)
  <2> SUFFICES ASSUME RefinementInv, [Next]_vars PROVE [Contract!Next]_(Contract!cvars)
    OBVIOUS
  <2>1. ASSUME NEW p \in Callers, NEW e \in Refs, NEW q \in Qps, NEW ttl \in Ttls, NEW high \in BOOLEAN,
               LeaseCapacity(p, e, q, ttl, high)
        PROVE Contract!Next
    <3>1. CASE LeaseRejected(p, e, q, ttl)
      <4>1. UNCHANGED <<now, grants, leases>> /\ ContractEvent' = NoReply
        BY <3>1 DEF LeaseRejected, ContractEvent, Answer
      <4>2. Held' = Held \ {} /\ {} \in SUBSET (Held \ Unexpired)
        BY <4>1 DEF Held
      <4>3. Contract!Expire
        BY <4>1, <4>2, DroppingRefines DEF RefinementInv
      <4> QED
        BY <4>3 DEF Contract!Next
    <3>2. CASE LeaseExhausted(p, e, q, ttl, high)
      <4>1. UNCHANGED <<now, grants>> /\ leases' = Purged /\ ContractEvent' = NoReply
        BY <3>2 DEF LeaseExhausted, ContractEvent, Answer
      <4>2. Held' = Held \ (Held \ Unexpired)
        BY <4>1 DEF Held, Purged, Unexpired
      <4>3. Contract!Expire
        BY <4>1, <4>2, DroppingRefines DEF RefinementInv
      <4> QED
        BY <4>3 DEF Contract!Next
    <3>3. ASSUME NEW l \in LeaseIds, LeaseGranted(p, e, q, ttl, high, l)
          PROVE Contract!Next
      BY <3>3, GrantRefines DEF RefinementInv
    <3> QED
      BY <2>1, <3>1, <3>2, <3>3 DEF LeaseCapacity
  <2>2. CASE Tick
    <3>1. now' = now + 1 /\ Held' = Held /\ ContractGrants' = ContractGrants /\ ContractEvent' = NoReply
      BY <2>2 DEF Tick, Held, ContractGrants, ContractEvent
    <3> QED
      BY <3>1 DEF Contract!Next, Contract!Advance
  <2>3. CASE Restart
    <3>1. now' = now /\ Held' = {} /\ ContractGrants' = ContractGrants /\ ContractEvent' = NoReply
      BY <2>3 DEF Restart, Held, ContractGrants, ContractEvent
    <3> QED
      BY <3>1 DEF Contract!Next, Contract!Crash
  <2>4. CASE UNCHANGED vars
    BY <2>4 DEF vars, Contract!cvars, Held, ContractGrants, ContractEvent
  <2> QED
    BY <2>1, <2>2, <2>3, <2>4, ReleaseRefines, ForwardRefines DEF Next
<1> QED
  BY <1>1, <1>2, RefinementInvariant, PTL DEF Spec, ImplementsLeaseContract, Contract!Spec

=============================================================================
