--------------------------- MODULE RegistryProofs ---------------------------
(***************************************************************************)
(* Proofs about Registry for every value of its constants.                 *)
(***************************************************************************)
EXTENDS Registry, FiniteSetTheorems, TLAPS

Table == [Refs -> Entry \cup {NoEntry}]

-----------------------------------------------------------------------------
(* The tables the handlers build. *)

\* Refreshing routability keeps the table, but for the routable flags.
LEMMA RefreshedTable ==
    ASSUME NEW t \in Table
    PROVE  /\ Refreshed(t) \in Table
           /\ \A r \in Refs :
                /\ Refreshed(t)[r] = NoEntry <=> t[r] = NoEntry
                /\ t[r] # NoEntry =>
                     /\ Refreshed(t)[r].beat = t[r].beat
                     /\ Refreshed(t)[r].node = t[r].node
                     /\ Refreshed(t)[r].promoted = t[r].promoted
                     /\ Refreshed(t)[r].routable = (t[r].promoted /\ Fresh(t[r]))
                     /\ Refreshed(t)[r].owner = t[r].owner
                     /\ Refreshed(t)[r].version = t[r].version
<1>1. ASSUME NEW r \in Refs, t[r] # NoEntry
      PROVE  /\ Refreshed(t)[r] \in Entry /\ Refreshed(t)[r] # NoEntry
             /\ Refreshed(t)[r].beat = t[r].beat
             /\ Refreshed(t)[r].node = t[r].node
             /\ Refreshed(t)[r].promoted = t[r].promoted
             /\ Refreshed(t)[r].routable = (t[r].promoted /\ Fresh(t[r]))
             /\ Refreshed(t)[r].owner = t[r].owner
             /\ Refreshed(t)[r].version = t[r].version
  <2>1. t[r] \in Entry
    BY <1>1 DEF Table
  <2>2. Refreshed(t)[r] = [t[r] EXCEPT !.routable = t[r].promoted /\ Fresh(t[r])]
    BY <1>1 DEF Refreshed
  <2>3. (t[r].promoted /\ Fresh(t[r])) \in BOOLEAN
    OBVIOUS
  <2>4. Refreshed(t)[r] \in Entry
    BY <2>1, <2>2, <2>3 DEF Entry
  <2> QED
    BY <2>1, <2>2, <2>4, NullsAssumption DEF Entry
<1>2. ASSUME NEW r \in Refs, t[r] = NoEntry PROVE Refreshed(t)[r] = NoEntry
  BY <1>2 DEF Refreshed
<1>3. Refreshed(t) \in Table
  BY <1>1, <1>2 DEF Refreshed, Table
<1> QED
  BY <1>1, <1>2, <1>3

\* The tables RegisterExpert, Heartbeat and Promote hand to the refresh.
NewEntry(p, v, cap, node, promote) ==
    [version |-> v, offered |-> cap, node |-> node, beat |-> now, cap |-> cap,
     promoted |-> AskedPromotion(promote), routable |-> FALSE, owner |-> p]

RegisteredTable(p, r, v, cap, node, promote) ==
    [entries EXCEPT ![r] = NewEntry(p, v, cap, node, promote)]

BeatenTable(node, named, cap) ==
    [r \in Refs |-> IF r \in Beaten(node, named)
                    THEN [entries[r] EXCEPT !.beat = now, !.cap = Reported(@, cap)]
                    ELSE entries[r]]

PromotedTable(named) ==
    [r \in Refs |-> IF r \in named \cap Registered THEN [entries[r] EXCEPT !.promoted = TRUE]
                    ELSE entries[r]]

LEMMA NewEntryTyped ==
    ASSUME TypeOK, NEW p \in Callers, NEW v \in Versions, NEW cap \in Caps,
           NEW node \in Nodes \cup {NoNode}, NEW promote \in BOOLEAN
    PROVE  NewEntry(p, v, cap, node, promote) \in Entry
BY ConstantsAssumption DEF NewEntry, AskedPromotion, Entry, TypeOK, ConstantsAssumption

LEMMA RegisteredTyped ==
    ASSUME TypeOK, NEW p \in Callers, NEW r \in Refs, NEW v \in Versions, NEW cap \in Caps,
           NEW node \in Nodes \cup {NoNode}, NEW promote \in BOOLEAN
    PROVE  RegisteredTable(p, r, v, cap, node, promote) \in Table
BY NewEntryTyped DEF RegisteredTable, Table, TypeOK

LEMMA BeatenTyped ==
    ASSUME TypeOK, NEW node \in Nodes, NEW named \in SUBSET Refs, NEW cap \in Caps \cup {Unread}
    PROVE  /\ BeatenTable(node, named, cap) \in Table
           /\ \A r \in Refs : BeatenTable(node, named, cap)[r] = NoEntry <=> entries[r] = NoEntry
           /\ \A r \in Beaten(node, named) :
                /\ BeatenTable(node, named, cap)[r].beat = now
                /\ BeatenTable(node, named, cap)[r].node = entries[r].node
                /\ BeatenTable(node, named, cap)[r].promoted = entries[r].promoted
                /\ BeatenTable(node, named, cap)[r].owner = entries[r].owner
                /\ BeatenTable(node, named, cap)[r].version = entries[r].version
           /\ \A r \in Refs \ Beaten(node, named) : BeatenTable(node, named, cap)[r] = entries[r]
<1>1. \A r \in Beaten(node, named) : r \in Refs /\ entries[r] \in Entry /\ entries[r] # NoEntry
  BY DEF Beaten, Registered, TypeOK
<1>2. ASSUME NEW r \in Beaten(node, named)
      PROVE  /\ BeatenTable(node, named, cap)[r] \in Entry
             /\ BeatenTable(node, named, cap)[r].beat = now
             /\ BeatenTable(node, named, cap)[r].node = entries[r].node
             /\ BeatenTable(node, named, cap)[r].promoted = entries[r].promoted
             /\ BeatenTable(node, named, cap)[r].owner = entries[r].owner
             /\ BeatenTable(node, named, cap)[r].version = entries[r].version
  BY <1>1, <1>2 DEF BeatenTable, Reported, Entry, TypeOK
<1>3. \A r \in Refs \ Beaten(node, named) : BeatenTable(node, named, cap)[r] = entries[r]
  BY DEF BeatenTable
<1>4. BeatenTable(node, named, cap) \in Table
  BY <1>2, <1>3 DEF BeatenTable, Table, TypeOK
<1> QED
  BY <1>1, <1>2, <1>3, <1>4, NullsAssumption

LEMMA PromotedTyped ==
    ASSUME TypeOK, NEW named \in SUBSET Refs
    PROVE  /\ PromotedTable(named) \in Table
           /\ \A r \in Refs : PromotedTable(named)[r] = NoEntry <=> entries[r] = NoEntry
           /\ \A r \in Registered :
                /\ PromotedTable(named)[r].beat = entries[r].beat
                /\ PromotedTable(named)[r].node = entries[r].node
                /\ PromotedTable(named)[r].owner = entries[r].owner
                /\ PromotedTable(named)[r].version = entries[r].version
                /\ PromotedTable(named)[r].promoted = (entries[r].promoted \/ r \in named)
<1>1. \A r \in Registered : r \in Refs /\ entries[r] \in Entry /\ entries[r] # NoEntry
  BY DEF Registered, TypeOK
<1>2. ASSUME NEW r \in Registered
      PROVE  /\ PromotedTable(named)[r] \in Entry
             /\ PromotedTable(named)[r].beat = entries[r].beat
             /\ PromotedTable(named)[r].node = entries[r].node
             /\ PromotedTable(named)[r].owner = entries[r].owner
             /\ PromotedTable(named)[r].version = entries[r].version
             /\ PromotedTable(named)[r].promoted = (entries[r].promoted \/ r \in named)
  BY <1>1, <1>2 DEF PromotedTable, Entry
<1>3. \A r \in Refs \ Registered : PromotedTable(named)[r] = entries[r]
  BY DEF PromotedTable
<1>4. PromotedTable(named) \in Table
  BY <1>2, <1>3 DEF PromotedTable, Table, TypeOK
<1> QED
  BY <1>1, <1>2, <1>3, <1>4, NullsAssumption DEF Registered

-----------------------------------------------------------------------------
(* Type correctness. *)

LEMMA StepTyped == TypeOK /\ [Next]_vars => TypeOK'
<1> SUFFICES ASSUME TypeOK, [Next]_vars PROVE TypeOK'
  OBVIOUS
<1>0. \A op \in {"Register", "Heartbeat", "Deregister"}, p \in Callers,
        code \in {"OK", "ACL_DENIED", "INVALID", "STALE_VERSION", "QUOTA_EXCEEDED"} :
          Answer(op, p, code) \in Reply
  BY DEF Answer, Reply
<1>1. ASSUME NEW p \in Callers, NEW r \in Refs, NEW v \in Versions, NEW cap \in Caps,
             NEW node \in Nodes \cup {NoNode}, NEW force \in BOOLEAN, NEW promote \in BOOLEAN,
             NEW valid \in BOOLEAN,
             RegisterExpert(p, r, v, cap, node, force, promote, valid)
      PROVE TypeOK'
  <2>1. CASE RegisterDenied(p)
    BY <2>1, <1>0 DEF RegisterDenied, TypeOK, catalogue, registrations
  <2>2. CASE RegisterRejected(p, r, v, force, valid)
    BY <2>2, <1>0 DEF RegisterRejected, TypeOK, catalogue, registrations
  <2>3. CASE RegisterAccepted(p, r, v, cap, node, force, promote)
    <3>1. entries' \in Table
      <4>1. entries' = Refreshed(RegisteredTable(p, r, v, cap, node, promote))
        BY <2>3 DEF RegisterAccepted, RegisteredTable, NewEntry
      <4> QED
        BY <4>1, RegisteredTyped, RefreshedTable
    <3>2. acl' \in SUBSET (Principals \X Refs)
      BY <2>3, ConstantsAssumption DEF RegisterAccepted, GrantedOnRegister, TypeOK, ConstantsAssumption
    <3>3. reply' \in Reply
      BY <2>3, <1>0 DEF RegisterAccepted
    <3>4. enrolled' \in [Refs -> Time \cup {Never}]
      BY <2>3 DEF RegisterAccepted, TypeOK
    <3>5. promoter' \in SUBSET Refs
      BY <2>3 DEF RegisterAccepted, TypeOK
    <3> QED
      BY <2>3, <3>1, <3>2, <3>3, <3>4, <3>5 DEF RegisterAccepted, TypeOK, Table
  <2> QED
    BY <1>1, <2>1, <2>2, <2>3 DEF RegisterExpert
<1>2. ASSUME NEW p \in Callers, NEW node \in Nodes, NEW named \in SUBSET Refs,
             NEW cap \in Caps \cup {Unread}, Heartbeat(p, node, named, cap)
      PROVE TypeOK'
  <2>1. CASE p \notin Publishers
    BY <1>2, <2>1, <1>0 DEF Heartbeat, TypeOK, catalogue, registrations
  <2>2. CASE p \in Publishers
    <3>1. entries' = Refreshed(BeatenTable(node, named, cap))
      BY <1>2, <2>2 DEF Heartbeat, BeatenTable
    <3>2. entries' \in Table
      BY <3>1, BeatenTyped, RefreshedTable
    <3>3. heard' \in [Nodes -> Time \cup {Never}]
      BY <1>2, <2>2 DEF Heartbeat, TypeOK
    <3> QED
      BY <1>2, <2>2, <1>0, <3>2, <3>3 DEF Heartbeat, TypeOK, Table, registrations
  <2> QED
    BY <2>1, <2>2
<1>3. ASSUME NEW p \in Callers, NEW named \in SUBSET Refs, Deregister(p, named)
      PROVE TypeOK'
  <2>1. entries' \in [Refs -> Entry \cup {NoEntry}]
    BY <1>3 DEF Deregister, TypeOK
  <2>2. reply' \in Reply
    BY <1>3, <1>0 DEF Deregister
  <2> QED
    BY <1>3, <2>1, <2>2 DEF Deregister, TypeOK, registrations
<1>4. ASSUME NEW named \in SUBSET Refs, Promote(named)
      PROVE TypeOK'
  <2>1. entries' = Refreshed(PromotedTable(named))
    BY <1>4 DEF Promote, PromotedTable
  <2>2. entries' \in Table
    BY <2>1, PromotedTyped, RefreshedTable
  <2>3. promoter' \in SUBSET Refs
    BY <1>4 DEF Promote, Registered, TypeOK
  <2> QED
    BY <1>4, <2>2, <2>3 DEF Promote, TypeOK, Table
<1>5. ASSUME NEW q \in Grantees, NEW named \in SUBSET Refs, Grant(q, named) \/ SetAcl(q, named)
      PROVE TypeOK'
  <2>1. acl' \in SUBSET (Principals \X Refs)
    BY <1>5, ConstantsAssumption DEF Grant, SetAcl, TypeOK, ConstantsAssumption
  <2> QED
    BY <1>5, <2>1 DEF Grant, SetAcl, TypeOK, registrations
<1>6. ASSUME NEW p \in Callers, NEW hits \in SUBSET Registered, DescribeHits(p, hits)
      PROVE TypeOK'
  <2>1. entries' \in Table
    BY <1>6, RefreshedTable DEF DescribeHits, TypeOK, Table
  <2>2. [r \in Refs |-> IF r \in hits THEN entries[r].offered ELSE Unread] \in [Refs -> Caps \cup {Unread}]
    BY <1>6 DEF TypeOK, Registered, Entry
  <2>3. answering' \in Describe
    <3>1. /\ {r \in hits : entries'[r].routable} \in SUBSET Refs
          /\ [r \in Refs |-> Unread] \in [Refs -> Caps \cup {Unread}]
      BY DEF Registered
    <3> QED
      BY <1>6, <2>2, <3>1 DEF DescribeHits, Describe
  <2> QED
    BY <1>6, <2>1, <2>3 DEF DescribeHits, TypeOK, Table, registrations
<1>7. ASSUME NEW r \in Refs, DescribeRead(r)
      PROVE TypeOK'
  <2>1. CapacityRead(r) \in Caps \cup {Unread}
    BY <1>7 DEF CapacityRead, DescribeRead, TypeOK, Registered, Entry, Describe
  <2>2. answering \in Describe
    BY <1>7 DEF DescribeRead, TypeOK
  <2>3. answering' \in Describe
    BY <1>7, <2>1, <2>2 DEF DescribeRead, Describe
  <2> QED
    BY <1>7, <2>3 DEF DescribeRead, TypeOK, catalogue, registrations
<1>8. CASE DescribeReply
  BY <1>8 DEF DescribeReply, TypeOK, catalogue, registrations
<1>9. CASE Restart
  BY <1>9, ConstantsAssumption DEF Restart, TypeOK, registrations, ConstantsAssumption
<1>10. CASE Tick
  BY <1>10, ConstantsAssumption DEF Tick, TypeOK, Time, catalogue, registrations, ConstantsAssumption
<1>11. CASE UNCHANGED vars
  BY <1>11 DEF vars, TypeOK
<1>12. ASSUME NEW p \in Readers, NEW named \in SUBSET Refs, DescribeExplicit(p, named)
       PROVE TypeOK'
  BY <1>12, <1>6, ConstantsAssumption DEF DescribeExplicit, VisibleHits, ConstantsAssumption, Callers
<1>13. ASSUME NEW p \in Readers, NEW k \in Limits, DescribeNN(p, k)
       PROVE TypeOK'
  BY <1>13, <1>6, ConstantsAssumption DEF DescribeNN, VisibleHits, ConstantsAssumption, Callers
<1> QED
  BY <1>1, <1>2, <1>3, <1>4, <1>5, <1>7, <1>8, <1>9, <1>10, <1>11, <1>12, <1>13
       DEF Next, PublisherCalls, OperatorCalls, ReaderCalls

LEMMA InitTyped == Init => TypeOK
BY ConstantsAssumption DEF Init, TypeOK, Time, Never, ConstantsAssumption

\* Every variable keeps its type in every behaviour.
THEOREM TypeCorrect == Spec => []TypeOK
BY InitTyped, StepTyped, PTL DEF Spec

-----------------------------------------------------------------------------
(* The quota. *)

\* The quota counts finite sets only as long as the table stays finite.
QuotaInv ==
    /\ TypeOK
    /\ IsFiniteSet(Registered)
    /\ QuotaBound

\* A table with the same references, or fewer, keeps the quota.
LEMMA FewerRegistered ==
    ASSUME QuotaInv, TypeOK', Registered' \subseteq Registered
    PROVE  QuotaInv'
<1>1. IsFiniteSet(Registered')
  BY FS_Subset DEF QuotaInv
<1>2. ASSUME NEW r \in Refs
      PROVE  Cardinality(OfModel(Model[r])') <= MaxPerModel
  <2>1. OfModel(Model[r])' \subseteq OfModel(Model[r]) /\ OfModel(Model[r]) \subseteq Registered
    BY DEF OfModel
  <2>2. /\ Cardinality(OfModel(Model[r])') <= Cardinality(OfModel(Model[r]))
        /\ Cardinality(OfModel(Model[r])') \in Nat /\ Cardinality(OfModel(Model[r])) \in Nat
    BY <2>1, FS_Subset, FS_CardinalityType DEF QuotaInv
  <2> QED
    BY <2>2, ConstantsAssumption DEF QuotaInv, QuotaBound, ConstantsAssumption
<1> QED
  BY <1>1, <1>2 DEF QuotaInv, QuotaBound

\* A new reference was let in only because its model had room for one more.
LEMMA OneMoreRegistered ==
    ASSUME QuotaInv, TypeOK', NEW r \in Refs, r \notin Registered, ~OverQuota(r),
           Registered' = Registered \cup {r}
    PROVE  QuotaInv'
<1>1. IsFiniteSet(Registered')
  BY FS_AddElement DEF QuotaInv
<1>2. ASSUME NEW s \in Refs
      PROVE  Cardinality(OfModel(Model[s])') <= MaxPerModel
  <2>1. /\ IsFiniteSet(OfModel(Model[s])) /\ Cardinality(OfModel(Model[s])) \in Nat
    BY FS_Subset, FS_CardinalityType DEF QuotaInv, OfModel
  <2>2. CASE Model[s] = Model[r]
    <3>1. OfModel(Model[s])' = OfModel(Model[s]) \cup {r} /\ r \notin OfModel(Model[s])
      BY <2>2 DEF OfModel
    <3>2. Cardinality(OfModel(Model[s])') = Cardinality(OfModel(Model[s])) + 1
      BY <2>1, <3>1, FS_AddElement
    <3> QED
      BY <2>1, <2>2, <3>2, ConstantsAssumption DEF OverQuota, ConstantsAssumption
  <2>3. CASE Model[s] # Model[r]
    <3>1. OfModel(Model[s])' = OfModel(Model[s])
      BY <2>3 DEF OfModel
    <3> QED
      BY <3>1 DEF QuotaInv, QuotaBound
  <2> QED
    BY <2>2, <2>3
<1> QED
  BY <1>1, <1>2 DEF QuotaInv, QuotaBound

LEMMA QuotaStep == QuotaInv /\ [Next]_vars => QuotaInv'
<1> SUFFICES ASSUME QuotaInv, [Next]_vars PROVE QuotaInv'
  OBVIOUS
<1>0. TypeOK /\ TypeOK'
  BY StepTyped DEF QuotaInv
<1>a. ASSUME entries' = entries PROVE QuotaInv'
  BY <1>0, <1>a, FewerRegistered DEF Registered
<1>1. ASSUME NEW p \in Callers, NEW r \in Refs, NEW v \in Versions, NEW cap \in Caps,
             NEW node \in Nodes \cup {NoNode}, NEW force \in BOOLEAN, NEW promote \in BOOLEAN,
             NEW valid \in BOOLEAN,
             RegisterExpert(p, r, v, cap, node, force, promote, valid)
      PROVE QuotaInv'
  <2>1. CASE RegisterDenied(p) \/ RegisterRejected(p, r, v, force, valid)
    BY <2>1, <1>a DEF RegisterDenied, RegisterRejected, catalogue
  <2>2. CASE RegisterAccepted(p, r, v, cap, node, force, promote)
    <3> DEFINE t == RegisteredTable(p, r, v, cap, node, promote)
    <3>1. entries' = Refreshed(t) /\ t \in Table
      BY <2>2, <1>0, RegisteredTyped DEF RegisterAccepted, RegisteredTable, NewEntry
    <3>2. \A s \in Refs : t[s] = NoEntry <=> s # r /\ entries[s] = NoEntry
      <4>1. NewEntry(p, v, cap, node, promote) # NoEntry
        BY <1>0, NewEntryTyped, NullsAssumption
      <4>2. t[r] = NewEntry(p, v, cap, node, promote) /\ \A s \in Refs \ {r} : t[s] = entries[s]
        BY <1>0 DEF RegisteredTable, TypeOK
      <4> QED
        BY <4>1, <4>2
    <3> HIDE DEF t
    <3>3. Registered' = Registered \cup {r}
      BY <3>1, <3>2, RefreshedTable DEF Registered
    <3>4. CASE r \in Registered
      BY <1>0, <3>3, <3>4, FewerRegistered
    <3>5. CASE r \notin Registered
      BY <1>0, <2>2, <3>3, <3>5, OneMoreRegistered DEF RegisterAccepted
    <3> QED
      BY <3>4, <3>5
  <2> QED
    BY <1>1, <2>1, <2>2 DEF RegisterExpert
<1>2. ASSUME NEW p \in Callers, NEW node \in Nodes, NEW named \in SUBSET Refs,
             NEW cap \in Caps \cup {Unread}, Heartbeat(p, node, named, cap)
      PROVE QuotaInv'
  <2>1. CASE p \notin Publishers
    BY <1>2, <2>1, <1>a DEF Heartbeat, catalogue
  <2>2. CASE p \in Publishers
    <3>1. entries' = Refreshed(BeatenTable(node, named, cap))
      BY <1>2, <2>2 DEF Heartbeat, BeatenTable
    <3>2. Registered' = Registered
      BY <1>0, <3>1, BeatenTyped, RefreshedTable DEF Registered
    <3> QED
      BY <1>0, <3>2, FewerRegistered
  <2> QED
    BY <2>1, <2>2
<1>3. ASSUME NEW p \in Callers, NEW named \in SUBSET Refs, Deregister(p, named)
      PROVE QuotaInv'
  <2>1. Registered' \subseteq Registered
    BY <1>3 DEF Deregister, Registered
  <2> QED
    BY <1>0, <2>1, FewerRegistered
<1>4. ASSUME NEW named \in SUBSET Refs, Promote(named)
      PROVE QuotaInv'
  <2>1. entries' = Refreshed(PromotedTable(named))
    BY <1>4 DEF Promote, PromotedTable
  <2>2. Registered' = Registered
    BY <1>0, <2>1, PromotedTyped, RefreshedTable DEF Registered
  <2> QED
    BY <1>0, <2>2, FewerRegistered
<1>5. ASSUME NEW q \in Grantees, NEW named \in SUBSET Refs, Grant(q, named) \/ SetAcl(q, named)
      PROVE QuotaInv'
  BY <1>5, <1>a DEF Grant, SetAcl
<1>6. ASSUME NEW p, NEW hits, DescribeHits(p, hits)
      PROVE QuotaInv'
  <2>1. entries' = Refreshed(entries) /\ entries \in Table
    BY <1>0, <1>6 DEF DescribeHits, TypeOK, Table
  <2>2. Registered' = Registered
    BY <2>1, RefreshedTable DEF Registered
  <2> QED
    BY <1>0, <2>2, FewerRegistered
<1>7. ASSUME NEW r \in Refs, DescribeRead(r)
      PROVE QuotaInv'
  BY <1>7, <1>a DEF DescribeRead, catalogue
<1>8. CASE DescribeReply \/ Tick
  BY <1>8, <1>a DEF DescribeReply, Tick, catalogue
<1>9. CASE Restart
  <2>1. Registered' = {}
    BY <1>9 DEF Restart, Registered
  <2> QED
    BY <1>0, <2>1, FewerRegistered
<1>10. CASE UNCHANGED vars
  BY <1>10, <1>a DEF vars
<1>11. ASSUME NEW p \in Readers, NEW named \in SUBSET Refs, DescribeExplicit(p, named)
       PROVE QuotaInv'
  BY <1>11, <1>6 DEF DescribeExplicit
<1>12. ASSUME NEW p \in Readers, NEW k \in Limits, DescribeNN(p, k)
       PROVE QuotaInv'
  BY <1>12, <1>6 DEF DescribeNN
<1> QED
  BY <1>1, <1>2, <1>3, <1>4, <1>5, <1>7, <1>8, <1>9, <1>10, <1>11, <1>12
       DEF Next, PublisherCalls, OperatorCalls, ReaderCalls

\* No model exceeds its quota of experts, whatever is registered and removed.
THEOREM QuotaHolds == Spec => []QuotaBound
<1>1. Init => QuotaInv
  <2> SUFFICES ASSUME Init PROVE QuotaInv
    OBVIOUS
  <2>1. Registered = {} /\ \A m : OfModel(m) = {}
    BY DEF Init, Registered, OfModel
  <2> QED
    BY <2>1, InitTyped, FS_EmptySet, ConstantsAssumption DEF QuotaInv, QuotaBound, ConstantsAssumption
<1> QED
  BY <1>1, QuotaStep, PTL DEF Spec, QuotaInv

-----------------------------------------------------------------------------
(* What the handlers do to one entry. *)

\* Both halves of an accepted registration, entry by entry.
LEMMA AcceptedEntries ==
    ASSUME TypeOK, NEW p \in Callers, NEW r \in Refs, NEW v \in Versions, NEW cap \in Caps,
           NEW node \in Nodes \cup {NoNode}, NEW force \in BOOLEAN, NEW promote \in BOOLEAN,
           RegisterAccepted(p, r, v, cap, node, force, promote)
    PROVE  /\ entries'[r] # NoEntry
           /\ entries'[r].beat = now /\ entries'[r].owner = p /\ entries'[r].node = node
           /\ entries'[r].promoted = AskedPromotion(promote)
           /\ \A s \in Refs \ {r} :
                /\ entries'[s] = NoEntry <=> entries[s] = NoEntry
                /\ entries[s] # NoEntry =>
                     /\ entries'[s].beat = entries[s].beat
                     /\ entries'[s].node = entries[s].node
                     /\ entries'[s].promoted = entries[s].promoted
                     /\ entries'[s].owner = entries[s].owner
                     /\ entries'[s].version = entries[s].version
<1> DEFINE new == NewEntry(p, v, cap, node, promote)
           t == RegisteredTable(p, r, v, cap, node, promote)
<1>1. entries' = Refreshed(t) /\ t \in Table
  BY RegisteredTyped DEF RegisterAccepted, RegisteredTable, NewEntry
<1>2. /\ new # NoEntry /\ new.beat = now /\ new.owner = p /\ new.node = node
      /\ new.promoted = AskedPromotion(promote)
  <2>1. new # NoEntry
    BY NewEntryTyped, NullsAssumption
  <2> QED
    BY <2>1 DEF NewEntry
<1>3. t[r] = new /\ \A s \in Refs \ {r} : t[s] = entries[s]
  BY DEF RegisteredTable, TypeOK
<1> HIDE DEF new, t
<1> QED
  BY <1>1, <1>2, <1>3, RefreshedTable

\* A heartbeat keeps every entry but for its beat, its capacity and its routability.
LEMMA BeatenEntries ==
    ASSUME TypeOK, NEW p \in Callers, NEW node \in Nodes, NEW named \in SUBSET Refs,
           NEW cap \in Caps \cup {Unread}, p \in Publishers, Heartbeat(p, node, named, cap)
    PROVE  \A s \in Refs :
             /\ entries'[s] = NoEntry <=> entries[s] = NoEntry
             /\ entries[s] # NoEntry =>
                  /\ entries'[s].node = entries[s].node
                  /\ entries'[s].promoted = entries[s].promoted
                  /\ entries'[s].owner = entries[s].owner
                  /\ entries'[s].version = entries[s].version
                  /\ entries'[s].beat = IF s \in Beaten(node, named) THEN now ELSE entries[s].beat
<1> DEFINE t == BeatenTable(node, named, cap)
<1>1. entries' = Refreshed(t)
  BY DEF Heartbeat, BeatenTable
<1> HIDE DEF t
<1> QED
  BY <1>1, BeatenTyped, RefreshedTable DEF t

\* A promotion keeps every entry but for its promotion and its routability.
LEMMA PromotedEntries ==
    ASSUME TypeOK, NEW named \in SUBSET Refs, Promote(named)
    PROVE  \A s \in Refs :
             /\ entries'[s] = NoEntry <=> entries[s] = NoEntry
             /\ entries[s] # NoEntry =>
                  /\ entries'[s].beat = entries[s].beat
                  /\ entries'[s].node = entries[s].node
                  /\ entries'[s].owner = entries[s].owner
                  /\ entries'[s].version = entries[s].version
                  /\ entries'[s].promoted = (entries[s].promoted \/ s \in named)
<1> DEFINE t == PromotedTable(named)
<1>1. entries' = Refreshed(t) /\ t \in Table
  BY PromotedTyped DEF Promote, PromotedTable
<1>2. \A s \in Refs : t[s] = NoEntry <=> entries[s] = NoEntry
  BY PromotedTyped
<1>3. \A s \in Refs : entries[s] # NoEntry =>
         /\ t[s].beat = entries[s].beat /\ t[s].node = entries[s].node
         /\ t[s].owner = entries[s].owner
         /\ t[s].version = entries[s].version
         /\ t[s].promoted = (entries[s].promoted \/ s \in named)
  <2> SUFFICES ASSUME NEW s \in Registered
               PROVE  /\ t[s].beat = entries[s].beat /\ t[s].node = entries[s].node
                      /\ t[s].owner = entries[s].owner
                      /\ t[s].version = entries[s].version
                      /\ t[s].promoted = (entries[s].promoted \/ s \in named)
    BY DEF Registered
  <2> QED
    BY PromotedTyped
<1> HIDE DEF t
<1> QED
  BY <1>1, <1>2, <1>3, RefreshedTable

\* The snapshot of a describe recomputes the routable flags and nothing else.
LEMMA DescribedEntries ==
    ASSUME TypeOK, NEW p, NEW hits, DescribeHits(p, hits)
    PROVE  \A s \in Refs :
             /\ entries'[s] = NoEntry <=> entries[s] = NoEntry
             /\ entries[s] # NoEntry =>
                  /\ entries'[s].beat = entries[s].beat
                  /\ entries'[s].node = entries[s].node
                  /\ entries'[s].promoted = entries[s].promoted
                  /\ entries'[s].routable = (entries[s].promoted /\ Fresh(entries[s]))
                  /\ entries'[s].owner = entries[s].owner
                  /\ entries'[s].version = entries[s].version
<1>1. entries' = Refreshed(entries) /\ entries \in Table
  BY DEF DescribeHits, TypeOK, Table
<1> QED
  BY <1>1, RefreshedTable

-----------------------------------------------------------------------------
(* Only the owner of an entry removes it or hands it to somebody else. *)

LEMMA DisposalStep ==
    ASSUME TypeOK, [Next]_vars, NEW x \in Registered,
           EnforceOwnership, reply' # NoReply, entries[x].owner # Anonymous,
           \/ entries'[x] = NoEntry \/ entries'[x].owner # entries[x].owner
           \/ entries'[x].version < entries[x].version
    PROVE  reply'.who = entries[x].owner
<1>0. x \in Refs /\ entries[x] # NoEntry /\ ~(entries[x].version < entries[x].version)
  <2>1. x \in Refs /\ entries[x] # NoEntry /\ entries[x] \in Entry
    BY DEF Registered, TypeOK
  <2>2. entries[x].version \in Nat
    BY <2>1, ConstantsAssumption DEF Entry, ConstantsAssumption
  <2> QED
    BY <2>1, <2>2
<1>1. ASSUME NEW p \in Callers, NEW r \in Refs, NEW v \in Versions, NEW cap \in Caps,
             NEW node \in Nodes \cup {NoNode}, NEW force \in BOOLEAN, NEW promote \in BOOLEAN,
             NEW valid \in BOOLEAN,
             RegisterExpert(p, r, v, cap, node, force, promote, valid)
      PROVE reply'.who = entries[x].owner
  <2>1. RegisterAccepted(p, r, v, cap, node, force, promote)
    BY <1>0, <1>1 DEF RegisterExpert, RegisterDenied, RegisterRejected, catalogue
  <2>2. x = r
    BY <1>0, <2>1, AcceptedEntries
  <2>3. ~SomeoneElses(x, p)
    BY <2>1, <2>2 DEF RegisterAccepted
  <2>4. reply'.who = p
    BY <2>1 DEF RegisterAccepted, Answer
  <2> QED
    BY <2>3, <2>4 DEF SomeoneElses
<1>2. ASSUME NEW p \in Callers, NEW node \in Nodes, NEW named \in SUBSET Refs,
             NEW cap \in Caps \cup {Unread}, Heartbeat(p, node, named, cap)
      PROVE FALSE
  <2>1. p \in Publishers
    BY <1>0, <1>2 DEF Heartbeat, catalogue
  <2> QED
    BY <1>0, <1>2, <2>1, BeatenEntries
<1>3. ASSUME NEW p \in Callers, NEW named \in SUBSET Refs, Deregister(p, named)
      PROVE reply'.who = entries[x].owner
  <2>1. reply'.who = p
    BY <1>3 DEF Deregister, Answer
  <2>2. ~SomeoneElses(x, p)
    BY <1>0, <1>3 DEF Deregister
  <2> QED
    BY <2>1, <2>2 DEF SomeoneElses
<1>4. ASSUME NEW p, NEW hits, DescribeHits(p, hits) PROVE FALSE
  BY <1>4 DEF DescribeHits
<1>5. ASSUME NEW p \in Readers, NEW k \in Limits, DescribeNN(p, k) PROVE FALSE
  BY <1>4, <1>5 DEF DescribeNN
<1>6. ASSUME NEW p \in Readers, NEW named \in SUBSET Refs, DescribeExplicit(p, named) PROVE FALSE
  BY <1>4, <1>6 DEF DescribeExplicit
<1>7. CASE UNCHANGED vars
  BY <1>0, <1>7 DEF vars
<1>8. ASSUME \/ \E named \in SUBSET Refs : Promote(named)
             \/ \E q \in Grantees, named \in SUBSET Refs : Grant(q, named) \/ SetAcl(q, named)
             \/ \E r \in Refs : DescribeRead(r)
             \/ DescribeReply \/ Restart \/ Tick
      PROVE FALSE
  BY <1>8 DEF Promote, Grant, SetAcl, DescribeRead, DescribeReply, Restart, Tick
<1> QED
  BY <1>1, <1>2, <1>3, <1>5, <1>6, <1>7, <1>8
       DEF Next, PublisherCalls, OperatorCalls, ReaderCalls

\* With ownership enforced nobody but its owner takes an entry away or back, whichever way
\* the registrations and the partly refused removals of others interleave.
THEOREM OwnersDispose == Spec => OnlyOwnerDisposes
<1>1. TypeOK /\ [Next]_vars =>
        [ \A r \in Registered :
            /\ EnforceOwnership /\ reply' # NoReply
            /\ entries[r].owner # Anonymous
            /\ \/ entries'[r] = NoEntry \/ entries'[r].owner # entries[r].owner
               \/ entries'[r].version < entries[r].version
            => reply'.who = entries[r].owner ]_vars
  BY DisposalStep
<1> QED
  BY <1>1, TypeCorrect, PTL DEF Spec, OnlyOwnerDisposes

-----------------------------------------------------------------------------
(* What is described as routable is promoted and was heard from. *)

\* A beat is never newer than something heard about the entry, and a promotion
\* was asked for.
HeardInv ==
    \A r \in Registered :
        /\ entries[r].beat <= now
        /\ \E t \in HeardAt(r) : t >= entries[r].beat
        /\ entries[r].promoted => AutoPromote \/ r \in promoter

LEMMA HeardStep == TypeOK /\ HeardInv /\ [Next]_vars => HeardInv'
<1> SUFFICES ASSUME TypeOK, HeardInv, [Next]_vars PROVE HeardInv'
  OBVIOUS
<1>0. /\ TypeOK' /\ Time \subseteq Nat /\ now \in Nat /\ Never \notin Time
      /\ \A r \in Registered : entries[r] \in Entry /\ entries[r].beat \in Nat
      /\ \A n \in Nodes : heard[n] \in Int
      /\ \A r \in Refs : enrolled[r] \in Int
  BY StepTyped, ConstantsAssumption DEF Time, Never, TypeOK, Entry, Registered, ConstantsAssumption
<1>a. ASSUME NEW r \in Registered, r \in Registered',
             entries'[r].beat = entries[r].beat, entries'[r].node = entries[r].node,
             enrolled'[r] = enrolled[r], UNCHANGED heard
      PROVE  \E t \in HeardAt(r)' : t >= entries'[r].beat
  <2>1. HeardAt(r)' = HeardAt(r)
    BY <1>a DEF HeardAt
  <2> QED
    BY <1>a, <2>1 DEF HeardInv
<1>b. ASSUME UNCHANGED <<entries, enrolled, heard>>, now' >= now, now' \in Nat, promoter \subseteq promoter'
      PROVE  HeardInv'
  <2> SUFFICES ASSUME NEW r \in Registered'
               PROVE  /\ entries'[r].beat <= now'
                      /\ \E t \in HeardAt(r)' : t >= entries'[r].beat
                      /\ entries'[r].promoted => AutoPromote \/ r \in promoter'
    BY DEF HeardInv
  <2>1. r \in Registered
    BY <1>b DEF Registered
  <2> QED
    BY <1>0, <1>a, <1>b, <2>1 DEF HeardInv
<1>1. ASSUME NEW p \in Callers, NEW r \in Refs, NEW v \in Versions, NEW cap \in Caps,
             NEW node \in Nodes \cup {NoNode}, NEW force \in BOOLEAN, NEW promote \in BOOLEAN,
             NEW valid \in BOOLEAN,
             RegisterExpert(p, r, v, cap, node, force, promote, valid)
      PROVE HeardInv'
  <2>1. CASE RegisterDenied(p) \/ RegisterRejected(p, r, v, force, valid)
    BY <2>1, <1>0, <1>b DEF RegisterDenied, RegisterRejected, catalogue, registrations
  <2>2. CASE RegisterAccepted(p, r, v, cap, node, force, promote)
    <3>0. /\ now' = now /\ heard' = heard /\ enrolled' = [enrolled EXCEPT ![r] = now]
          /\ promoter' = (IF r \in Registered THEN promoter ELSE promoter \ {r})
                         \cup (IF promote THEN {r} ELSE {})
      BY <2>2 DEF RegisterAccepted
    <3>1. /\ entries'[r].beat <= now
          /\ \E t \in HeardAt(r)' : t >= entries'[r].beat
          /\ entries'[r].promoted => AutoPromote \/ r \in promoter'
      <4>1. entries'[r].beat = now /\ entries'[r].promoted = AskedPromotion(promote)
        BY <2>2, AcceptedEntries
      <4>2. now \in HeardAt(r)'
        BY <1>0, <3>0 DEF HeardAt, TypeOK
      <4>3. AskedPromotion(promote) => AutoPromote \/ r \in promoter'
        BY <3>0 DEF AskedPromotion
      <4> QED
        BY <1>0, <4>1, <4>2, <4>3
    <3>2. ASSUME NEW s \in Registered', s # r
          PROVE  /\ entries'[s].beat <= now
                 /\ \E t \in HeardAt(s)' : t >= entries'[s].beat
                 /\ entries'[s].promoted => AutoPromote \/ s \in promoter'
      <4>1. /\ s \in Registered /\ s \in Refs
            /\ entries'[s].beat = entries[s].beat /\ entries'[s].node = entries[s].node
            /\ entries'[s].promoted = entries[s].promoted
        BY <2>2, <3>2, AcceptedEntries DEF Registered
      <4>2. enrolled'[s] = enrolled[s] /\ (s \in promoter => s \in promoter')
        BY <3>0, <3>2, <4>1 DEF TypeOK
      <4> QED
        BY <1>a, <3>0, <3>2, <4>1, <4>2 DEF HeardInv
    <3> QED
      BY <3>0, <3>1, <3>2 DEF HeardInv
  <2> QED
    BY <1>1, <2>1, <2>2 DEF RegisterExpert
<1>2. ASSUME NEW p \in Callers, NEW node \in Nodes, NEW named \in SUBSET Refs,
             NEW cap \in Caps \cup {Unread}, Heartbeat(p, node, named, cap)
      PROVE HeardInv'
  <2>1. CASE p \notin Publishers
    <3>1. UNCHANGED <<now, entries, enrolled, heard, promoter>>
      BY <1>2, <2>1 DEF Heartbeat, catalogue, registrations
    <3> QED
      BY <3>1, <1>0, <1>b
  <2>2. CASE p \in Publishers
    <3> SUFFICES ASSUME NEW r \in Registered'
                 PROVE  /\ entries'[r].beat <= now'
                        /\ \E t \in HeardAt(r)' : t >= entries'[r].beat
                        /\ entries'[r].promoted => AutoPromote \/ r \in promoter'
      BY DEF HeardInv
    <3>1. /\ now' = now /\ heard' = [heard EXCEPT ![node] = now]
          /\ enrolled' = enrolled /\ promoter' = promoter
      BY <1>2, <2>2 DEF Heartbeat, registrations
    <3>2. /\ r \in Registered
          /\ entries'[r].node = entries[r].node /\ entries'[r].promoted = entries[r].promoted
          /\ entries'[r].beat = IF r \in Beaten(node, named) THEN now ELSE entries[r].beat
      BY <1>2, <2>2, BeatenEntries DEF Registered
    <3>3. entries'[r].beat <= now
      BY <1>0, <3>2 DEF HeardInv
    <3>4. CASE entries[r].node \in {node, NoNode}
      <4>1. now \in HeardAt(r)'
        BY <1>0, <3>1, <3>2, <3>4 DEF HeardAt, TypeOK
      <4> QED
        BY <3>1, <3>2, <3>3, <4>1, <1>0 DEF HeardInv
    <3>5. CASE entries[r].node \notin {node, NoNode}
      <4>1. r \notin Beaten(node, named)
        BY <3>5 DEF Beaten
      <4>2. HeardAt(r)' = HeardAt(r)
        BY <3>1, <3>2, <3>5 DEF HeardAt, TypeOK
      <4> QED
        BY <3>1, <3>2, <3>3, <4>1, <4>2 DEF HeardInv
    <3> QED
      BY <3>4, <3>5
  <2> QED
    BY <2>1, <2>2
<1>3. ASSUME NEW p \in Callers, NEW named \in SUBSET Refs, Deregister(p, named)
      PROVE HeardInv'
  <2> SUFFICES ASSUME NEW r \in Registered'
               PROVE  /\ entries'[r].beat <= now'
                      /\ \E t \in HeardAt(r)' : t >= entries'[r].beat
                      /\ entries'[r].promoted => AutoPromote \/ r \in promoter'
    BY DEF HeardInv
  <2>1. r \in Registered /\ entries'[r] = entries[r]
    BY <1>3 DEF Deregister, Registered
  <2>2. UNCHANGED <<now, enrolled, heard, promoter>>
    BY <1>3 DEF Deregister, registrations
  <2> QED
    BY <1>a, <2>1, <2>2 DEF HeardInv
<1>4. ASSUME NEW named \in SUBSET Refs, Promote(named)
      PROVE HeardInv'
  <2> SUFFICES ASSUME NEW r \in Registered'
               PROVE  /\ entries'[r].beat <= now'
                      /\ \E t \in HeardAt(r)' : t >= entries'[r].beat
                      /\ entries'[r].promoted => AutoPromote \/ r \in promoter'
    BY DEF HeardInv
  <2>1. /\ r \in Registered
        /\ entries'[r].beat = entries[r].beat /\ entries'[r].node = entries[r].node
        /\ entries'[r].promoted = (entries[r].promoted \/ r \in named)
    BY <1>4, PromotedEntries DEF Registered
  <2>2. UNCHANGED <<now, enrolled, heard>> /\ promoter' = promoter \cup (named \cap Registered)
    BY <1>4 DEF Promote
  <2> QED
    BY <1>a, <2>1, <2>2 DEF HeardInv
<1>5. ASSUME NEW p, NEW hits, DescribeHits(p, hits)
      PROVE HeardInv'
  <2> SUFFICES ASSUME NEW r \in Registered'
               PROVE  /\ entries'[r].beat <= now'
                      /\ \E t \in HeardAt(r)' : t >= entries'[r].beat
                      /\ entries'[r].promoted => AutoPromote \/ r \in promoter'
    BY DEF HeardInv
  <2>1. /\ r \in Registered
        /\ entries'[r].beat = entries[r].beat /\ entries'[r].node = entries[r].node
        /\ entries'[r].promoted = entries[r].promoted
    BY <1>5, DescribedEntries DEF Registered
  <2>2. UNCHANGED <<now, enrolled, heard, promoter>>
    BY <1>5 DEF DescribeHits, registrations
  <2> QED
    BY <1>a, <2>1, <2>2 DEF HeardInv
<1>6. ASSUME NEW q \in Grantees, NEW named \in SUBSET Refs, Grant(q, named) \/ SetAcl(q, named)
      PROVE HeardInv'
  BY <1>0, <1>6, <1>b DEF Grant, SetAcl, registrations
<1>7. ASSUME NEW r \in Refs, DescribeRead(r)
      PROVE HeardInv'
  BY <1>0, <1>7, <1>b DEF DescribeRead, catalogue, registrations
<1>8. CASE DescribeReply
  BY <1>0, <1>8, <1>b DEF DescribeReply, catalogue, registrations
<1>9. CASE Tick
  BY <1>0, <1>9, <1>b DEF Tick, catalogue, registrations
<1>10. CASE Restart
  BY <1>10 DEF Restart, HeardInv, Registered
<1>11. CASE UNCHANGED vars
  BY <1>0, <1>11, <1>b DEF vars
<1>12. ASSUME NEW p \in Readers, NEW named \in SUBSET Refs, DescribeExplicit(p, named)
       PROVE HeardInv'
  BY <1>12, <1>5 DEF DescribeExplicit
<1>13. ASSUME NEW p \in Readers, NEW k \in Limits, DescribeNN(p, k)
       PROVE HeardInv'
  BY <1>13, <1>5 DEF DescribeNN
<1> QED
  <2>1. CASE PublisherCalls(Callers, Nodes)
    BY <2>1, <1>1, <1>2, <1>3 DEF PublisherCalls
  <2>2. CASE OperatorCalls
    BY <2>2, <1>4, <1>6 DEF OperatorCalls
  <2>3. CASE ReaderCalls
    BY <2>3, <1>7, <1>8, <1>12, <1>13 DEF ReaderCalls
  <2> QED
    BY <2>1, <2>2, <2>3, <1>9, <1>10, <1>11 DEF Next

\* A snapshot lists as routable what it has just computed to be.
LEMMA SnapshotStep ==
    ASSUME TypeOK, HeardInv, NEW p, NEW hits \in SUBSET Registered, DescribeHits(p, hits),
           NEW r \in answering'.routable
    PROVE  /\ AutoPromote \/ r \in promoter
           /\ \E t \in HeardAt(r) : now - t <= HeartbeatTtl
<1>1. r \in hits /\ entries'[r].routable
  BY DEF DescribeHits
<1>2. r \in Registered /\ r \in Refs /\ entries[r] \in Entry
  BY <1>1 DEF Registered, TypeOK
<1>3. entries[r].promoted /\ now - entries[r].beat <= HeartbeatTtl
  BY <1>1, <1>2, DescribedEntries DEF Registered, Fresh
<1>4. PICK t \in HeardAt(r) : t >= entries[r].beat
  BY <1>2 DEF HeardInv
<1>5. t \in Int /\ now \in Int /\ entries[r].beat \in Int /\ HeartbeatTtl \in Int
  BY <1>2, <1>4, ConstantsAssumption DEF HeardAt, TypeOK, Time, Never, Entry, ConstantsAssumption
<1> QED
  BY <1>2, <1>3, <1>4, <1>5 DEF HeardInv

\* Nothing is described as routable unless its promotion was asked for and it was
\* registered, or refreshed in its node's name, within the heartbeat's time to live.
THEOREM RoutableAlive == Spec => RoutableIsAlive
<1>1. Init => HeardInv
  BY DEF Init, HeardInv, Registered
<1>2. TypeOK /\ HeardInv /\ [Next]_vars =>
        [ answering = Idle /\ answering' # Idle =>
            \A r \in answering'.routable :
                /\ AutoPromote \/ r \in promoter
                /\ \E t \in HeardAt(r) : now - t <= HeartbeatTtl ]_vars
  <2> SUFFICES ASSUME TypeOK, HeardInv, Next, answering = Idle, answering' # Idle,
                      NEW r \in answering'.routable
               PROVE  /\ AutoPromote \/ r \in promoter
                      /\ \E t \in HeardAt(r) : now - t <= HeartbeatTtl
    BY DEF vars
  <2>1. ASSUME NEW p \in Readers, NEW named \in SUBSET Refs, DescribeExplicit(p, named)
        PROVE  \E q : \E hits \in SUBSET Registered : DescribeHits(q, hits)
    BY <2>1 DEF DescribeExplicit, VisibleHits
  <2>2. ASSUME NEW p \in Readers, NEW k \in Limits, DescribeNN(p, k)
        PROVE  \E q : \E hits \in SUBSET Registered : DescribeHits(q, hits)
    BY <2>2 DEF DescribeNN, VisibleHits
  <2>3. ASSUME NEW p \in Callers, NEW x \in Refs, NEW v \in Versions, NEW cap \in Caps,
               NEW node \in Nodes \cup {NoNode}, NEW force \in BOOLEAN, NEW promote \in BOOLEAN,
               NEW valid \in BOOLEAN,
               RegisterExpert(p, x, v, cap, node, force, promote, valid)
        PROVE  answering' = answering
    BY <2>3 DEF RegisterExpert, RegisterDenied, RegisterRejected, RegisterAccepted
  <2>4. ASSUME NEW p \in Callers, NEW node \in Nodes, NEW named \in SUBSET Refs,
               NEW cap \in Caps \cup {Unread}, Heartbeat(p, node, named, cap)
        PROVE  answering' = answering
    BY <2>4 DEF Heartbeat
  <2>5. ASSUME \/ \E p \in Callers, named \in SUBSET Refs : Deregister(p, named)
               \/ \E named \in SUBSET Refs : Promote(named)
               \/ \E q \in Grantees, named \in SUBSET Refs : Grant(q, named) \/ SetAcl(q, named)
               \/ Tick
        PROVE  answering' = answering
    BY <2>5 DEF Deregister, Promote, Grant, SetAcl, Tick
  <2>6. ASSUME (\E s \in Refs : DescribeRead(s)) \/ DescribeReply \/ Restart
        PROVE  answering # Idle \/ answering' = Idle
    BY <2>6 DEF DescribeRead, DescribeReply, Restart
  <2>7. \E q : \E hits \in SUBSET Registered : DescribeHits(q, hits)
    <3>1. CASE \E p \in Callers, x \in Refs, v \in Versions, cap \in Caps, node \in Nodes \cup {NoNode},
                  force \in BOOLEAN, promote \in BOOLEAN, valid \in BOOLEAN :
                    RegisterExpert(p, x, v, cap, node, force, promote, valid)
      BY <3>1, <2>3
    <3>2. CASE \E p \in Callers, node \in Nodes, named \in SUBSET Refs, cap \in Caps \cup {Unread} :
                 Heartbeat(p, node, named, cap)
      BY <3>2, <2>4
    <3> QED
      BY <3>1, <3>2, <2>1, <2>2, <2>5, <2>6
           DEF Next, PublisherCalls, OperatorCalls, ReaderCalls
  <2> QED
    BY <2>7, SnapshotStep
<1>3. Spec => []HeardInv
  BY <1>1, HeardStep, TypeCorrect, PTL DEF Spec
<1> QED
  BY <1>2, <1>3, TypeCorrect, PTL DEF Spec, RoutableIsAlive

-----------------------------------------------------------------------------
(* Consumers and owners keep reading what is registered. *)

\* Visibility may not lean on allow_all, which the first grant turns off.
SightInv ==
    \A r \in Registered : \A q \in (Consumers \cup {entries[r].owner}) \ Grantees :
        q # Anonymous /\ <<q, r>> \in acl

LEMMA SightStep == TypeOK /\ SightInv /\ [Next]_vars => SightInv'
<1> SUFFICES ASSUME TypeOK, SightInv, [Next]_vars PROVE SightInv'
  OBVIOUS
\* The owners stay, and the grants of anyone an operator does not edit.
<1>a. ASSUME \A r \in Registered' : r \in Registered /\ entries'[r].owner = entries[r].owner,
             \A g \in acl : g[1] \notin Grantees => g \in acl'
      PROVE  SightInv'
  <2> SUFFICES ASSUME NEW r \in Registered', NEW q \in (Consumers \cup {entries'[r].owner}) \ Grantees
               PROVE  q # Anonymous /\ <<q, r>> \in acl'
    BY DEF SightInv
  <2>1. q # Anonymous /\ <<q, r>> \in acl
    BY <1>a DEF SightInv
  <2> QED
    BY <1>a, <2>1
<1>1. ASSUME NEW p \in Callers, NEW r \in Refs, NEW v \in Versions, NEW cap \in Caps,
             NEW node \in Nodes \cup {NoNode}, NEW force \in BOOLEAN, NEW promote \in BOOLEAN,
             NEW valid \in BOOLEAN,
             RegisterExpert(p, r, v, cap, node, force, promote, valid)
      PROVE SightInv'
  <2>1. CASE RegisterDenied(p) \/ RegisterRejected(p, r, v, force, valid)
    BY <2>1, <1>a DEF RegisterDenied, RegisterRejected, catalogue, Registered
  <2>2. CASE RegisterAccepted(p, r, v, cap, node, force, promote)
    <3> SUFFICES ASSUME NEW s \in Registered', NEW q \in (Consumers \cup {entries'[s].owner}) \ Grantees
                 PROVE  q # Anonymous /\ <<q, s>> \in acl'
      BY DEF SightInv
    <3>1. acl' = acl \cup {<<x, r>> : x \in Consumers \cup {p}} /\ p \in Publishers
      BY <2>2 DEF RegisterAccepted, GrantedOnRegister
    <3>2. CASE s = r
      <4>1. q \in Consumers \cup {p}
        BY <2>2, <3>2, AcceptedEntries
      <4> QED
        BY <3>1, <3>2, <4>1, ConstantsAssumption DEF ConstantsAssumption
    <3>3. CASE s # r
      <4>1. s \in Registered /\ entries'[s].owner = entries[s].owner
        BY <2>2, <3>3, AcceptedEntries DEF Registered
      <4> QED
        BY <3>1, <4>1 DEF SightInv
    <3> QED
      BY <3>2, <3>3
  <2> QED
    BY <1>1, <2>1, <2>2 DEF RegisterExpert
<1>2. ASSUME NEW p \in Callers, NEW node \in Nodes, NEW named \in SUBSET Refs,
             NEW cap \in Caps \cup {Unread}, Heartbeat(p, node, named, cap)
      PROVE SightInv'
  <2>1. acl' = acl
    BY <1>2 DEF Heartbeat, catalogue
  <2>2. CASE p \notin Publishers
    BY <1>2, <2>1, <2>2, <1>a DEF Heartbeat, catalogue, Registered
  <2>3. CASE p \in Publishers
    BY <1>2, <2>1, <2>3, <1>a, BeatenEntries DEF Registered
  <2> QED
    BY <2>2, <2>3
<1>3. ASSUME NEW p \in Callers, NEW named \in SUBSET Refs, Deregister(p, named)
      PROVE SightInv'
  <2>1. \A r \in Registered' : r \in Registered /\ entries'[r] = entries[r]
    BY <1>3 DEF Deregister, Registered
  <2>2. acl' = acl
    BY <1>3 DEF Deregister
  <2> QED
    BY <1>a, <2>1, <2>2
<1>4. ASSUME NEW named \in SUBSET Refs, Promote(named)
      PROVE SightInv'
  <2>1. acl' = acl
    BY <1>4 DEF Promote
  <2> QED
    BY <1>4, <2>1, <1>a, PromotedEntries DEF Registered
<1>5. ASSUME NEW p, NEW hits, DescribeHits(p, hits)
      PROVE SightInv'
  <2>1. acl' = acl
    BY <1>5 DEF DescribeHits
  <2> QED
    BY <1>5, <2>1, <1>a, DescribedEntries DEF Registered
<1>6. ASSUME NEW q \in Grantees, NEW named \in SUBSET Refs, Grant(q, named) \/ SetAcl(q, named)
      PROVE SightInv'
  <2>1. \A g \in acl : g[1] \notin Grantees => g \in acl'
    BY <1>6 DEF Grant, SetAcl
  <2> QED
    BY <1>6, <2>1, <1>a DEF Grant, SetAcl, Registered
<1>7. ASSUME NEW r \in Refs, DescribeRead(r)
      PROVE SightInv'
  BY <1>7, <1>a DEF DescribeRead, catalogue, Registered
<1>8. CASE DescribeReply
  BY <1>8, <1>a DEF DescribeReply, catalogue, Registered
<1>13. CASE Tick
  BY <1>13, <1>a DEF Tick, catalogue, Registered
<1>9. CASE Restart
  BY <1>9 DEF Restart, SightInv, Registered
<1>10. CASE UNCHANGED vars
  BY <1>10, <1>a DEF vars, Registered
<1>11. ASSUME NEW p \in Readers, NEW named \in SUBSET Refs, DescribeExplicit(p, named)
       PROVE SightInv'
  BY <1>11, <1>5 DEF DescribeExplicit
<1>12. ASSUME NEW p \in Readers, NEW k \in Limits, DescribeNN(p, k)
       PROVE SightInv'
  BY <1>12, <1>5 DEF DescribeNN
<1> QED
  <2>1. CASE \E p \in Callers, r \in Refs, v \in Versions, cap \in Caps, node \in Nodes \cup {NoNode},
                force \in BOOLEAN, promote \in BOOLEAN, valid \in BOOLEAN :
                  RegisterExpert(p, r, v, cap, node, force, promote, valid)
    BY <2>1, <1>1
  <2>2. CASE \E p \in Callers, node \in Nodes, named \in SUBSET Refs, cap \in Caps \cup {Unread} :
               Heartbeat(p, node, named, cap)
    BY <2>2, <1>2
  <2> QED
    BY <2>1, <2>2, <1>3, <1>4, <1>6, <1>7, <1>8, <1>9, <1>10, <1>11, <1>12, <1>13
         DEF Next, PublisherCalls, OperatorCalls, ReaderCalls

\* Consumers and owners read every registered expert, for any sequence of calls
\* and of the operator's edits to others.
THEOREM ReadersSee == Spec => []ReadersKeepSight
<1>1. Init => SightInv
  BY DEF Init, SightInv, Registered
<1>2. SightInv => ReadersKeepSight
  BY DEF SightInv, ReadersKeepSight, Visible
<1> QED
  BY <1>1, <1>2, SightStep, TypeCorrect, PTL DEF Spec

=============================================================================
