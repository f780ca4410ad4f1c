----------------------------- MODULE FleetProofs -----------------------------
(***************************************************************************)
(* Proofs about Fleet for every value of its constants.                    *)
(***************************************************************************)
EXTENDS Fleet, RegistryProofs

-----------------------------------------------------------------------------
(* Who calls, and what the registry makes of it. *)

\* Whatever the policy and the clocks, a process is taken for itself or for nobody.
LEMMA CallersThemselves ==
    ASSUME NEW h \in Hosts, NEW call
    PROVE  CallerOf(h, call) \in {Identity(h), Anonymous}
  <1> DEFINE meta == Security!NewMeta(PrincipalOf[h], call.sent + ClockOffset[h])
  <1>1. meta.principal = PrincipalOf[h]
    BY DEF Security!NewMeta
  <1> HIDE DEF meta
  <1>2. Security!ResolvedPrincipal(CertOf[h], meta, now) \in
          {CertOf[h], meta.principal, Anonymous}
        /\ (CertOf[h] # Anonymous =>
               Security!ResolvedPrincipal(CertOf[h], meta, now) = CertOf[h])
    BY DEF Security!ResolvedPrincipal
  <1> QED
    BY <1>1, <1>2 DEF CallerOf, Identity, meta

LEMMA IdentityNamed ==
    ASSUME NEW h \in Hosts
    PROVE  Identity(h) \in Principals /\ Identity(h) # Anonymous
  BY FleetAssumption, ConstantsAssumption DEF Identity, Callers

LEMMA CallersTyped ==
    ASSUME NEW h \in Hosts, NEW call
    PROVE  CallerOf(h, call) \in Callers
  BY CallersThemselves, IdentityNamed DEF Callers

\* The calls of a process name its own experts only.
Proper(h, call) ==
    /\ call.op \in {"register", "beat"}
    /\ call.op = "register" => call.ref \in ExpertsOf[h]

LEMMA HostsTyped ==
    ASSUME NEW h \in Hosts
    PROVE  /\ h \in Nodes /\ h \in Nodes \cup {NoNode} /\ h # NoNode
           /\ VersionOf[h] \in Versions /\ CapacityOf[h] \in Caps
           /\ ExpertsOf[h] \subseteq Refs
  BY FleetAssumption, ConstantsAssumption

\* A call of a process is a call of a publisher.
LEMMA ReachesIsNext ==
    ASSUME NEW h \in Hosts, NEW call, Proper(h, call), ReachesRegistry(h, call)
    PROVE  Next
  <1>1. CASE call.op = "register"
    <2>1. RegisterExpert(CallerOf(h, call), call.ref, VersionOf[h], CapacityOf[h], h,
                         TRUE, TRUE, TRUE)
      BY <1>1 DEF ReachesRegistry
    <2>2. call.ref \in Refs
      BY <1>1, HostsTyped DEF Proper
    <2> QED
      BY <2>1, <2>2, HostsTyped, CallersTyped DEF Next, PublisherCalls
  <1>2. CASE call.op = "beat"
    <2>1. Heartbeat(CallerOf(h, call), h, {}, CapacityOf[h])
      BY <1>2 DEF ReachesRegistry
    <2>2. {} \in SUBSET Refs /\ CapacityOf[h] \in Caps \cup {Unread}
      BY HostsTyped
    <2> QED
      BY <2>1, <2>2, HostsTyped, CallersTyped DEF Next, PublisherCalls
  <1> QED
    BY <1>1, <1>2 DEF Proper

LEMMA OthersAreNext == OthersCallRegistry => Next
  <1>1. Outsiders \subseteq Callers
    BY DEF Outsiders
  <1>2. PublisherCalls(Outsiders, Nodes \ Hosts) => PublisherCalls(Callers, Nodes)
    BY <1>1 DEF PublisherCalls
  <1> QED
    BY <1>2 DEF OthersCallRegistry, Next

LEMMA OthersBeatIsNext ==
    ASSUME NEW h \in Hosts, OthersBeat(h)
    PROVE  Next
  <1>1. Outsiders \subseteq Callers /\ h \in Nodes
    BY HostsTyped DEF Outsiders
  <1>2. PICK p \in Callers, named \in SUBSET Refs, cap \in Caps \cup {Unread} :
            Heartbeat(p, h, named, cap)
    BY <1>1 DEF OthersBeat
  <1> QED
    BY <1>1, <1>2 DEF Next, PublisherCalls

\* An accepted registration lists the expert; one that is not accepted does nothing.
LEMMA RegistrationEffect ==
    ASSUME TypeOK, NEW g \in Hosts, NEW call, call.op = "register", Proper(g, call),
           ReachesRegistry(g, call)
    PROVE  /\ reply'.code = "OK" =>
                /\ Listed(g, call.ref)' /\ entries'[call.ref].beat = now
                /\ \A s \in Refs \ {call.ref} :
                     /\ entries'[s] = NoEntry <=> entries[s] = NoEntry
                     /\ entries[s] # NoEntry =>
                          /\ entries'[s].beat = entries[s].beat
                          /\ entries'[s].node = entries[s].node
                          /\ entries'[s].promoted = entries[s].promoted
                          /\ entries'[s].owner = entries[s].owner
           /\ reply'.code # "OK" => entries' = entries
           /\ now' = now
  <1> DEFINE c == CallerOf(g, call)
             r == call.ref
  <1>1. RegisterExpert(c, r, VersionOf[g], CapacityOf[g], g, TRUE, TRUE, TRUE)
    BY DEF ReachesRegistry
  <1>2. r \in Refs /\ c \in Callers
    BY HostsTyped, CallersTyped DEF Proper
  <1> HIDE DEF c, r
  <1>3. CASE RegisterDenied(c) \/ RegisterRejected(c, r, VersionOf[g], TRUE, TRUE)
    BY <1>3 DEF RegisterDenied, RegisterRejected, Answer, catalogue
  <1>4. CASE RegisterAccepted(c, r, VersionOf[g], CapacityOf[g], g, TRUE, TRUE)
    <2>1. /\ entries'[r] # NoEntry
          /\ entries'[r].beat = now /\ entries'[r].owner = c /\ entries'[r].node = g
          /\ entries'[r].promoted = AskedPromotion(TRUE)
          /\ \A s \in Refs \ {r} :
               /\ entries'[s] = NoEntry <=> entries[s] = NoEntry
               /\ entries[s] # NoEntry =>
                    /\ entries'[s].beat = entries[s].beat
                    /\ entries'[s].node = entries[s].node
                    /\ entries'[s].promoted = entries[s].promoted
                    /\ entries'[s].owner = entries[s].owner
                    /\ entries'[s].version = entries[s].version
      BY <1>2, <1>4, HostsTyped, AcceptedEntries, Zenon
    <2>2. c = Identity(g)
      BY <1>4, CallersThemselves, ConstantsAssumption DEF RegisterAccepted, c
    <2>3. Listed(g, r)'
      BY <1>2, <2>1, <2>2 DEF Listed, Registered, AskedPromotion
    <2>4. reply'.code = "OK" /\ now' = now
      BY <1>4 DEF RegisterAccepted, Answer
    <2> QED
      BY <2>1, <2>3, <2>4 DEF r
  <1> QED
    BY <1>1, <1>3, <1>4 DEF RegisterExpert

LEMMA HeartbeatAnswer ==
    ASSUME NEW p, NEW node, NEW named, NEW cap, Heartbeat(p, node, named, cap)
    PROVE  /\ p \notin Publishers => reply'.code # "OK" /\ entries' = entries
           /\ p \in Publishers => reply'.code = "OK"
           /\ now' = now
  <1>1. /\ p \notin Publishers =>
              reply' = Answer("Heartbeat", p, "ACL_DENIED") /\ UNCHANGED catalogue
        /\ p \in Publishers => reply' = Answer("Heartbeat", p, "OK")
        /\ now' = now
    BY Zenon DEF Heartbeat
  <1> QED
    BY <1>1 DEF Answer, catalogue

\* An accepted heartbeat makes every entry of the node fresh and no other.
LEMMA BeatEffect ==
    ASSUME TypeOK, NEW g \in Hosts, NEW call, call.op = "beat", ReachesRegistry(g, call)
    PROVE  /\ reply'.code = "OK" =>
                \A s \in Refs :
                  /\ entries'[s] = NoEntry <=> entries[s] = NoEntry
                  /\ entries[s] # NoEntry =>
                       /\ entries'[s].beat = IF entries[s].node = g THEN now ELSE entries[s].beat
                       /\ entries'[s].node = entries[s].node
                       /\ entries'[s].promoted = entries[s].promoted
                       /\ entries'[s].owner = entries[s].owner
           /\ reply'.code # "OK" => entries' = entries
           /\ now' = now
  <1> DEFINE c == CallerOf(g, call)
             all == {}
             cap == CapacityOf[g]
  <1>1. Heartbeat(c, g, all, cap)
    BY DEF ReachesRegistry
  <1>2. c \in Callers /\ all \in SUBSET Refs /\ cap \in Caps \cup {Unread}
    BY HostsTyped, CallersTyped
  <1>all. all = {}
    OBVIOUS
  <1> HIDE DEF c, all, cap
  <1>3. CASE c \notin Publishers
    BY <1>1, <1>3, HeartbeatAnswer
  <1>4. CASE c \in Publishers
    <2>1. \A s \in Refs :
             /\ entries'[s] = NoEntry <=> entries[s] = NoEntry
             /\ entries[s] # NoEntry =>
                  /\ entries'[s].node = entries[s].node
                  /\ entries'[s].promoted = entries[s].promoted
                  /\ entries'[s].owner = entries[s].owner
                  /\ entries'[s].beat = IF s \in Beaten(g, all) THEN now ELSE entries[s].beat
      <3>1. g \in Nodes
        BY HostsTyped
      <3> QED
        BY <1>1, <1>2, <1>4, <3>1, BeatenEntries
    <2>2. \A s \in Refs : entries[s] # NoEntry => (s \in Beaten(g, all) <=> entries[s].node = g)
      BY <1>all DEF Beaten, Registered
    <2>3. reply'.code = "OK" /\ now' = now
      BY <1>1, <1>4, HeartbeatAnswer
    <2> QED
      BY <2>1, <2>2, <2>3
  <1> QED
    BY <1>3, <1>4

\* What the entries of h's experts go through when a call arrives, of h or not.
LEMMA CallKeepsListed ==
    ASSUME TypeOK, NEW g \in Hosts, NEW h \in Hosts, NEW call, Proper(g, call),
           ReachesRegistry(g, call), NEW r \in ExpertsOf[h], Listed(h, r)
    PROVE  Listed(h, r)' /\ entries'[r].beat \in {entries[r].beat, now}
  <1>1. r \in Refs /\ entries[r] # NoEntry
    BY HostsTyped DEF Listed, Registered
  <1>2. CASE entries' = entries
    BY <1>2 DEF Listed, Registered
  <1>3. CASE call.op = "register" /\ reply'.code = "OK" /\ r = call.ref
    <2>1. g = h
      BY <1>3, FleetAssumption DEF Proper
    <2> QED
      BY <1>3, <2>1, RegistrationEffect
  <1>4. CASE call.op = "register" /\ reply'.code = "OK" /\ r # call.ref
    <2>1. /\ entries'[r] # NoEntry /\ entries'[r].beat = entries[r].beat
          /\ entries'[r].node = entries[r].node /\ entries'[r].promoted = entries[r].promoted
          /\ entries'[r].owner = entries[r].owner
      BY <1>1, <1>4, RegistrationEffect
    <2> QED
      BY <1>1, <2>1 DEF Listed, Registered
  <1>5. CASE call.op = "beat" /\ reply'.code = "OK"
    <2>1. /\ entries'[r] # NoEntry
          /\ entries'[r].beat = IF entries[r].node = g THEN now ELSE entries[r].beat
          /\ entries'[r].node = entries[r].node /\ entries'[r].promoted = entries[r].promoted
          /\ entries'[r].owner = entries[r].owner
      BY <1>1, <1>5, BeatEffect
    <2> QED
      BY <1>1, <2>1 DEF Listed, Registered
  <1> QED
    BY <1>2, <1>3, <1>4, <1>5, RegistrationEffect, BeatEffect DEF Proper

\* A heartbeat that counts refreshes every listed expert of its node.
LEMMA BeatCounts ==
    ASSUME TypeOK, NEW h \in Hosts, NEW call, call.op = "beat",
           ReachesRegistry(h, call), reply'.code = "OK", NEW r \in ExpertsOf[h], Listed(h, r)
    PROVE  entries'[r].beat = now
  <1>1. r \in Refs /\ entries[r] # NoEntry /\ entries[r].node = h
    BY HostsTyped DEF Listed, Registered
  <1> QED
    BY <1>1, BeatEffect

\* r is registered under h's own principal.
Owned(h, r) == r \in Registered /\ entries[r].owner = Identity(h)

\* Only h's own calls register or refresh what it owns.
LEMMA CallOwned ==
    ASSUME TypeOK, NEW g \in Hosts, NEW h \in Hosts, NEW call, Proper(g, call),
           ReachesRegistry(g, call), NEW r \in ExpertsOf[h],
           Owned(h, r) => entries[r].node = h, Owned(h, r)'
    PROVE  /\ entries'[r].node = h
           /\ \/ g = h /\ entries'[r].beat = now
              \/ Owned(h, r) /\ entries'[r].beat = entries[r].beat
  <1>1. r \in Refs /\ entries'[r] # NoEntry
    BY HostsTyped DEF Owned, Registered
  <1>2. CASE entries' = entries
    BY <1>2 DEF Owned, Registered
  <1>3. CASE call.op = "register" /\ reply'.code = "OK" /\ r = call.ref
    <2>1. g = h
      BY <1>3, FleetAssumption DEF Proper
    <2> QED
      BY <1>3, <2>1, RegistrationEffect DEF Listed
  <1>4. CASE call.op = "register" /\ reply'.code = "OK" /\ r # call.ref
    <2>1. /\ entries[r] # NoEntry /\ entries'[r].beat = entries[r].beat
          /\ entries'[r].node = entries[r].node /\ entries'[r].owner = entries[r].owner
      BY <1>1, <1>4, RegistrationEffect
    <2> QED
      BY <1>1, <2>1 DEF Owned, Registered
  <1>5. CASE call.op = "beat" /\ reply'.code = "OK"
    <2>1. /\ entries[r] # NoEntry
          /\ entries'[r].beat = IF entries[r].node = g THEN now ELSE entries[r].beat
          /\ entries'[r].node = entries[r].node /\ entries'[r].owner = entries[r].owner
      BY <1>1, <1>5, BeatEffect
    <2> QED
      BY <1>1, <2>1 DEF Owned, Registered
  <1> QED
    BY <1>2, <1>3, <1>4, <1>5, RegistrationEffect, BeatEffect DEF Proper

-----------------------------------------------------------------------------
(* What the calls of others do to an entry: remove it, take it over, or leave it to
   its owner and, if it is a node's, to that node. *)

Open(r) == \E p \in Outsiders : r \in Registered => ~SomeoneElses(r, p)

Removed(r) == entries'[r] = NoEntry /\ (entries[r] # NoEntry => Open(r))
Taken(r) ==
    /\ entries'[r] # NoEntry /\ entries'[r].owner \in Outsiders
    /\ \E p \in Outsiders : r \in Registered => ~SomeoneElses(r, p)
Left(r) ==
    /\ entries[r] # NoEntry /\ entries'[r] # NoEntry
    /\ entries'[r].owner = entries[r].owner /\ entries'[r].node = entries[r].node
    /\ entries[r].promoted => entries'[r].promoted
    /\ entries[r].node \in Hosts => entries'[r].beat = entries[r].beat

LEMMA OthersEffect ==
    ASSUME TypeOK, OthersCallRegistry, NEW r \in Refs
    PROVE  (Removed(r) \/ Taken(r) \/ Left(r)) /\ now' = now
  <1>0. Outsiders \subseteq Callers
    BY DEF Outsiders
  <1>s. entries'[r] = entries[r] => (Removed(r) \/ Left(r))
    BY DEF Removed, Left
  <1>1. ASSUME NEW p \in Outsiders, NEW s \in Refs, NEW v \in Versions, NEW cap \in Caps,
               NEW node \in Nodes \cup {NoNode}, NEW force \in BOOLEAN, NEW promote \in BOOLEAN,
               NEW valid \in BOOLEAN,
               RegisterExpert(p, s, v, cap, node, force, promote, valid)
        PROVE  (Removed(r) \/ Taken(r) \/ Left(r)) /\ now' = now
    <2>1. CASE RegisterDenied(p) \/ RegisterRejected(p, s, v, force, valid)
      BY <2>1, <1>s DEF RegisterDenied, RegisterRejected, catalogue
    <2>2. CASE RegisterAccepted(p, s, v, cap, node, force, promote)
      <3>0. p \in Callers /\ now' = now
        BY <1>0, <2>2 DEF RegisterAccepted
      <3>1. CASE s = r
        <4>1. entries'[r] # NoEntry /\ entries'[r].owner = p
          BY <3>0, <3>1, <2>2, AcceptedEntries
        <4>2. r \in Registered => ~SomeoneElses(r, p)
          BY <3>1, <2>2 DEF RegisterAccepted
        <4> QED
          BY <3>0, <4>1, <4>2 DEF Taken
      <3>2. CASE s # r
        <4>1. /\ entries'[r] = NoEntry <=> entries[r] = NoEntry
              /\ entries[r] # NoEntry =>
                   /\ entries'[r].beat = entries[r].beat
                   /\ entries'[r].node = entries[r].node
                   /\ entries'[r].promoted = entries[r].promoted
                   /\ entries'[r].owner = entries[r].owner
          BY <3>0, <3>2, <2>2, AcceptedEntries
        <4> QED
          BY <3>0, <4>1 DEF Left, Removed
      <3> QED
        BY <3>1, <3>2
    <2> QED
      BY <1>1, <2>1, <2>2 DEF RegisterExpert
  <1>2. ASSUME NEW p \in Outsiders, NEW node \in Nodes \ Hosts, NEW named \in SUBSET Refs,
               NEW cap \in Caps \cup {Unread}, Heartbeat(p, node, named, cap)
        PROVE  (Removed(r) \/ Taken(r) \/ Left(r)) /\ now' = now
    <2>0. p \in Callers /\ node \in Nodes /\ node \notin Hosts
      BY <1>0
    <2>1. CASE p \notin Publishers
      BY <2>1, <1>2, <1>s, HeartbeatAnswer
    <2>2. CASE p \in Publishers
      <3>1. /\ entries'[r] = NoEntry <=> entries[r] = NoEntry
            /\ entries[r] # NoEntry =>
                  /\ entries'[r].node = entries[r].node
                  /\ entries'[r].promoted = entries[r].promoted
                  /\ entries'[r].owner = entries[r].owner
                  /\ entries'[r].beat = IF r \in Beaten(node, named) THEN now ELSE entries[r].beat
        BY <1>2, <2>0, <2>2, BeatenEntries
      <3>2. r \in Beaten(node, named) => entries[r].node \in {NoNode, node}
        BY DEF Beaten
      <3>3. NoNode \notin Hosts
        BY FleetAssumption, ConstantsAssumption
      <3>4. now' = now
        BY <1>2, HeartbeatAnswer
      <3> QED
        BY <2>0, <3>1, <3>2, <3>3, <3>4 DEF Left, Removed
    <2> QED
      BY <2>1, <2>2
  <1>3. ASSUME NEW p \in Outsiders, NEW named \in SUBSET Refs, Deregister(p, named)
        PROVE  (Removed(r) \/ Taken(r) \/ Left(r)) /\ now' = now
    <2>1. now' = now
      BY <1>3 DEF Deregister
    <2>2. entries'[r] # entries[r] => entries'[r] = NoEntry /\ ~SomeoneElses(r, p)
      BY <1>3 DEF Deregister
    <2> QED
      BY <2>1, <2>2, <1>s DEF Removed, Open
  <1>4. ASSUME NEW named \in SUBSET Refs, Promote(named)
        PROVE  (Removed(r) \/ Taken(r) \/ Left(r)) /\ now' = now
    <2>1. /\ entries'[r] = NoEntry <=> entries[r] = NoEntry
          /\ entries[r] # NoEntry =>
                  /\ entries'[r].beat = entries[r].beat
                  /\ entries'[r].node = entries[r].node
                  /\ entries'[r].owner = entries[r].owner
                  /\ entries'[r].promoted = (entries[r].promoted \/ r \in named)
      BY <1>4, PromotedEntries
    <2>2. now' = now
      BY <1>4 DEF Promote
    <2> QED
      BY <2>1, <2>2 DEF Left, Removed
  <1>5. ASSUME NEW p, NEW hits, DescribeHits(p, hits)
        PROVE  (Removed(r) \/ Taken(r) \/ Left(r)) /\ now' = now
    <2>1. /\ entries'[r] = NoEntry <=> entries[r] = NoEntry
          /\ entries[r] # NoEntry =>
                  /\ entries'[r].beat = entries[r].beat
                  /\ entries'[r].node = entries[r].node
                  /\ entries'[r].owner = entries[r].owner
                  /\ entries'[r].promoted = entries[r].promoted
      BY <1>5, DescribedEntries
    <2>2. now' = now
      BY <1>5 DEF DescribeHits
    <2> QED
      BY <2>1, <2>2 DEF Left, Removed
  <1>6. ASSUME \/ \E q \in Grantees, named \in SUBSET Refs : Grant(q, named) \/ SetAcl(q, named)
               \/ \E s \in Refs : DescribeRead(s)
               \/ DescribeReply
        PROVE  (Removed(r) \/ Taken(r) \/ Left(r)) /\ now' = now
    BY <1>6, <1>s DEF Grant, SetAcl, DescribeRead, DescribeReply, catalogue
  <1>7. CASE PublisherCalls(Outsiders, Nodes \ Hosts)
    BY <1>7, <1>1, <1>2, <1>3 DEF PublisherCalls
  <1>8. CASE OperatorCalls
    BY <1>8, <1>4, <1>6 DEF OperatorCalls
  <1>9. CASE ReaderCalls
    BY <1>9, <1>5, <1>6 DEF ReaderCalls, DescribeExplicit, DescribeNN
  <1> QED
    BY <1>7, <1>8, <1>9 DEF OthersCallRegistry

\* Ownership keeps the listings of every host through the calls of others.
LEMMA OthersKeepListed ==
    ASSUME TypeOK, OthersCallRegistry, EnforceOwnership, NEW h \in Hosts, NEW r \in ExpertsOf[h],
           Listed(h, r)
    PROVE  Listed(h, r)' /\ entries'[r].beat = entries[r].beat
  <1>1. r \in Refs /\ entries[r] # NoEntry
    BY HostsTyped DEF Listed, Registered
  <1>2. \A p \in Outsiders : SomeoneElses(r, p)
    BY IdentityNamed DEF SomeoneElses, Outsiders, Listed
  <1>3. ~Removed(r) /\ ~Taken(r)
    BY <1>1, <1>2 DEF Removed, Taken, Open, Registered
  <1>4. Left(r)
    BY <1>1, <1>3, OthersEffect
  <1> QED
    BY <1>1, <1>4 DEF Left, Listed, Registered

LEMMA OthersOwned ==
    ASSUME TypeOK, OthersCallRegistry, NEW h \in Hosts, NEW r \in ExpertsOf[h],
           Owned(h, r) => entries[r].node = h, Owned(h, r)'
    PROVE  /\ Owned(h, r) /\ entries'[r].node = h
           /\ entries'[r].beat = entries[r].beat
  <1>1. r \in Refs /\ entries'[r] # NoEntry /\ entries'[r].owner = Identity(h)
    BY HostsTyped DEF Owned, Registered
  <1>2. ~Taken(r) /\ ~Removed(r)
    BY <1>1 DEF Taken, Removed, Outsiders
  <1>3. Left(r)
    BY <1>1, <1>2, OthersEffect
  <1> QED
    BY <1>1, <1>3 DEF Left, Owned, Registered

\* A heartbeat in the name of g's node disturbs no listing and makes nothing of another
\* node fresher; what it makes fresher is put on record.
LEMMA OthersBeatEffect ==
    ASSUME TypeOK, NEW g \in Hosts, OthersBeat(g)
    PROVE  /\ now' = now
           /\ \A s \in Refs :
                /\ entries'[s] = NoEntry <=> entries[s] = NoEntry
                /\ entries[s] # NoEntry =>
                     /\ entries'[s].node = entries[s].node
                     /\ entries'[s].promoted = entries[s].promoted
                     /\ entries'[s].owner = entries[s].owner
                     /\ \/ entries'[s].beat = entries[s].beat
                        \/ /\ entries'[s].beat = now /\ entries[s].node \in {NoNode, g}
                           /\ s \in ExpertsOf[g] => spokenFor'[s] = now
                /\ spokenFor'[s] \in {spokenFor[s], now}
  <1>1. PICK p \in Outsiders, named \in SUBSET Refs, cap \in Caps \cup {Unread} :
          /\ Heartbeat(p, g, named, cap)
          /\ spokenFor' = [s \in Refs |->
                 IF reply'.code = "OK" /\ s \in ExpertsOf[g] /\ (named = {} \/ s \in named)
                 THEN now ELSE spokenFor[s]]
    BY DEF OthersBeat
  <1>2. p \in Callers /\ g \in Nodes
    BY HostsTyped DEF Outsiders
  <1>3. now' = now /\ \A s \in Refs : spokenFor'[s] \in {spokenFor[s], now}
    BY <1>1, HeartbeatAnswer
  <1>4. CASE p \notin Publishers
    BY <1>1, <1>3, <1>4, HeartbeatAnswer
  <1>5. CASE p \in Publishers
    <2>1. \A s \in Refs :
             /\ entries'[s] = NoEntry <=> entries[s] = NoEntry
             /\ entries[s] # NoEntry =>
                  /\ entries'[s].node = entries[s].node
                  /\ entries'[s].promoted = entries[s].promoted
                  /\ entries'[s].owner = entries[s].owner
                  /\ entries'[s].beat = IF s \in Beaten(g, named) THEN now ELSE entries[s].beat
      BY <1>1, <1>2, <1>5, BeatenEntries
    <2>2. \A s \in Beaten(g, named) :
             entries[s].node \in {NoNode, g} /\ (named = {} \/ s \in named)
      BY DEF Beaten
    <2>3. \A s \in Refs : s \in Beaten(g, named) /\ s \in ExpertsOf[g] => spokenFor'[s] = now
      BY <1>1, <1>5, <2>2, HeartbeatAnswer
    <2> QED
      BY <1>3, <2>1, <2>2, <2>3
  <1> QED
    BY <1>4, <1>5

LEMMA OthersBeatKeepsListed ==
    ASSUME TypeOK, NEW g \in Hosts, OthersBeat(g), NEW h \in Hosts, NEW r \in ExpertsOf[h],
           Listed(h, r)
    PROVE  Listed(h, r)' /\ entries'[r].beat \in {entries[r].beat, now}
  <1>1. r \in Refs /\ entries[r] # NoEntry
    BY HostsTyped DEF Listed, Registered
  <1> QED
    BY <1>1, OthersBeatEffect DEF Listed, Registered

-----------------------------------------------------------------------------
(* Processes and their calls. *)

\* A process makes the calls of what it is doing, within their deadlines; a heartbeat
\* that counted is not missed, and before the first one there is nothing to miss; none
\* of the loop has counted before there is a loop.
Fits(h) ==
    /\ process[h].todo \subseteq ExpertsOf[h]
    /\ process[h].at \in {"down", "waiting"} => process[h].call = NoCall
    /\ process[h].at \in {"waiting", "registering"} => missed[h] = Never
    /\ process[h].at \in {"greeting", "publishing"} => missed[h] \in {Never, 0}
    /\ process[h].at = "greeting" /\ missed[h] # Never =>
           process[h].call # NoCall /\ process[h].call.outcome = "accepted"
    /\ process[h].at \in {"waiting", "registering", "greeting", "publishing"} => h \notin looped
    /\ process[h].call # NoCall =>
           /\ process[h].call.sent <= now /\ now <= Deadline(process[h].call)
           /\ process[h].at = "registering" =>
                  process[h].call.op = "register" /\ process[h].call.ref \in process[h].todo
           /\ process[h].at \in {"greeting", "beating"} =>
                  process[h].call.op = "beat"
           /\ process[h].at = "publishing" =>
                  process[h].call.op = "upload" /\ process[h].call.outcome = "sent"
           /\ process[h].call.op = "beat" /\ process[h].call.outcome = "accepted" => missed[h] = 0
           /\ process[h].at = "beating" /\ process[h].call.outcome = "accepted" => h \in looped

\* A call left under way was sent before the process stopped.
StrayFits(h) ==
    /\ stoppedAt[h] # Never => stoppedAt[h] <= now
    /\ stray[h] # NoCall =>
           /\ Proper(h, stray[h])
           /\ stoppedAt[h] # Never /\ stray[h].sent <= stoppedAt[h]
           /\ stray[h].sent <= now /\ now <= Deadline(stray[h])

CallsInv == FleetTypeOK /\ \A h \in Hosts : Fits(h) /\ StrayFits(h)

LEMMA FleetConstants ==
    /\ Interval \in Nat /\ RpcTimeout \in Nat /\ PublishTimeout \in Nat /\ MaxTime \in Nat
    /\ HeartbeatTtl \in Nat
    /\ NoCall \notin Call
  BY FleetAssumption, ConstantsAssumption

LEMMA OwnCallsProper ==
    ASSUME NEW h \in Hosts, FleetTypeOK, Fits(h), Calling(h), ReachesRegistry(h, process[h].call)
    PROVE  Proper(h, process[h].call) /\ process[h].at \in {"registering", "greeting", "beating"}
  <1>1. process[h] \in Process /\ process[h].call # NoCall
    BY DEF FleetTypeOK, Calling
  <1>2. process[h].call.op \in {"register", "beat"}
    BY DEF ReachesRegistry
  <1>3. process[h].at \in {"registering", "greeting", "beating"}
    BY <1>1, <1>2 DEF Fits, Process
  <1>4. process[h].call.op = "register" => process[h].call.ref \in ExpertsOf[h]
    BY <1>1, <1>3 DEF Fits
  <1> QED
    BY <1>2, <1>3, <1>4 DEF Proper

\* Every step of the fleet is a step of the registry or leaves it alone.
LEMMA FleetIsRegistry == CallsInv /\ [FleetNext]_fleetVars => [Next]_vars
  <1> SUFFICES ASSUME CallsInv, [FleetNext]_fleetVars PROVE [Next]_vars
    OBVIOUS
  <1>1. ASSUME NEW h \in Hosts, CallArrives(h) PROVE Next
    BY <1>1, OwnCallsProper, ReachesIsNext DEF CallsInv, CallArrives
  <1>2. ASSUME NEW h \in Hosts, StrayArrives(h) PROVE Next
    <2>1. Proper(h, stray[h])
      BY <1>2 DEF CallsInv, StrayFits, StrayArrives
    <2> QED
      BY <1>2, <2>1, ReachesIsNext DEF StrayArrives
  <1>3. ASSUME NEW h \in Hosts,
               \/ \E op \in {"register", "beat", "upload"}, ref \in Refs \cup {NoRef} : Calls(h, op, ref)
               \/ Answered(h) \/ Fails(h) \/ UploadEnds(h)
               \/ Starts(h) \/ FindsRegistry(h) \/ Stops(h)
        PROVE  UNCHANGED vars
    BY <1>3 DEF Calls, Answered, Fails, UploadEnds, Starts, FindsRegistry, Stops
  <1>4. RegistryRestarts \/ TimePasses => Next
    BY DEF RegistryRestarts, TimePasses, Next
  <1>5. CASE UNCHANGED fleetVars
    BY <1>5 DEF fleetVars
  <1>6. CASE FleetNext
    BY <1>1, <1>2, <1>3, <1>4, <1>6, OthersAreNext, OthersBeatIsNext DEF FleetNext
  <1> QED
    BY <1>5, <1>6

-----------------------------------------------------------------------------
(* What each action does to the process it is about. *)

LEMMA CallsEffect ==
    ASSUME FleetTypeOK, TypeOK, NEW h \in Hosts, NEW op \in {"register", "beat", "upload"},
           NEW ref \in Refs \cup {NoRef}, Calls(h, op, ref)
    PROVE  /\ process' \in [Hosts -> Process]
           /\ \A g \in Hosts : g # h => process'[g] = process[g]
           /\ process'[h].at = process[h].at /\ process'[h].todo = process[h].todo
           /\ process'[h].wake = process[h].wake
           /\ process[h].call = NoCall /\ process'[h].call # NoCall
           /\ process'[h].call = [op |-> op, ref |-> ref, sent |-> now, outcome |-> "sent"]
  <1> DEFINE call == [op |-> op, ref |-> ref, sent |-> now, outcome |-> "sent"]
  <1>1. call \in Call /\ call # NoCall
    BY FleetConstants DEF Call, TypeOK
  <1> HIDE DEF call
  <1>2. process' = [process EXCEPT ![h].call = call] /\ process[h].call = NoCall
    BY DEF Calls, Calling, call
  <1>3. process \in [Hosts -> Process]
    BY DEF FleetTypeOK
  <1>4. process'[h] = [process[h] EXCEPT !.call = call]
    BY <1>2, <1>3
  <1>5. process'[h] \in Process
    BY <1>1, <1>3, <1>4 DEF Process
  <1> QED
    BY <1>1, <1>2, <1>3, <1>4, <1>5 DEF call, Process

LEMMA ArrivalEffect ==
    ASSUME FleetTypeOK, NEW h \in Hosts, CallArrives(h)
    PROVE  /\ process' \in [Hosts -> Process]
           /\ \A g \in Hosts : g # h => process'[g] = process[g]
           /\ process'[h].at = process[h].at /\ process'[h].todo = process[h].todo
           /\ process'[h].wake = process[h].wake
           /\ process[h].call # NoCall /\ process'[h].call # NoCall
           /\ process[h].call.outcome = "sent"
           /\ process'[h].call.op = process[h].call.op
           /\ process'[h].call.ref = process[h].call.ref
           /\ process'[h].call.sent = process[h].call.sent
           /\ process'[h].call.outcome = IF reply'.code = "OK" THEN "accepted" ELSE "refused"
  <1> DEFINE new == IF reply'.code = "OK" THEN "accepted" ELSE "refused"
  <1>1. new \in {"sent", "accepted", "refused"}
    OBVIOUS
  <1>2. /\ process' = [process EXCEPT ![h].call.outcome = new]
        /\ process[h].call # NoCall /\ process[h].call.outcome = "sent"
    BY DEF CallArrives, Outcome, Calling
  <1> HIDE DEF new
  <1>3. process \in [Hosts -> Process] /\ process[h].call \in Call
    BY <1>2 DEF FleetTypeOK, Process
  <1> DEFINE call == [process[h].call EXCEPT !.outcome = new]
  <1>4. call \in Call /\ call # NoCall
    BY <1>1, <1>3, FleetConstants DEF Call
  <1>5. /\ call.op = process[h].call.op /\ call.ref = process[h].call.ref
        /\ call.sent = process[h].call.sent /\ call.outcome = new
    BY <1>3 DEF Call
  <1>6. process'[h] = [process[h] EXCEPT !.call = call]
    BY <1>2, <1>3
  <1> HIDE DEF call
  <1>7. process'[h] \in Process /\ process'[h].call = call
    BY <1>3, <1>4, <1>6 DEF Process
  <1> QED
    BY <1>2, <1>3, <1>4, <1>5, <1>6, <1>7 DEF Process, new

\* The end of a call: where the process was, and where it goes on.
EndsCall(h) == Answered(h) \/ Fails(h) \/ UploadEnds(h)

LEMMA EndEffect ==
    ASSUME FleetTypeOK, TypeOK, NEW h \in Hosts, Fits(h), EndsCall(h)
    PROVE  /\ process' \in [Hosts -> Process]
           /\ \A g \in Hosts : g # h => process'[g] = process[g] /\ missed'[g] = missed[g]
           /\ process[h].call # NoCall /\ process'[h].call = NoCall
           /\ \/ /\ process[h].at = "registering" /\ process[h].call.outcome = "accepted"
                 /\ process'[h].todo = process[h].todo \ {process[h].call.ref}
                 /\ process'[h].at = IF process'[h].todo = {} THEN "greeting" ELSE "registering"
              \/ /\ process[h].at = "greeting" /\ process'[h].at = "publishing"
                 /\ process'[h].todo = process[h].todo
              \/ /\ process[h].at = "publishing" /\ process'[h].at = "beating"
                 /\ process'[h].todo = process[h].todo /\ process'[h].wake = now
              \/ /\ process[h].at = "beating" /\ process'[h].at = "beating"
                 /\ process'[h].todo = process[h].todo /\ process'[h].wake = now + Interval
           /\ missed' = IF process[h].at = "publishing" THEN missed ELSE Counted(h)
  <1>1. /\ process \in [Hosts -> Process] /\ process[h] \in Process /\ now \in Nat
        /\ Interval \in Nat /\ missed \in [Hosts -> Nat \cup {Never}]
    BY FleetConstants DEF FleetTypeOK, TypeOK, Time
  <1>2. process[h].call # NoCall
    BY DEF EndsCall, Answered, Fails, UploadEnds, Calling
  <1>3. process[h].at \in {"registering", "greeting", "publishing", "beating"}
    BY <1>1, <1>2 DEF Fits, Process
  <1>m. missed' = IF process[h].at = "publishing" THEN missed ELSE Counted(h)
    BY <1>1, <1>2, <1>3 DEF EndsCall, Answered, Fails, UploadEnds, Fits, history
  <1>n. \A g \in Hosts : g # h => missed'[g] = missed[g]
    BY <1>1, <1>m DEF Counted
  <1>4. CASE process[h].at = "registering"
    <2>1. Answered(h)
      BY <1>4 DEF EndsCall, Fails, UploadEnds
    <2>2. process' = [process EXCEPT ![h] = Registering(process[h])]
          /\ process[h].call.outcome = "accepted"
      BY <1>4, <2>1 DEF Answered
    <2>3. process[h].call.ref \in process[h].todo
      BY <1>2, <1>4 DEF Fits
    <2> DEFINE new == Registering(process[h])
    <2>4. new \in Process
      BY <1>1 DEF Registering, AfterCall, Process
    <2>5. /\ new.todo = process[h].todo \ {process[h].call.ref}
          /\ new.call = NoCall
          /\ new.at = IF process[h].todo = {process[h].call.ref} THEN "greeting" ELSE "registering"
      BY <1>1, <1>4 DEF Registering, AfterCall, Process
    <2> HIDE DEF new
    <2>6. process' \in [Hosts -> Process] /\ process'[h] = new
          /\ \A g \in Hosts : g # h => process'[g] = process[g]
      BY <1>1, <2>2, <2>4 DEF new
    <2>7. new.todo = {} <=> process[h].todo = {process[h].call.ref}
      BY <2>3, <2>5
    <2> QED
      BY <1>2, <1>4, <1>m, <1>n, <2>2, <2>5, <2>6, <2>7
  <1>5. CASE process[h].at = "greeting"
    <2>1. Answered(h)
      BY <1>5 DEF EndsCall, Fails, UploadEnds
    <2>2. process' = [process EXCEPT ![h] = Greeted(process[h])]
      BY <1>5, <2>1 DEF Answered
    <2>3. /\ Greeted(process[h]) \in Process /\ Greeted(process[h]).at = "publishing"
          /\ Greeted(process[h]).call = NoCall /\ Greeted(process[h]).todo = process[h].todo
      BY <1>1 DEF Greeted, AfterCall, Process
    <2> QED
      BY <1>1, <1>2, <1>5, <1>m, <1>n, <2>2, <2>3
  <1>6. CASE process[h].at = "publishing"
    <2>1. UploadEnds(h)
      BY <1>2, <1>6 DEF EndsCall, Fails, Answered, Fits
    <2>2. process' = [process EXCEPT ![h] = Published(process[h])]
      BY <2>1 DEF UploadEnds
    <2>3. /\ Published(process[h]) \in Process /\ Published(process[h]).at = "beating"
          /\ Published(process[h]).call = NoCall /\ Published(process[h]).todo = process[h].todo
          /\ Published(process[h]).wake = now
      BY <1>1 DEF Published, AfterCall, Process
    <2> QED
      BY <1>1, <1>2, <1>6, <1>m, <1>n, <2>2, <2>3
  <1>7. CASE process[h].at = "beating"
    <2>1. Answered(h) \/ Fails(h)
      BY <1>7 DEF EndsCall, UploadEnds
    <2>2. process' = [process EXCEPT ![h] = Asleep(process[h])]
      BY <1>7, <2>1 DEF Answered, Fails
    <2>3. /\ Asleep(process[h]) \in Process /\ Asleep(process[h]).at = "beating"
          /\ Asleep(process[h]).call = NoCall /\ Asleep(process[h]).todo = process[h].todo
          /\ Asleep(process[h]).wake = now + Interval
      <3> DEFINE over == AfterCall(process[h])
                 then == now + Interval
      <3>1. /\ over \in Process /\ over.call = NoCall /\ over.at = process[h].at
            /\ over.todo = process[h].todo
        BY <1>1 DEF AfterCall, Process
      <3>2. then \in Nat
        BY <1>1
      <3>3. Asleep(process[h]) = [over EXCEPT !.wake = then]
        BY DEF Asleep
      <3> HIDE DEF over, then
      <3>4. /\ Asleep(process[h]) \in Process /\ Asleep(process[h]).wake = then
            /\ Asleep(process[h]).at = over.at /\ Asleep(process[h]).call = over.call
            /\ Asleep(process[h]).todo = over.todo
        BY <3>1, <3>2, <3>3 DEF Process
      <3> QED
        BY <1>7, <3>1, <3>4 DEF then
    <2> QED
      BY <1>1, <1>2, <1>7, <1>m, <1>n, <2>2, <2>3
  <1> QED
    BY <1>3, <1>4, <1>5, <1>6, <1>7

LEMMA StartEffect ==
    ASSUME FleetTypeOK, NEW h \in Hosts, Starts(h)
    PROVE  /\ process' \in [Hosts -> Process]
           /\ \A g \in Hosts : g # h => process'[g] = process[g] /\ missed'[g] = missed[g]
           /\ process[h].at = "down" /\ process'[h].at = "waiting"
           /\ process'[h].call = process[h].call /\ process'[h].todo = process[h].todo
           /\ missed' \in [Hosts -> Nat \cup {Never}] /\ missed'[h] = Never
  <1>1. process \in [Hosts -> Process] /\ process' = [process EXCEPT ![h].at = "waiting"]
    BY DEF FleetTypeOK, Starts
  <1>2. process'[h] = [process[h] EXCEPT !.at = "waiting"]
    BY <1>1
  <1>3. /\ process'[h] \in Process /\ process'[h].at = "waiting"
        /\ process'[h].call = process[h].call /\ process'[h].todo = process[h].todo
    BY <1>1, <1>2 DEF Process
  <1> QED
    BY <1>1, <1>3 DEF Starts, FleetTypeOK

LEMMA FindEffect ==
    ASSUME FleetTypeOK, NEW h \in Hosts, FindsRegistry(h)
    PROVE  /\ process' \in [Hosts -> Process]
           /\ \A g \in Hosts : g # h => process'[g] = process[g]
           /\ process[h].at = "waiting" /\ process'[h].call = process[h].call
           /\ process'[h].todo = ExpertsOf[h]
           /\ process'[h].at = IF ExpertsOf[h] = {} THEN "greeting" ELSE "registering"
  <1> DEFINE at == IF ExpertsOf[h] = {} THEN "greeting" ELSE "registering"
             todo == ExpertsOf[h]
  <1>1. /\ process \in [Hosts -> Process] /\ process[h].at = "waiting"
        /\ process' = [process EXCEPT ![h].at = at, ![h].todo = todo]
    BY DEF FleetTypeOK, FindsRegistry
  <1>2. /\ at \in {"down", "waiting", "registering", "greeting", "publishing", "beating"}
        /\ todo \in SUBSET Refs
    BY HostsTyped
  <1> HIDE DEF at, todo
  <1>3. process'[h] = [process[h] EXCEPT !.at = at, !.todo = todo]
    BY <1>1
  <1>4. /\ process'[h] \in Process /\ process'[h].at = at /\ process'[h].todo = todo
        /\ process'[h].call = process[h].call
    BY <1>1, <1>2, <1>3 DEF Process
  <1>5. process' \in [Hosts -> Process] /\ \A g \in Hosts : g # h => process'[g] = process[g]
    BY <1>1, <1>4
  <1> QED
    BY <1>1, <1>4, <1>5 DEF at, todo

LEMMA StopEffect ==
    ASSUME FleetTypeOK, NEW h \in Hosts, Stops(h)
    PROVE  /\ process' \in [Hosts -> Process]
           /\ \A g \in Hosts : g # h => process'[g] = process[g]
           /\ process[h].at # "down" /\ process'[h].at = "down"
           /\ process'[h].call = NoCall /\ process'[h].todo = {}
  <1>1. /\ process \in [Hosts -> Process] /\ process' = [process EXCEPT ![h] = Down]
        /\ process[h].at # "down"
    BY DEF FleetTypeOK, Stops
  <1>2. /\ Down \in Process /\ Down.at = "down" /\ Down.call = NoCall /\ Down.todo = {}
    BY DEF Down, Process
  <1> HIDE DEF Down
  <1> QED
    BY <1>1, <1>2

LEMMA CountedTyped ==
    ASSUME FleetTypeOK, NEW h \in Hosts
    PROVE  /\ Counted(h) \in [Hosts -> Nat \cup {Never}]
           /\ \A g \in Hosts : g # h => Counted(h)[g] = missed[g]
           /\ IF process[h].call.op = "beat" /\ process[h].call.outcome # "accepted"
                 /\ missed[h] # Never
              THEN Counted(h)[h] = missed[h] + 1 ELSE Counted(h) = missed
  BY DEF Counted, FleetTypeOK, Never

LEMMA FleetTyped == TypeOK /\ TypeOK' /\ CallsInv /\ [FleetNext]_fleetVars => FleetTypeOK'
  <1> SUFFICES ASSUME TypeOK, TypeOK', CallsInv, [FleetNext]_fleetVars PROVE FleetTypeOK'
    OBVIOUS
  <1>0. /\ FleetTypeOK /\ now \in Time /\ now' \in Time
        /\ \A h \in Hosts : Fits(h) /\ StrayFits(h)
    BY DEF CallsInv, TypeOK
  <1>a. \A h \in Hosts : process[h].at = "registering" <=> process[h].todo # {}
    BY <1>0 DEF FleetTypeOK
  <1>1. ASSUME NEW h \in Hosts, NEW op \in {"register", "beat", "upload"},
               NEW ref \in Refs \cup {NoRef}, Calls(h, op, ref)
        PROVE  FleetTypeOK'
    <2>1. \A g \in Hosts : process'[g].at = process[g].at /\ process'[g].todo = process[g].todo
      BY <1>0, <1>1, CallsEffect
    <2>2. process' \in [Hosts -> Process]
      BY <1>0, <1>1, CallsEffect
    <2>3. UNCHANGED <<stray, missed, looped, stoppedAt, forgotten, spokenFor>>
      BY <1>1 DEF Calls, history
    <2> QED
      BY <1>0, <1>a, <2>1, <2>2, <2>3 DEF FleetTypeOK
  <1>2. ASSUME NEW h \in Hosts, CallArrives(h)
        PROVE  FleetTypeOK'
    <2>1. \A g \in Hosts : process'[g].at = process[g].at /\ process'[g].todo = process[g].todo
      BY <1>0, <1>2, ArrivalEffect
    <2>2. process' \in [Hosts -> Process]
      BY <1>0, <1>2, ArrivalEffect
    <2>3. missed' \in [Hosts -> Nat \cup {Never}]
      BY <1>0, <1>2 DEF CallArrives, FleetTypeOK
    <2>4. UNCHANGED <<stray, stoppedAt, forgotten, spokenFor>> /\ looped' \in SUBSET Hosts
      BY <1>0, <1>2 DEF CallArrives, FleetTypeOK
    <2> QED
      BY <1>0, <1>a, <2>1, <2>2, <2>3, <2>4 DEF FleetTypeOK
  <1>3. ASSUME NEW h \in Hosts, StrayArrives(h)
        PROVE  FleetTypeOK'
    BY <1>0, <1>3 DEF StrayArrives, FleetTypeOK, history
  <1>4. ASSUME NEW h \in Hosts, EndsCall(h)
        PROVE  FleetTypeOK'
    <2>1. process' \in [Hosts -> Process]
      BY <1>0, <1>4, EndEffect
    <2>2. process'[h].at = "registering" <=> process'[h].todo # {}
      BY <1>0, <1>a, <1>4, EndEffect
    <2>3. \A g \in Hosts : g # h => process'[g] = process[g]
      BY <1>0, <1>4, EndEffect
    <2>4. missed' \in [Hosts -> Nat \cup {Never}]
      <3>1. missed' = missed \/ missed' = Counted(h)
        BY <1>0, <1>4, EndEffect
      <3> QED
        BY <1>0, <3>1, CountedTyped DEF FleetTypeOK
    <2>5. UNCHANGED <<stray, looped, stoppedAt, forgotten, spokenFor>>
      BY <1>4 DEF EndsCall, Answered, Fails, UploadEnds, history
    <2> QED
      BY <1>0, <1>a, <2>1, <2>2, <2>3, <2>4, <2>5 DEF FleetTypeOK
  <1>5. ASSUME NEW h \in Hosts, Starts(h)
        PROVE  FleetTypeOK'
    <2>1. /\ process' \in [Hosts -> Process] /\ missed' \in [Hosts -> Nat \cup {Never}]
          /\ \A g \in Hosts : process'[g].at = "registering" <=> process'[g].todo # {}
      BY <1>0, <1>a, <1>5, StartEffect
    <2> QED
      BY <1>0, <1>5, <2>1 DEF Starts, FleetTypeOK
  <1>6. ASSUME NEW h \in Hosts, FindsRegistry(h)
        PROVE  FleetTypeOK'
    <2>1. /\ process' \in [Hosts -> Process]
          /\ \A g \in Hosts : process'[g].at = "registering" <=> process'[g].todo # {}
      BY <1>0, <1>a, <1>6, FindEffect
    <2> QED
      BY <1>0, <1>6, <2>1 DEF FindsRegistry, FleetTypeOK
  <1>7. ASSUME NEW h \in Hosts, Stops(h)
        PROVE  FleetTypeOK'
    <2>1. /\ process' \in [Hosts -> Process]
          /\ \A g \in Hosts : process'[g].at = "registering" <=> process'[g].todo # {}
      BY <1>0, <1>a, <1>7, StopEffect
    <2>2. stray' \in [Hosts -> Call \cup {NoCall}]
      BY <1>0, <1>7 DEF Stops, FleetTypeOK, Process
    <2>3. stoppedAt' \in [Hosts -> Time \cup {Never}]
      BY <1>0, <1>7 DEF Stops, FleetTypeOK
    <2> QED
      BY <1>0, <1>7, <2>1, <2>2, <2>3 DEF Stops, FleetTypeOK
  <1>8. CASE OthersCallRegistry
    BY <1>0, <1>8 DEF OthersCallRegistry, FleetTypeOK, history
  <1>9. CASE RegistryRestarts
    BY <1>0, <1>9 DEF RegistryRestarts, FleetTypeOK
  <1>10. CASE TimePasses
    BY <1>0, <1>10 DEF TimePasses, FleetTypeOK, history
  <1>11. CASE UNCHANGED fleetVars
    BY <1>0, <1>11 DEF fleetVars, FleetTypeOK, history
  <1>12. ASSUME NEW h \in Hosts, OthersBeat(h)
         PROVE  FleetTypeOK'
    <2>1. spokenFor' \in [Refs -> Time \cup {Never}]
      BY <1>0, <1>12 DEF OthersBeat, FleetTypeOK
    <2>2. UNCHANGED <<process, stray, missed, looped, stoppedAt, forgotten>>
      BY <1>12 DEF OthersBeat
    <2> QED
      BY <1>0, <2>1, <2>2 DEF FleetTypeOK
  <1> QED
    BY <1>1, <1>2, <1>3, <1>4, <1>5, <1>6, <1>7, <1>8, <1>9, <1>10, <1>11, <1>12
       DEF FleetNext, EndsCall

-----------------------------------------------------------------------------
(* Calls stay within their processes and their deadlines. *)

LEMMA FitsKept ==
    ASSUME NEW h \in Hosts, Fits(h), process'[h] = process[h], missed'[h] = missed[h],
           h \in looped' <=> h \in looped, now' = now
    PROVE  Fits(h)'
  BY DEF Fits, Deadline

LEMMA StrayKept ==
    ASSUME NEW h \in Hosts, StrayFits(h), stray'[h] \in {stray[h], NoCall},
           stoppedAt'[h] = stoppedAt[h], now' = now
    PROVE  StrayFits(h)'
  BY DEF StrayFits, Deadline, Proper

LEMMA DeadlineTyped ==
    ASSUME NEW call \in Call
    PROVE  /\ Deadline(call) \in Nat /\ call.sent \in Nat
           /\ call.op # "upload" => Deadline(call) = call.sent + RpcTimeout
           /\ call.op = "upload" => Deadline(call) = call.sent + PublishTimeout
           /\ call.sent <= Deadline(call)
  BY FleetConstants DEF Deadline, Call, Time

LEMMA ReachesKeepsTime ==
    ASSUME TypeOK, NEW h \in Hosts, NEW call, Proper(h, call), ReachesRegistry(h, call)
    PROVE  now' = now
  BY RegistrationEffect, BeatEffect DEF Proper

LEMMA OthersKeepTime == TypeOK /\ OthersCallRegistry => now' = now
  <1> SUFFICES ASSUME TypeOK, OthersCallRegistry PROVE now' = now
    OBVIOUS
  <1>1. CASE Refs = {}
    BY <1>1 DEF OthersCallRegistry, PublisherCalls, OperatorCalls, ReaderCalls, Heartbeat,
                Deregister, Promote, Grant, SetAcl, DescribeExplicit, DescribeNN, DescribeHits,
                DescribeReply
  <1> QED
    BY <1>1, OthersEffect

LEMMA FleetFits ==
    TypeOK /\ TypeOK' /\ CallsInv /\ [FleetNext]_fleetVars => \A h \in Hosts : Fits(h)'
  <1> SUFFICES ASSUME TypeOK, TypeOK', CallsInv, [FleetNext]_fleetVars, NEW h \in Hosts
               PROVE  Fits(h)'
    OBVIOUS
  <1>0. /\ FleetTypeOK /\ Fits(h) /\ StrayFits(h) /\ now \in Nat
        /\ \A g \in Hosts : Fits(g) /\ StrayFits(g)
        /\ process[h] \in Process /\ missed[h] \in Nat \cup {Never}
    BY DEF CallsInv, TypeOK, Time, FleetTypeOK
  <1>1. ASSUME NEW g \in Hosts, NEW op \in {"register", "beat", "upload"},
               NEW ref \in Refs \cup {NoRef}, Calls(g, op, ref)
        PROVE  Fits(h)'
    <2>1. UNCHANGED <<missed, looped, now>>
      BY <1>1 DEF Calls, vars, history
    <2>2. CASE g # h
      BY <1>0, <1>1, <2>1, <2>2, CallsEffect, FitsKept
    <2>3. CASE g = h
      <3> DEFINE call == [op |-> op, ref |-> ref, sent |-> now, outcome |-> "sent"]
      <3>1. /\ process'[h].at = process[h].at /\ process'[h].todo = process[h].todo
            /\ process[h].call = NoCall /\ process'[h].call # NoCall
            /\ process'[h].call = call
        BY <1>0, <1>1, <2>3, CallsEffect
      <3>2. /\ call.sent = now /\ call.op = op /\ call.ref = ref /\ call.outcome = "sent"
        OBVIOUS
      <3>3. Deadline(call) >= now
        BY <1>0, <3>2, FleetConstants DEF Deadline
      <3>4. NextCall(h, op, ref)
        BY <1>1, <2>3 DEF Calls
      <3> HIDE DEF call
      <3>5. /\ process[h].at = "registering" => op = "register" /\ ref \in process[h].todo
            /\ process[h].at \in {"greeting", "beating"} => op = "beat"
            /\ process[h].at = "publishing" => op = "upload"
            /\ process[h].at \notin {"down", "waiting"}
        BY <3>4 DEF NextCall
      <3>6. process[h].at = "greeting" => missed[h] = Never
        BY <1>0, <3>1 DEF Fits
      <3>7. Deadline(process'[h].call) = Deadline(call)
        BY <3>1
      <3> QED
        BY <1>0, <2>1, <3>1, <3>2, <3>3, <3>5, <3>6, <3>7 DEF Fits, Deadline
    <2> QED
      BY <2>2, <2>3
  <1>2. ASSUME NEW g \in Hosts, CallArrives(g)
        PROVE  Fits(h)'
    <2>1. Proper(g, process[g].call) /\ now' = now
      BY <1>0, <1>2, OwnCallsProper, ReachesKeepsTime DEF CallArrives
    <2>2. CASE g # h
      <3>1. missed'[h] = missed[h] /\ (h \in looped' <=> h \in looped)
        BY <1>0, <1>2, <2>2 DEF CallArrives, FleetTypeOK
      <3> QED
        BY <1>0, <1>2, <2>1, <2>2, <3>1, ArrivalEffect, FitsKept
    <2>3. CASE g = h
      <3>1. /\ process'[h].at = process[h].at /\ process'[h].todo = process[h].todo
            /\ process[h].call # NoCall /\ process'[h].call # NoCall
            /\ process[h].call.outcome = "sent"
            /\ process'[h].call.op = process[h].call.op
            /\ process'[h].call.ref = process[h].call.ref
            /\ process'[h].call.sent = process[h].call.sent
        BY <1>0, <1>2, <2>3, ArrivalEffect
      <3>2. missed'[h] = IF process'[h].call.op = "beat" /\ process'[h].call.outcome = "accepted"
                         THEN 0 ELSE missed[h]
        BY <1>0, <1>2, <2>3, <3>1 DEF CallArrives, FleetTypeOK
      <3>3. /\ process[h].at \in {"registering", "greeting", "beating"}
            /\ process[h].call.op \in {"register", "beat"}
        BY <1>0, <1>2, <2>3, OwnCallsProper DEF CallArrives, Proper
      <3>4. Deadline(process'[h].call) = Deadline(process[h].call)
        BY <3>1 DEF Deadline
      <3>5. process[h].at = "registering" => missed'[h] = Never
        BY <1>0, <3>1, <3>2 DEF Fits
      <3>6. process[h].at \in {"greeting", "publishing"} => missed'[h] \in {Never, 0}
        BY <1>0, <3>2 DEF Fits
      <3>7. process[h].at = "greeting" /\ missed'[h] # Never => process'[h].call.outcome = "accepted"
        BY <1>0, <3>1, <3>2 DEF Fits
      <3>8. process'[h].call.sent <= now /\ now <= Deadline(process'[h].call)
        BY <1>0, <3>1, <3>4 DEF Fits
      <3>9. /\ process[h].at \in {"registering", "greeting"} => h \notin looped'
            /\ process[h].at = "beating" /\ process'[h].call.outcome = "accepted" => h \in looped'
        BY <1>0, <1>2, <2>3 DEF CallArrives, Fits
      <3> QED
        BY <1>0, <2>1, <3>1, <3>2, <3>3, <3>5, <3>6, <3>7, <3>8, <3>9 DEF Fits, Deadline
    <2> QED
      BY <2>2, <2>3
  <1>3. ASSUME NEW g \in Hosts, StrayArrives(g)
        PROVE  Fits(h)'
    <2>1. Proper(g, stray[g])
      BY <1>0, <1>3 DEF StrayFits, StrayArrives
    <2>2. now' = now /\ UNCHANGED <<process, missed, looped>>
      BY <1>3, <2>1, ReachesKeepsTime DEF StrayArrives, history
    <2> QED
      BY <1>0, <2>2, FitsKept
  <1>4. ASSUME NEW g \in Hosts, EndsCall(g)
        PROVE  Fits(h)'
    <2>1. now' = now /\ looped' = looped
      BY <1>4 DEF EndsCall, Answered, Fails, UploadEnds, vars, history
    <2>2. CASE g # h
      BY <1>0, <1>4, <2>1, <2>2, EndEffect, FitsKept
    <2>3. CASE g = h
      <3>1. /\ process[h].call # NoCall /\ process'[h].call = NoCall
            /\ \/ /\ process[h].at = "registering" /\ process[h].call.outcome = "accepted"
                  /\ process'[h].todo = process[h].todo \ {process[h].call.ref}
                  /\ process'[h].at = IF process'[h].todo = {} THEN "greeting" ELSE "registering"
               \/ /\ process[h].at = "greeting" /\ process'[h].at = "publishing"
                  /\ process'[h].todo = process[h].todo
               \/ /\ process[h].at = "publishing" /\ process'[h].at = "beating"
                  /\ process'[h].todo = process[h].todo
               \/ /\ process[h].at = "beating" /\ process'[h].at = "beating"
                  /\ process'[h].todo = process[h].todo
            /\ missed' = IF process[h].at = "publishing" THEN missed ELSE Counted(h)
        BY <1>0, <1>4, <2>3, EndEffect
      <3>2. process'[h].todo \subseteq ExpertsOf[h]
        BY <1>0, <3>1 DEF Fits
      <3>3. process'[h].at \in {"registering", "greeting"} => missed'[h] = Never
        <4>1. SUFFICES ASSUME process[h].at = "registering" PROVE missed'[h] = Never
          BY <3>1
        <4>2. missed[h] = Never /\ process[h].call.op = "register"
          BY <1>0, <3>1, <4>1 DEF Fits
        <4> QED
          BY <1>0, <3>1, <4>1, <4>2, CountedTyped
      <3>4. process'[h].at = "publishing" => missed'[h] \in {Never, 0}
        <4>1. SUFFICES ASSUME process[h].at = "greeting" PROVE missed'[h] \in {Never, 0}
          BY <3>1
        <4>2. missed[h] \in {Never, 0} /\ (missed[h] # Never => process[h].call.outcome = "accepted")
          BY <1>0, <4>1 DEF Fits
        <4> QED
          BY <1>0, <3>1, <4>1, <4>2, CountedTyped
      <3>5. process'[h].at \in {"registering", "greeting", "publishing"} => h \notin looped'
        BY <1>0, <2>1, <3>1 DEF Fits
      <3> QED
        BY <3>1, <3>2, <3>3, <3>4, <3>5 DEF Fits
    <2> QED
      BY <2>2, <2>3
  <1>5. ASSUME NEW g \in Hosts, Starts(g)
        PROVE  Fits(h)'
    <2>1. now' = now /\ looped' = looped \ {g}
      BY <1>5 DEF Starts, vars
    <2>2. CASE g # h
      BY <1>0, <1>5, <2>1, <2>2, StartEffect, FitsKept
    <2>3. CASE g = h
      BY <1>0, <1>5, <2>1, <2>3, StartEffect DEF Fits
    <2> QED
      BY <2>2, <2>3
  <1>6. ASSUME NEW g \in Hosts, FindsRegistry(g)
        PROVE  Fits(h)'
    <2>1. now' = now /\ missed' = missed /\ looped' = looped
      BY <1>6 DEF FindsRegistry, vars
    <2>2. CASE g # h
      BY <1>0, <1>6, <2>1, <2>2, FindEffect, FitsKept
    <2>3. CASE g = h
      <3>1. /\ process[h].at = "waiting" /\ process'[h].call = process[h].call
            /\ process'[h].todo = ExpertsOf[h] /\ process'[h].at \in {"greeting", "registering"}
        BY <1>0, <1>6, <2>3, FindEffect
      <3>2. process[h].call = NoCall /\ missed[h] = Never /\ h \notin looped
        BY <1>0, <3>1 DEF Fits
      <3> QED
        BY <2>1, <3>1, <3>2 DEF Fits
    <2> QED
      BY <2>2, <2>3
  <1>7. ASSUME NEW g \in Hosts, Stops(g)
        PROVE  Fits(h)'
    <2>1. now' = now /\ missed' = missed /\ looped' = looped
      BY <1>7 DEF Stops, vars
    <2>2. CASE g # h
      BY <1>0, <1>7, <2>1, <2>2, StopEffect, FitsKept
    <2>3. CASE g = h
      BY <1>0, <1>7, <2>1, <2>3, StopEffect DEF Fits
    <2> QED
      BY <2>2, <2>3
  <1>8. CASE OthersCallRegistry
    <2>1. UNCHANGED <<process, missed, looped>>
      BY <1>8 DEF OthersCallRegistry, history
    <2>2. now' = now
      BY <1>8, OthersKeepTime
    <2> QED
      BY <1>0, <2>1, <2>2, FitsKept
  <1>9. CASE RegistryRestarts
    BY <1>0, <1>9, FitsKept DEF RegistryRestarts, Restart
  <1>10. CASE TimePasses
    <2>1. now' = now + 1 /\ UNCHANGED <<process, missed, looped>> /\ Idling(h)
      BY <1>10 DEF TimePasses, Tick, history
    <2>2. process[h].call # NoCall => now < Deadline(process[h].call)
      BY <1>0, <2>1 DEF Idling, Calling, Fits
    <2>3. process[h].call # NoCall => process[h].call \in Call
      BY <1>0 DEF Process
    <2>4. process[h].call # NoCall =>
             process[h].call.sent <= now + 1 /\ now + 1 <= Deadline(process[h].call)
      BY <1>0, <2>2, <2>3, DeadlineTyped DEF Fits
    <2> QED
      BY <1>0, <2>1, <2>4 DEF Fits, Deadline
  <1>11. CASE UNCHANGED fleetVars
    BY <1>0, <1>11, FitsKept DEF fleetVars, vars, history
  <1>12. ASSUME NEW g \in Hosts, OthersBeat(g)
         PROVE  Fits(h)'
    BY <1>0, <1>12, OthersBeatEffect, FitsKept DEF OthersBeat, CallsInv
  <1> QED
    BY <1>1, <1>2, <1>3, <1>4, <1>5, <1>6, <1>7, <1>8, <1>9, <1>10, <1>11, <1>12
       DEF FleetNext, EndsCall

LEMMA FleetStrays ==
    TypeOK /\ TypeOK' /\ CallsInv /\ [FleetNext]_fleetVars => \A h \in Hosts : StrayFits(h)'
  <1> SUFFICES ASSUME TypeOK, TypeOK', CallsInv, [FleetNext]_fleetVars, NEW h \in Hosts
               PROVE  StrayFits(h)'
    OBVIOUS
  <1>0. /\ FleetTypeOK /\ Fits(h) /\ StrayFits(h) /\ now \in Nat
        /\ \A g \in Hosts : Fits(g) /\ StrayFits(g)
        /\ process[h] \in Process
    BY DEF CallsInv, TypeOK, Time, FleetTypeOK
  <1>1. ASSUME NEW g \in Hosts,
               \/ \E op \in {"register", "beat", "upload"}, ref \in Refs \cup {NoRef} : Calls(g, op, ref)
               \/ EndsCall(g) \/ Starts(g) \/ FindsRegistry(g)
        PROVE  StrayFits(h)'
    <2>1. UNCHANGED <<stray, stoppedAt, now>>
      BY <1>1 DEF Calls, EndsCall, Answered, Fails, UploadEnds, Starts, FindsRegistry, vars, history
    <2> QED
      BY <1>0, <2>1, StrayKept
  <1>2. ASSUME NEW g \in Hosts, CallArrives(g)
        PROVE  StrayFits(h)'
    <2>1. now' = now
      BY <1>0, <1>2, OwnCallsProper, ReachesKeepsTime DEF CallArrives
    <2> QED
      BY <1>0, <1>2, <2>1, StrayKept DEF CallArrives
  <1>3. ASSUME NEW g \in Hosts, StrayArrives(g)
        PROVE  StrayFits(h)'
    <2>1. Proper(g, stray[g])
      BY <1>0, <1>3 DEF StrayFits, StrayArrives
    <2>2. now' = now /\ stoppedAt' = stoppedAt /\ stray'[h] \in {stray[h], NoCall}
      BY <1>0, <1>3, <2>1, ReachesKeepsTime DEF StrayArrives, history, FleetTypeOK
    <2> QED
      BY <1>0, <2>2, StrayKept
  <1>4. ASSUME NEW g \in Hosts, Stops(g)
        PROVE  StrayFits(h)'
    <2>1. now' = now
      BY <1>4 DEF Stops, vars
    <2>2. CASE g # h
      <3>1. stray'[h] = stray[h] /\ stoppedAt'[h] = stoppedAt[h]
        BY <1>0, <1>4, <2>2 DEF Stops, FleetTypeOK
      <3> QED
        BY <1>0, <2>1, <3>1, StrayKept
    <2>3. CASE g = h
      <3>1. stoppedAt'[h] = now /\ stoppedAt[h] \in Nat \cup {Never}
        BY <1>0, <1>4, <2>3 DEF Stops, FleetTypeOK, Time
      <3>2. now # Never
        BY <1>0 DEF Never
      <3>3. CASE Calling(h) /\ process[h].call.op # "upload" /\ process[h].call.outcome = "sent"
        <4>1. stray'[h] = process[h].call /\ process[h].call \in Call /\ process[h].call # NoCall
          BY <1>0, <1>4, <2>3, <3>3 DEF Stops, FleetTypeOK, Calling, Process
        <4>2. Proper(h, process[h].call)
          <5>1. process[h].call.op \in {"register", "beat"}
            BY <3>3, <4>1 DEF Call
          <5>2. process[h].at \in {"registering", "greeting", "beating"}
            BY <1>0, <4>1, <5>1 DEF Fits, Process
          <5>3. process[h].call.op = "register" => process[h].call.ref \in ExpertsOf[h]
            BY <1>0, <4>1, <5>2 DEF Fits
          <5> QED
            BY <5>1, <5>3 DEF Proper
        <4>3. process[h].call.sent <= now /\ now <= Deadline(process[h].call)
          BY <1>0, <4>1 DEF Fits
        <4> QED
          BY <2>1, <3>1, <3>2, <4>1, <4>2, <4>3, <1>0 DEF StrayFits, Deadline, Proper
      <3>4. CASE ~(Calling(h) /\ process[h].call.op # "upload" /\ process[h].call.outcome = "sent")
        <4>1. stray' = stray
          BY <1>4, <2>3, <3>4 DEF Stops
        <4>2. stray[h] # NoCall => stray[h].sent <= now
          BY <1>0 DEF StrayFits
        <4> QED
          BY <1>0, <2>1, <3>1, <3>2, <4>1, <4>2 DEF StrayFits, Deadline, Proper
      <3> QED
        BY <3>3, <3>4
    <2> QED
      BY <2>2, <2>3
  <1>5. CASE OthersCallRegistry
    BY <1>0, <1>5, OthersKeepTime, StrayKept DEF OthersCallRegistry, history
  <1>6. CASE RegistryRestarts
    BY <1>0, <1>6, StrayKept DEF RegistryRestarts, Restart
  <1>7. CASE TimePasses
    <2>1. /\ now' = now + 1 /\ stoppedAt' = stoppedAt
          /\ stray'[h] = IF stray[h] # NoCall /\ now < Deadline(stray[h]) THEN stray[h] ELSE NoCall
      BY <1>7 DEF TimePasses, Tick, history
    <2>2. stoppedAt[h] \in Nat \cup {Never}
      BY <1>0 DEF FleetTypeOK, Time
    <2>3. stoppedAt[h] # Never => stoppedAt[h] <= now + 1
      BY <1>0, <2>2 DEF StrayFits
    <2>4. CASE stray'[h] = NoCall
      BY <2>1, <2>3, <2>4 DEF StrayFits
    <2>5. CASE stray'[h] # NoCall
      <3>1. stray'[h] = stray[h] /\ stray[h] \in Call /\ now < Deadline(stray[h])
        BY <1>0, <2>1, <2>5 DEF FleetTypeOK
      <3>2. stray[h].sent <= now + 1 /\ now + 1 <= Deadline(stray[h])
        BY <1>0, <2>5, <3>1, DeadlineTyped DEF StrayFits
      <3> QED
        BY <1>0, <2>1, <2>3, <2>5, <3>1, <3>2 DEF StrayFits, Deadline, Proper
    <2> QED
      BY <2>4, <2>5
  <1>8. CASE UNCHANGED fleetVars
    BY <1>0, <1>8, StrayKept DEF fleetVars, vars, history
  <1>9. ASSUME NEW g \in Hosts, OthersBeat(g)
        PROVE  StrayFits(h)'
    BY <1>0, <1>9, OthersBeatEffect, StrayKept DEF OthersBeat
  <1> QED
    BY <1>1, <1>2, <1>3, <1>4, <1>5, <1>6, <1>7, <1>8, <1>9 DEF FleetNext, EndsCall

LEMMA FleetStart == FleetInit => CallsInv
  <1> SUFFICES ASSUME FleetInit PROVE CallsInv
    OBVIOUS
  <1>1. /\ process = [h \in Hosts |-> Down] /\ stray = [h \in Hosts |-> NoCall]
        /\ missed = [h \in Hosts |-> Never] /\ stoppedAt = [h \in Hosts |-> Never]
        /\ looped = {} /\ forgotten = {} /\ spokenFor = [r \in Refs |-> Never]
    BY DEF FleetInit
  <1>2. /\ Down \in Process /\ Down.at = "down" /\ Down.call = NoCall /\ Down.todo = {}
    BY DEF Down, Process
  <1> HIDE DEF Down
  <1>3. FleetTypeOK
    BY <1>1, <1>2 DEF FleetTypeOK
  <1>4. ASSUME NEW h \in Hosts PROVE Fits(h) /\ StrayFits(h)
    <2>1. process[h] = Down /\ stray[h] = NoCall /\ missed[h] = Never /\ stoppedAt[h] = Never
      BY <1>1
    <2> QED
      BY <1>2, <2>1 DEF Fits, StrayFits
  <1> QED
    BY <1>3, <1>4 DEF CallsInv

\* The registry keeps its invariants under the fleet, and every call its process and
\* its deadline.
LEMMA FleetInvariant == FleetSpec => [](TypeOK /\ HeardInv /\ CallsInv)
  <1>1. FleetInit => TypeOK /\ HeardInv /\ CallsInv
    <2>1. Init => HeardInv
      BY DEF Init, HeardInv, Registered
    <2> QED
      BY <2>1, FleetStart, InitTyped DEF FleetInit
  <1>2. TypeOK /\ HeardInv /\ CallsInv /\ [FleetNext]_fleetVars => (TypeOK /\ HeardInv /\ CallsInv)'
    <2> SUFFICES ASSUME TypeOK, HeardInv, CallsInv, [FleetNext]_fleetVars
                 PROVE  TypeOK' /\ HeardInv' /\ CallsInv'
      OBVIOUS
    <2>1. TypeOK' /\ HeardInv'
      BY FleetIsRegistry, StepTyped, HeardStep
    <2>2. FleetTypeOK'
      BY <2>1, FleetTyped
    <2>3. \A h \in Hosts : Fits(h)' /\ StrayFits(h)'
      BY <2>1, FleetFits, FleetStrays
    <2> QED
      BY <2>1, <2>2, <2>3 DEF CallsInv
  <1> QED
    BY <1>1, <1>2, PTL DEF FleetSpec

\* The types of the fleet, for any hosts, clocks and deadlines.
THEOREM FleetTypes == FleetSpec => []FleetTypeOK
  BY FleetInvariant, PTL DEF CallsInv

-----------------------------------------------------------------------------
(* Who is up is listed. *)

\* What h's process has got the registry to list: all its experts once it has
\* registered them, those it is done with before.
Due(h) ==
    {r \in ExpertsOf[h] :
        \/ process[h].at \in {"greeting", "publishing", "beating"}
        \/ /\ process[h].at = "registering"
           /\ \/ r \notin process[h].todo
              \/ /\ process[h].call # NoCall /\ process[h].call.outcome = "accepted"
                 /\ r = process[h].call.ref}

UpInv ==
    EnforceOwnership => \A h \in Hosts \ forgotten : \A r \in Due(h) : Listed(h, r)

\* With ownership enforced only a restart of the registry takes a listing away, and
\* nothing but a heartbeat or a registration makes it look fresher than it is.
LEMMA ListedPersists ==
    ASSUME TypeOK, CallsInv, EnforceOwnership, [FleetNext]_fleetVars, ~RegistryRestarts,
           NEW h \in Hosts, NEW r \in ExpertsOf[h], Listed(h, r)
    PROVE  Listed(h, r)' /\ entries'[r].beat \in {entries[r].beat, now}
  <1>1. ASSUME NEW g \in Hosts, CallArrives(g)
        PROVE  Listed(h, r)' /\ entries'[r].beat \in {entries[r].beat, now}
    BY <1>1, OwnCallsProper, CallKeepsListed DEF CallArrives, CallsInv
  <1>2. ASSUME NEW g \in Hosts, StrayArrives(g)
        PROVE  Listed(h, r)' /\ entries'[r].beat \in {entries[r].beat, now}
    <2>1. Proper(g, stray[g])
      BY <1>2 DEF CallsInv, StrayFits, StrayArrives
    <2> QED
      BY <1>2, <2>1, CallKeepsListed DEF StrayArrives
  <1>3. CASE OthersCallRegistry
    BY <1>3, OthersKeepListed
  <1>4. ASSUME entries' = entries
        PROVE  Listed(h, r)' /\ entries'[r].beat \in {entries[r].beat, now}
    BY <1>4 DEF Listed, Registered
  <1>5. ASSUME NEW g \in Hosts,
               \/ \E op \in {"register", "beat", "upload"}, ref \in Refs \cup {NoRef} : Calls(g, op, ref)
               \/ EndsCall(g) \/ Starts(g) \/ FindsRegistry(g) \/ Stops(g)
        PROVE  entries' = entries
    BY <1>5 DEF Calls, EndsCall, Answered, Fails, UploadEnds, Starts, FindsRegistry, Stops, vars
  <1>6. CASE TimePasses
    BY <1>4, <1>6 DEF TimePasses, Tick, catalogue
  <1>7. CASE UNCHANGED fleetVars
    BY <1>4, <1>7 DEF fleetVars, vars
  <1>8. ASSUME NEW g \in Hosts, OthersBeat(g)
        PROVE  Listed(h, r)' /\ entries'[r].beat \in {entries[r].beat, now}
    BY <1>8, OthersBeatKeepsListed
  <1> QED
    BY <1>1, <1>2, <1>3, <1>4, <1>5, <1>6, <1>7, <1>8 DEF FleetNext, EndsCall

\* A listing comes to be due when the registry accepts it.
LEMMA DueListed ==
    ASSUME TypeOK, CallsInv, [FleetNext]_fleetVars, NEW h \in Hosts, NEW r \in Due(h)'
    PROVE  r \in Due(h) \/ Listed(h, r)'
  <1>0. FleetTypeOK /\ Fits(h) /\ process[h] \in Process /\ r \in ExpertsOf[h]
    BY DEF CallsInv, FleetTypeOK, Due
  <1>a. ASSUME process'[h] = process[h] PROVE r \in Due(h)
    BY <1>a DEF Due
  <1>1. ASSUME NEW g \in Hosts, NEW op \in {"register", "beat", "upload"},
               NEW ref \in Refs \cup {NoRef}, Calls(g, op, ref)
        PROVE  r \in Due(h)
    <2>1. CASE g = h
      <3>1. process'[h].call = [op |-> op, ref |-> ref, sent |-> now, outcome |-> "sent"]
        BY <1>0, <1>1, <2>1, CallsEffect
      <3>2. process'[h].call.outcome = "sent"
        BY <3>1
      <3> QED
        BY <1>0, <1>1, <2>1, <3>2, CallsEffect DEF Due
    <2> QED
      BY <1>0, <1>1, <1>a, <2>1, CallsEffect
  <1>2. ASSUME NEW g \in Hosts, CallArrives(g)
        PROVE  r \in Due(h) \/ Listed(h, r)'
    <2>1. CASE g = h
      <3>1. /\ process'[h].at = process[h].at /\ process'[h].todo = process[h].todo
            /\ process[h].call # NoCall
            /\ process'[h].call.ref = process[h].call.ref
            /\ process'[h].call.outcome = IF reply'.code = "OK" THEN "accepted" ELSE "refused"
        BY <1>0, <1>2, <2>1, ArrivalEffect
      <3>2. SUFFICES ASSUME r \notin Due(h) PROVE Listed(h, r)'
        OBVIOUS
      <3>3. /\ process[h].at = "registering" /\ reply'.code = "OK" /\ r = process[h].call.ref
        BY <1>0, <3>1, <3>2 DEF Due
      <3>4. process[h].call.op = "register" /\ Proper(h, process[h].call)
        BY <1>0, <1>2, <2>1, <3>1, <3>3, OwnCallsProper DEF CallArrives, Fits
      <3> QED
        BY <1>2, <2>1, <3>3, <3>4, RegistrationEffect DEF CallArrives
    <2> QED
      BY <1>0, <1>2, <1>a, <2>1, ArrivalEffect
  <1>3. ASSUME NEW g \in Hosts, EndsCall(g)
        PROVE  r \in Due(h)
    <2>1. Fits(g)
      BY DEF CallsInv
    <2>2. CASE g = h
      <3>1. /\ process[h].call # NoCall /\ process'[h].call = NoCall
            /\ \/ /\ process[h].at = "registering" /\ process[h].call.outcome = "accepted"
                  /\ process'[h].todo = process[h].todo \ {process[h].call.ref}
                  /\ process'[h].at = IF process'[h].todo = {} THEN "greeting" ELSE "registering"
               \/ process[h].at \in {"greeting", "publishing", "beating"}
        BY <1>0, <1>3, <2>2, EndEffect
      <3> QED
        BY <1>0, <3>1 DEF Due
    <2> QED
      BY <1>0, <1>3, <1>a, <2>1, <2>2, EndEffect
  <1>4. ASSUME NEW g \in Hosts, Starts(g)
        PROVE  r \in Due(h)
    BY <1>0, <1>4, <1>a, StartEffect DEF Due
  <1>5. ASSUME NEW g \in Hosts, FindsRegistry(g)
        PROVE  r \in Due(h)
    <2>1. CASE g = h
      <3>1. /\ process[h].at = "waiting" /\ process'[h].call = process[h].call
            /\ process'[h].todo = ExpertsOf[h] /\ process'[h].at \in {"greeting", "registering"}
            /\ process'[h].at = "greeting" => ExpertsOf[h] = {}
        BY <1>0, <1>5, <2>1, FindEffect
      <3>2. process[h].call = NoCall
        BY <1>0, <3>1 DEF Fits
      <3> QED
        BY <1>0, <3>1, <3>2 DEF Due
    <2> QED
      BY <1>0, <1>5, <1>a, <2>1, FindEffect
  <1>6. ASSUME NEW g \in Hosts, Stops(g)
        PROVE  r \in Due(h)
    BY <1>0, <1>6, <1>a, StopEffect DEF Due
  <1>7. ASSUME \/ \E g \in Hosts : StrayArrives(g) \/ OthersBeat(g)
               \/ OthersCallRegistry \/ RegistryRestarts \/ TimePasses \/ UNCHANGED fleetVars
        PROVE  r \in Due(h)
    BY <1>a, <1>7 DEF StrayArrives, OthersBeat, OthersCallRegistry, RegistryRestarts, TimePasses, fleetVars
  <1> QED
    BY <1>1, <1>2, <1>3, <1>4, <1>5, <1>6, <1>7 DEF FleetNext, EndsCall

\* Only a process that finds the registry, with nothing to its name yet, is not
\* concerned by an earlier restart any more.
LEMMA RememberedAgain ==
    ASSUME TypeOK, CallsInv, [FleetNext]_fleetVars, NEW h \in Hosts, h \notin forgotten'
    PROVE  ~RegistryRestarts /\ (h \in forgotten => FindsRegistry(h))
  <1>1. ~RegistryRestarts
    BY DEF RegistryRestarts
  <1>2. ASSUME h \in forgotten, ~FindsRegistry(h) PROVE FALSE
    <2>1. ASSUME NEW g \in Hosts, FindsRegistry(g) PROVE FALSE
      BY <1>2, <2>1 DEF FindsRegistry
    <2>2. ASSUME NEW g \in Hosts,
                 \/ \E op \in {"register", "beat", "upload"}, ref \in Refs \cup {NoRef} : Calls(g, op, ref)
                 \/ CallArrives(g) \/ StrayArrives(g) \/ Answered(g) \/ Fails(g) \/ UploadEnds(g)
                 \/ Starts(g) \/ Stops(g) \/ OthersBeat(g)
          PROVE  FALSE
      <3>1. forgotten' = forgotten
        BY <2>2 DEF Calls, CallArrives, StrayArrives, Answered, Fails, UploadEnds, Starts, Stops,
                    OthersBeat, history
      <3> QED
        BY <1>2, <3>1
    <2>3. ASSUME OthersCallRegistry \/ TimePasses \/ UNCHANGED fleetVars PROVE FALSE
      BY <1>2, <2>3 DEF OthersCallRegistry, TimePasses, fleetVars, history
    <2> QED
      BY <1>1, <2>1, <2>2, <2>3 DEF FleetNext
  <1> QED
    BY <1>1, <1>2

LEMMA FindsNothingDue ==
    ASSUME CallsInv, NEW h \in Hosts, FindsRegistry(h)
    PROVE  Due(h)' = {} /\ missed'[h] = Never
  <1>0. FleetTypeOK /\ Fits(h)
    BY DEF CallsInv
  <1>1. /\ process[h].at = "waiting" /\ process'[h].call = process[h].call
        /\ process'[h].todo = ExpertsOf[h] /\ process'[h].at \in {"greeting", "registering"}
        /\ process'[h].at = "greeting" => ExpertsOf[h] = {}
    BY <1>0, FindEffect
  <1>2. process[h].call = NoCall /\ missed[h] = Never
    BY <1>0, <1>1 DEF Fits
  <1> QED
    BY <1>1, <1>2 DEF Due, FindsRegistry

LEMMA UpStep == TypeOK /\ CallsInv /\ UpInv /\ [FleetNext]_fleetVars => UpInv'
  <1> SUFFICES ASSUME TypeOK, CallsInv, UpInv, [FleetNext]_fleetVars, EnforceOwnership,
                      NEW h \in Hosts, h \notin forgotten', NEW r \in Due(h)'
               PROVE  Listed(h, r)'
    BY DEF UpInv
  <1>1. ~RegistryRestarts /\ (h \in forgotten => FindsRegistry(h))
    BY RememberedAgain
  <1>2. CASE h \in forgotten
    BY <1>1, <1>2, FindsNothingDue
  <1>3. CASE h \notin forgotten /\ r \in Due(h)
    BY <1>1, <1>3, ListedPersists DEF UpInv, Due
  <1>4. CASE r \notin Due(h)
    BY <1>4, DueListed
  <1> QED
    BY <1>2, <1>3, <1>4

LEMMA UpInvariant == FleetSpec => []UpInv
  <1>1. FleetInit => UpInv
    <2>1. Down.at = "down"
      BY DEF Down
    <2> HIDE DEF Down
    <2> QED
      BY <2>1 DEF FleetInit, UpInv, Due
  <1> QED
    BY <1>1, UpStep, FleetInvariant, PTL DEF FleetSpec

\* A process that is through its start-up has all its experts listed, its own and
\* promoted, until the registry restarts.
THEOREM UpListed == FleetSpec => []UpMeansListed
  <1>1. UpInv => UpMeansListed
    BY DEF UpInv, UpMeansListed, Due
  <1> QED
    BY <1>1, UpInvariant, PTL

-----------------------------------------------------------------------------
(* How old the registry's last word of a running process may be. *)

Slack(m) == m * (Interval + RpcTimeout)

LEMMA PauseTyped ==
    ASSUME NEW h
    PROVE  /\ Pause(h) \in Nat
           /\ h \in looped => Pause(h) = Interval
           /\ h \notin looped => Pause(h) = PublishTimeout
  BY FleetConstants DEF Pause

LEMMA SlackGrows ==
    /\ Slack(0) = 0
    /\ \A m \in Nat : Slack(m) \in Nat /\ Slack(m + 1) = Slack(m) + Interval + RpcTimeout
  <1>1. PICK s \in Nat : s = Interval + RpcTimeout
    BY FleetConstants
  <1>2. 0 * s = 0 /\ \A m \in Nat : m * s \in Nat /\ (m + 1) * s = m * s + s
    BY <1>1
  <1> QED
    BY <1>1, <1>2, FleetConstants DEF Slack

\* The last word of a running process is no older than allowed at the time the call
\* under way was sent, or the next one will be.
Reference(h) ==
    IF process[h].call # NoCall THEN process[h].call.sent
    ELSE IF process[h].at = "beating" THEN process[h].wake ELSE now

Counts(h) ==
    process[h].call # NoCall /\ process[h].call.op = "beat" /\ process[h].call.outcome = "accepted"

Allowed(h) ==
    IF Counts(h) THEN 0
    ELSE IF process[h].at = "publishing" THEN RpcTimeout
    ELSE Pause(h) + RpcTimeout + Slack(missed[h])

Aged(h, b) ==
    missed[h] # Never =>
        /\ Reference(h) - b <= Allowed(h)
        /\ process[h].at = "beating" /\ process[h].call = NoCall => now <= process[h].wake

AgeInv ==
    EnforceOwnership =>
        \A h \in Hosts \ forgotten : \A r \in Due(h) : Aged(h, entries[r].beat)

LEMMA AgeTyped ==
    ASSUME NEW h \in Hosts, FleetTypeOK, now \in Nat, missed[h] # Never
    PROVE  Reference(h) \in Nat /\ Allowed(h) \in Nat
  <1>1. /\ process[h] \in Process /\ missed[h] \in Nat /\ process[h].wake \in Nat
        /\ process[h].call # NoCall => process[h].call.sent \in Nat
    BY DEF FleetTypeOK, Process, Call, Time
  <1>2. Slack(missed[h]) \in Nat
    BY <1>1, SlackGrows
  <1>3. Pause(h) + RpcTimeout + Slack(missed[h]) \in Nat
    BY <1>2, PauseTyped, FleetConstants
  <1> QED
    BY <1>1, <1>3, FleetConstants DEF Reference, Allowed

LEMMA AgedKept ==
    ASSUME NEW h \in Hosts, FleetTypeOK, now \in Nat, NEW b \in Nat, NEW c \in Nat, b <= c,
           Aged(h, b), process'[h] = process[h], missed'[h] = missed[h],
           h \in looped' <=> h \in looped, now' = now
    PROVE  Aged(h, c)'
  <1>1. Reference(h)' = Reference(h) /\ Allowed(h)' = Allowed(h)
    BY DEF Reference, Allowed, Counts, Pause, Slack
  <1>2. missed[h] # Never => Reference(h) - c <= Allowed(h)
    BY AgeTyped DEF Aged
  <1> QED
    BY <1>1, <1>2 DEF Aged

\* What a listing's age has to satisfy after each step of its own process.
LEMMA AgedStep ==
    ASSUME TypeOK, TypeOK', CallsInv, CallsInv', [FleetNext]_fleetVars, NEW h \in Hosts,
           process[h].at \in {"greeting", "publishing", "beating"}, missed'[h] # Never,
           NEW b \in Nat, NEW c \in Nat, b <= now, b <= c,
           process'[h].at \in {"greeting", "publishing", "beating"},
           CallArrives(h) /\ Counts(h)' => c = now,
           Aged(h, b)
    PROVE  Aged(h, c)'
  <1>0. /\ FleetTypeOK /\ Fits(h) /\ FleetTypeOK' /\ Fits(h)' /\ now \in Nat /\ now' \in Nat
        /\ process[h] \in Process /\ missed[h] \in Nat \cup {Never} /\ missed'[h] \in Nat
        /\ Reference(h)' \in Nat /\ Allowed(h)' \in Nat
        /\ missed[h] # Never => Reference(h) \in Nat /\ Allowed(h) \in Nat
    <2>1. /\ FleetTypeOK /\ Fits(h) /\ FleetTypeOK' /\ Fits(h)' /\ now \in Nat /\ now' \in Nat
      BY DEF CallsInv, TypeOK, Time
    <2>2. process[h] \in Process /\ missed[h] \in Nat \cup {Never} /\ missed'[h] \in Nat
      BY <2>1 DEF FleetTypeOK
    <2>3. missed[h] # Never => Reference(h) \in Nat /\ Allowed(h) \in Nat
      BY <2>1, AgeTyped
    <2>4. (missed[h] # Never => Reference(h) \in Nat /\ Allowed(h) \in Nat)'
      <3>1. \A m \in Nat : Slack(m) \in Nat
        BY SlackGrows
      <3>2. /\ process'[h] \in Process /\ process'[h].wake \in Nat
            /\ process'[h].call # NoCall => process'[h].call.sent \in Nat
        BY <2>1 DEF FleetTypeOK, Process, Call, Time
      <3>3. Pause(h)' \in Nat
        BY FleetConstants DEF Pause
      <3>4. (Pause(h)' + RpcTimeout) + Slack(missed'[h]) \in Nat
        BY <2>2, <3>1, <3>3, FleetConstants
      <3> QED
        BY <2>1, <3>2, <3>4, FleetConstants DEF Reference, Allowed, Slack
    <2> QED
      BY <2>1, <2>2, <2>3, <2>4
  <1>a. ASSUME process'[h] = process[h], missed'[h] = missed[h], now' = now,
               h \in looped' <=> h \in looped
        PROVE  Aged(h, c)'
    BY <1>0, <1>a, AgedKept
  <1>1. ASSUME NEW g \in Hosts, NEW op \in {"register", "beat", "upload"},
               NEW ref \in Refs \cup {NoRef}, Calls(g, op, ref)
        PROVE  Aged(h, c)'
    <2>1. UNCHANGED <<missed, looped, now>>
      BY <1>1 DEF Calls, vars, history
    <2>2. CASE g = h
      <3>1. /\ process'[h].at = process[h].at /\ process'[h].wake = process[h].wake
            /\ process[h].call = NoCall /\ process'[h].call # NoCall
            /\ process'[h].call = [op |-> op, ref |-> ref, sent |-> now, outcome |-> "sent"]
        BY <1>0, <1>1, <2>2, CallsEffect
      <3>2. process'[h].call.sent = now /\ process'[h].call.outcome = "sent"
        BY <3>1
      <3>3. NextCall(h, op, ref)
        BY <1>1, <2>2 DEF Calls
      <3>4. process[h].at = "beating" => now = process[h].wake
        BY <1>0, <2>1, <3>1, <3>3 DEF NextCall, Aged, Process
      <3>5. process[h].at # "greeting"
        BY <1>0, <2>1, <3>1 DEF Fits
      <3>6. Reference(h)' = Reference(h)
        BY <3>1, <3>2, <3>4, <2>1 DEF Reference
      <3>7. ~Counts(h) /\ ~Counts(h)'
        BY <3>1, <3>2 DEF Counts
      <3>8. Allowed(h)' = Allowed(h)
        BY <2>1, <3>1, <3>7 DEF Allowed, Pause, Slack
      <3> QED
        BY <1>0, <2>1, <3>1, <3>6, <3>8 DEF Aged
    <2> QED
      BY <1>0, <1>1, <1>a, <2>1, <2>2, CallsEffect
  <1>2. ASSUME NEW g \in Hosts, CallArrives(g)
        PROVE  Aged(h, c)'
    <2>0. now' = now
      BY <1>2, OwnCallsProper, ReachesKeepsTime DEF CallArrives, CallsInv
    <2>1. CASE g = h
      <3>1. /\ process'[h].at = process[h].at
            /\ process[h].call # NoCall /\ process'[h].call # NoCall
            /\ process[h].call.outcome = "sent"
            /\ process'[h].call.op = process[h].call.op
            /\ process'[h].call.sent = process[h].call.sent
        BY <1>0, <1>2, <2>1, ArrivalEffect
      <3>2. Reference(h)' = process[h].call.sent /\ process[h].call.sent <= now
        BY <1>0, <3>1 DEF Reference, Fits
      <3>3. CASE Counts(h)'
        BY <1>0, <1>2, <2>1, <3>1, <3>2, <3>3 DEF Aged, Allowed
      <3>4. CASE ~Counts(h)'
        <4>1. missed'[h] = missed[h]
          BY <1>0, <1>2, <2>1, <3>1, <3>4 DEF CallArrives, FleetTypeOK, Counts
        <4>2. ~Counts(h) /\ Reference(h) = process[h].call.sent
          BY <3>1 DEF Counts, Reference
        <4>l. looped' = looped
          <5>1. process[h].at = "beating" => process'[h].call.op = "beat"
            BY <1>0, <3>1 DEF Fits
          <5> QED
            BY <1>2, <2>1, <3>1, <3>4, <5>1 DEF CallArrives, Counts
        <4>3. Allowed(h)' = Allowed(h)
          BY <3>1, <3>4, <4>1, <4>2, <4>l DEF Allowed, Pause, Slack
        <4> QED
          BY <1>0, <3>1, <3>2, <4>1, <4>2, <4>3 DEF Aged
      <3> QED
        BY <3>3, <3>4
    <2>2. CASE g # h
      <3>1. missed'[h] = missed[h] /\ (h \in looped' <=> h \in looped)
        BY <1>0, <1>2, <2>2 DEF CallArrives, FleetTypeOK
      <3> QED
        BY <1>0, <1>2, <1>a, <2>0, <2>2, <3>1, ArrivalEffect
    <2> QED
      BY <2>1, <2>2
  <1>3. ASSUME NEW g \in Hosts, EndsCall(g)
        PROVE  Aged(h, c)'
    <2>0. now' = now /\ looped' = looped /\ Fits(g)
      BY <1>3 DEF EndsCall, Answered, Fails, UploadEnds, vars, history, CallsInv
    <2>1. CASE g = h
      <3>1. /\ process[h].call # NoCall /\ process'[h].call = NoCall
            /\ \/ process[h].at = "greeting" /\ process'[h].at = "publishing"
               \/ /\ process[h].at = "publishing" /\ process'[h].at = "beating"
                  /\ process'[h].wake = now
               \/ /\ process[h].at = "beating" /\ process'[h].at = "beating"
                  /\ process'[h].wake = now + Interval
            /\ missed' = IF process[h].at = "publishing" THEN missed ELSE Counted(h)
        BY <1>0, <1>3, <2>0, <2>1, EndEffect
      <3>2. ~Counts(h)' /\ process[h].call \in Call
        BY <1>0, <3>1 DEF Counts, Process
      <3>3. missed[h] # Never
        BY <1>0, <3>1, CountedTyped
      <3>4. /\ Reference(h) = process[h].call.sent /\ process[h].call.sent \in Nat
            /\ Reference(h) - b <= Allowed(h)
            /\ now <= Deadline(process[h].call)
        BY <1>0, <3>1, <3>2, <3>3, DeadlineTyped DEF Reference, Aged, Fits
      <3>5. CASE process[h].at = "greeting"
        <4>1. Counts(h) /\ process[h].call.op # "upload"
          BY <1>0, <3>1, <3>3, <3>5 DEF Fits, Counts
        <4>2. Allowed(h) = 0 /\ now <= process[h].call.sent + RpcTimeout
          BY <3>2, <3>4, <4>1, DeadlineTyped DEF Allowed
        <4>3. Reference(h)' = now /\ Allowed(h)' = RpcTimeout
          BY <2>0, <3>1, <3>2, <3>5 DEF Reference, Allowed
        <4>4. now - c <= RpcTimeout
          BY <1>0, <3>4, <4>2, FleetConstants
        <4> QED
          BY <3>1, <3>5, <4>3, <4>4 DEF Aged
      <3>6. CASE process[h].at = "publishing"
        <4>1. process[h].call.op = "upload" /\ ~Counts(h)
          BY <1>0, <3>1, <3>6 DEF Fits, Counts
        <4>2. Allowed(h) = RpcTimeout /\ now <= process[h].call.sent + PublishTimeout
          BY <3>2, <3>4, <3>6, <4>1, DeadlineTyped DEF Allowed
        <4>3. /\ Reference(h)' = now /\ missed'[h] \in Nat
              /\ Allowed(h)' = Pause(h) + RpcTimeout + Slack(missed'[h])
          BY <1>0, <2>0, <3>1, <3>2, <3>6 DEF Reference, Allowed, Pause, Slack
        <4>p. Pause(h) = PublishTimeout
          BY <1>0, <3>6, PauseTyped DEF Fits
        <4>4. now - c <= Pause(h) + RpcTimeout + Slack(missed'[h])
          BY <1>0, <3>4, <4>2, <4>3, <4>p, SlackGrows, FleetConstants
        <4> QED
          BY <1>0, <2>0, <3>1, <3>6, <4>3, <4>4 DEF Aged
      <3>7. CASE process[h].at = "beating"
        <4>1. process[h].call.op = "beat" /\ now <= process[h].call.sent + RpcTimeout
          BY <1>0, <3>1, <3>2, <3>4, <3>7, DeadlineTyped DEF Fits
        <4>2. /\ Reference(h)' = now + Interval /\ now' <= process'[h].wake
              /\ Allowed(h)' = Pause(h) + RpcTimeout + Slack(missed'[h])
          BY <1>0, <2>0, <3>1, <3>2, <3>7, FleetConstants DEF Reference, Allowed, Pause, Slack
        <4>3. CASE Counts(h)
          <5>1. Allowed(h) = 0
            BY <4>3 DEF Allowed
          <5>2. Slack(missed'[h]) \in Nat
            BY <1>0, SlackGrows
          <5>p. Pause(h) = Interval
            BY <1>0, <3>1, <3>7, <4>3, PauseTyped DEF Fits, Counts
          <5>3. now + Interval - c <= Pause(h) + RpcTimeout + Slack(missed'[h])
            BY <1>0, <3>4, <4>1, <5>1, <5>2, <5>p, FleetConstants
          <5> QED
            BY <1>0, <2>0, <4>2, <5>3, FleetConstants DEF Aged
        <4>4. CASE ~Counts(h)
          <5>1. Allowed(h) = Pause(h) + RpcTimeout + Slack(missed[h])
            BY <3>7, <4>4 DEF Allowed
          <5>2. missed'[h] = missed[h] + 1
            <6>1. process[h].call.outcome # "accepted"
              BY <3>1, <4>1, <4>4 DEF Counts
            <6> QED
              BY <1>0, <3>1, <3>3, <3>7, <4>1, <6>1, CountedTyped
          <5>3. Slack(missed[h]) \in Nat /\ Slack(missed'[h]) = Slack(missed[h]) + Interval + RpcTimeout
            BY <1>0, <3>3, <5>2, SlackGrows
          <5>4. now + Interval - c <= Pause(h) + RpcTimeout + Slack(missed'[h])
            BY <1>0, <3>4, <4>1, <5>1, <5>3, PauseTyped, FleetConstants
          <5> QED
            BY <1>0, <2>0, <4>2, <5>4, FleetConstants DEF Aged
        <4> QED
          BY <4>3, <4>4
      <3> QED
        BY <3>1, <3>5, <3>6, <3>7
    <2> QED
      BY <1>0, <1>3, <1>a, <2>0, <2>1, EndEffect
  <1>4. ASSUME NEW g \in Hosts, Starts(g) \/ FindsRegistry(g) \/ Stops(g)
        PROVE  Aged(h, c)'
    <2>1. g # h
      BY <1>0, <1>4, StartEffect, FindEffect, StopEffect
    <2>2. /\ process'[h] = process[h] /\ missed'[h] = missed[h] /\ now' = now
          /\ h \in looped' <=> h \in looped
      <3>1. now' = now /\ (h \in looped' <=> h \in looped)
        BY <1>4, <2>1 DEF Starts, FindsRegistry, Stops, vars
      <3>2. missed'[h] = missed[h]
        BY <1>0, <1>4, <2>1, StartEffect DEF FindsRegistry, Stops
      <3> QED
        BY <1>0, <1>4, <2>1, <3>1, <3>2, StartEffect, FindEffect, StopEffect
    <2> QED
      BY <2>2, <1>a
  <1>5. ASSUME NEW g \in Hosts, StrayArrives(g)
        PROVE  Aged(h, c)'
    <2>1. Proper(g, stray[g])
      BY <1>5 DEF StrayFits, StrayArrives, CallsInv
    <2> QED
      BY <1>5, <1>a, <2>1, ReachesKeepsTime DEF StrayArrives, history
  <1>6. CASE OthersCallRegistry
    BY <1>6, <1>a, OthersKeepTime DEF OthersCallRegistry, history
  <1>7. CASE RegistryRestarts
    BY <1>7, <1>a DEF RegistryRestarts, Restart
  <1>8. CASE TimePasses
    <2>1. now' = now + 1 /\ UNCHANGED <<process, missed, looped>> /\ Idling(h)
      BY <1>8 DEF TimePasses, Tick, history
    <2>2. process[h].call = NoCall => process[h].at = "beating" /\ now < process[h].wake
      BY <2>1 DEF Idling, Calling
    <2>3. Reference(h)' = Reference(h) /\ Allowed(h)' = Allowed(h)
      BY <2>1, <2>2 DEF Reference, Allowed, Counts, Pause, Slack
    <2>4. process[h].wake \in Nat
      BY <1>0 DEF Process
    <2> QED
      BY <1>0, <2>1, <2>2, <2>3, <2>4 DEF Aged
  <1>9. CASE UNCHANGED fleetVars
    BY <1>9, <1>a DEF fleetVars, vars, history
  <1>10. ASSUME NEW g \in Hosts, OthersBeat(g)
         PROVE  Aged(h, c)'
    BY <1>10, <1>a, OthersBeatEffect DEF OthersBeat, CallsInv
  <1> QED
    BY <1>1, <1>2, <1>3, <1>4, <1>5, <1>6, <1>7, <1>8, <1>9, <1>10 DEF FleetNext, EndsCall

LEMMA ListedTyped ==
    ASSUME TypeOK, HeardInv, NEW h, NEW r, Listed(h, r)
    PROVE  entries[r].beat \in Nat /\ entries[r].beat <= now /\ now \in Nat
  BY DEF Listed, HeardInv, TypeOK, Registered, Entry, Time

LEMMA AgeStep ==
    TypeOK /\ HeardInv /\ CallsInv /\ CallsInv' /\ TypeOK' /\ HeardInv' /\ UpInv /\ AgeInv
    /\ [FleetNext]_fleetVars => AgeInv'
  <1> SUFFICES ASSUME TypeOK, HeardInv, CallsInv, TypeOK', HeardInv', CallsInv', UpInv, AgeInv,
                      [FleetNext]_fleetVars, EnforceOwnership,
                      NEW h \in Hosts, h \notin forgotten', NEW r \in Due(h)', missed'[h] # Never
               PROVE  Aged(h, entries[r].beat)'
    BY DEF AgeInv, Aged
  <1>0. /\ FleetTypeOK /\ Fits(h) /\ FleetTypeOK' /\ Fits(h)' /\ r \in ExpertsOf[h]
        /\ process[h] \in Process /\ process'[h] \in Process
    BY DEF CallsInv, Due, FleetTypeOK
  <1>1. h \notin forgotten /\ ~RegistryRestarts
    BY RememberedAgain, FindsNothingDue
  <1>2. process'[h].at \in {"greeting", "publishing", "beating"}
    BY <1>0 DEF Due, Fits
  <1>3. process[h].at \in {"greeting", "publishing", "beating"}
    <2>1. ASSUME NEW op \in {"register", "beat", "upload"}, NEW ref \in Refs \cup {NoRef},
                 Calls(h, op, ref)
          PROVE  process'[h].at = process[h].at
      BY <1>0, <2>1, CallsEffect
    <2>2. CallArrives(h) => process'[h].at = process[h].at
      BY <1>0, ArrivalEffect
    <2>3. ASSUME EndsCall(h)
          PROVE  process[h].at \in {"greeting", "publishing", "beating"}
      <3>1. \/ process[h].at = "registering"
            \/ process[h].at \in {"greeting", "publishing", "beating"}
        BY <1>0, <2>3, EndEffect
      <3>2. CASE process[h].at = "registering"
        <4>1. process'[h].at = "greeting" /\ process'[h].call = NoCall
          BY <1>0, <1>2, <2>3, <3>2, EndEffect
        <4> QED
          BY <1>0, <4>1 DEF Fits
      <3> QED
        BY <3>1, <3>2
    <2>4. ~Starts(h) /\ ~FindsRegistry(h) /\ ~Stops(h)
      BY <1>0, <1>2, StartEffect, FindsNothingDue, StopEffect
    <2>5. ASSUME process'[h] = process[h]
          PROVE  process[h].at \in {"greeting", "publishing", "beating"}
      BY <1>2, <2>5
    <2>6. ASSUME NEW g \in Hosts, g # h,
                 \/ \E op \in {"register", "beat", "upload"}, ref \in Refs \cup {NoRef} : Calls(g, op, ref)
                 \/ CallArrives(g) \/ EndsCall(g) \/ Starts(g) \/ FindsRegistry(g) \/ Stops(g)
          PROVE  process'[h] = process[h]
      <3>1. Fits(g)
        BY DEF CallsInv
      <3> QED
        BY <1>0, <2>6, <3>1, CallsEffect, ArrivalEffect, EndEffect, StartEffect, FindEffect, StopEffect
    <2>7. ASSUME \/ \E g \in Hosts : StrayArrives(g) \/ OthersBeat(g)
                 \/ OthersCallRegistry \/ RegistryRestarts \/ TimePasses \/ UNCHANGED fleetVars
          PROVE  process'[h] = process[h]
      BY <2>7 DEF StrayArrives, OthersBeat, OthersCallRegistry, RegistryRestarts, TimePasses,
                  fleetVars
    <2> QED
      BY <1>2, <2>1, <2>2, <2>3, <2>4, <2>5, <2>6, <2>7 DEF FleetNext, EndsCall
  <1>4. r \in Due(h)
    BY <1>0, <1>3 DEF Due
  <1>5. Listed(h, r) /\ Aged(h, entries[r].beat)
    BY <1>1, <1>4 DEF UpInv, AgeInv
  <1>6. Listed(h, r)' /\ entries'[r].beat \in {entries[r].beat, now}
    BY <1>0, <1>1, <1>5, ListedPersists
  <1>7. CallArrives(h) /\ Counts(h)' => entries'[r].beat = now
    <2>1. SUFFICES ASSUME CallArrives(h), Counts(h)' PROVE entries'[r].beat = now
      OBVIOUS
    <2>2. process[h].call.op = "beat" /\ reply'.code = "OK"
      BY <1>0, <2>1, ArrivalEffect DEF Counts
    <2> QED
      BY <1>0, <1>5, <2>1, <2>2, BeatCounts DEF CallArrives
  <1>8. PICK b \in Nat, c \in Nat : b = entries[r].beat /\ c = entries'[r].beat
    BY <1>5, <1>6, ListedTyped
  <1>9. b <= now /\ b <= c /\ (CallArrives(h) /\ Counts(h)' => c = now) /\ Aged(h, b)
    BY <1>5, <1>6, <1>7, <1>8, ListedTyped
  <1>10. Aged(h, c)'
    BY <1>2, <1>3, <1>9, AgedStep
  <1> QED
    BY <1>8, <1>10 DEF Aged

LEMMA AgeInvariant == FleetSpec => []AgeInv
  <1>1. FleetInit => AgeInv
    BY DEF FleetInit, AgeInv, Aged
  <1> QED
    BY <1>1, AgeStep, FleetInvariant, UpInvariant, PTL DEF FleetSpec

LEMMA AgeBound ==
    ASSUME TypeOK, HeardInv, CallsInv, UpInv, AgeInv
    PROVE  BeatAgeBound
  <1> SUFFICES ASSUME EnforceOwnership, NEW h \in Hosts \ forgotten,
                      process[h].at = "beating", missed[h] # Never, NEW r \in ExpertsOf[h]
               PROVE  now - entries[r].beat <=
                          Pause(h) + 2 * RpcTimeout + missed[h] * (Interval + RpcTimeout)
    BY DEF BeatAgeBound
  <1>1. r \in Due(h) /\ FleetTypeOK /\ Fits(h)
    BY DEF Due, CallsInv
  <1>2. Listed(h, r) /\ Aged(h, entries[r].beat)
    BY <1>1 DEF UpInv, AgeInv
  <1>3. /\ entries[r].beat \in Nat /\ now \in Nat /\ missed[h] \in Nat
        /\ Reference(h) \in Nat /\ process[h] \in Process
    BY <1>1, <1>2, ListedTyped, AgeTyped DEF FleetTypeOK
  <1> DEFINE slack == Slack(missed[h])
  <1>4. slack \in Nat
    BY <1>3, SlackGrows
  <1>5. Reference(h) - entries[r].beat <= Pause(h) + RpcTimeout + slack
    BY <1>2, <1>3, <1>4, PauseTyped, FleetConstants DEF Aged, Allowed
  <1> HIDE DEF slack
  <1>6. now <= Reference(h) + RpcTimeout
    <2>1. CASE process[h].call = NoCall
      BY <1>2, <1>3, <2>1, FleetConstants DEF Aged, Reference, Process
    <2>2. CASE process[h].call # NoCall
      <3>1. process[h].call \in Call /\ process[h].call.op = "beat"
        BY <1>1, <1>3, <2>2 DEF Process, Fits
      <3> QED
        BY <1>1, <2>2, <3>1, DeadlineTyped DEF Fits, Reference
    <2> QED
      BY <2>1, <2>2
  <1>7. now - entries[r].beat <= Pause(h) + 2 * RpcTimeout + slack
    BY <1>3, <1>4, <1>5, <1>6, PauseTyped, FleetConstants
  <1> QED
    BY <1>7 DEF slack, Slack

\* Once a heartbeat of the loop has counted, the registry's last word of a running
\* process is at most a pause and two call deadlines old, and until then at most the
\* upload's deadline and two call deadlines; in both cases a pause and a call deadline
\* more for each heartbeat missed since.
THEOREM BeatsBounded == FleetSpec => []BeatAgeBound
  BY AgeBound, AgeInvariant, UpInvariant, FleetInvariant, PTL

-----------------------------------------------------------------------------
(* How long what a stopped process registered stays fresh. *)

\* What a host owns names the host; when no process of it runs, its last word came
\* before the last process stopped, with a call that one had left under way, or from
\* somebody else.
Excused(h, r) ==
    \/ entries[r].beat <= stoppedAt[h] + RpcTimeout
    \/ spokenFor[r] # Never /\ entries[r].beat <= spokenFor[r]

LastWords(h, r) ==
    Owned(h, r) =>
        /\ entries[r].node = h
        /\ process[h].at = "down" => stoppedAt[h] # Never /\ Excused(h, r)

ZombieInv == \A h \in Hosts : \A r \in ExpertsOf[h] : LastWords(h, r)

LEMMA OwnedTyped ==
    ASSUME TypeOK, HeardInv, NEW h \in Hosts, NEW r, Owned(h, r)
    PROVE  entries[r].beat \in Nat /\ entries[r].beat <= now /\ now \in Nat
  BY DEF Owned, HeardInv, TypeOK, Registered, Entry, Time

\* A process that stays up, or down, or starts, keeps its last words.
LEMMA LastWordsKept ==
    ASSUME NEW h \in Hosts, NEW r, LastWords(h, r), entries' = entries,
           process'[h].at = "down" => process[h].at = "down", stoppedAt'[h] = stoppedAt[h],
           spokenFor'[r] = spokenFor[r]
    PROVE  LastWords(h, r)'
  BY DEF LastWords, Excused, Owned, Registered

LEMMA ZombieStep ==
    TypeOK /\ HeardInv /\ CallsInv /\ ZombieInv /\ [FleetNext]_fleetVars => ZombieInv'
  <1> SUFFICES ASSUME TypeOK, HeardInv, CallsInv, ZombieInv, [FleetNext]_fleetVars,
                      NEW h \in Hosts, NEW r \in ExpertsOf[h]
               PROVE  LastWords(h, r)'
    BY DEF ZombieInv
  <1>0. /\ FleetTypeOK /\ Fits(h) /\ StrayFits(h) /\ LastWords(h, r) /\ now \in Nat
        /\ \A g \in Hosts : Fits(g) /\ StrayFits(g)
        /\ process[h] \in Process /\ stoppedAt[h] \in Nat \cup {Never}
        /\ Owned(h, r) => entries[r].node = h
    BY DEF CallsInv, ZombieInv, LastWords, TypeOK, Time, FleetTypeOK
  <1>1. ASSUME NEW g \in Hosts,
               \/ \E op \in {"register", "beat", "upload"}, ref \in Refs \cup {NoRef} : Calls(g, op, ref)
               \/ EndsCall(g) \/ Starts(g) \/ FindsRegistry(g)
        PROVE  LastWords(h, r)'
    <2>1. entries' = entries /\ stoppedAt' = stoppedAt /\ spokenFor' = spokenFor
      BY <1>1 DEF Calls, EndsCall, Answered, Fails, UploadEnds, Starts, FindsRegistry, vars, history
    <2>2. process'[h].at = "down" => process[h].at = "down"
      BY <1>0, <1>1, CallsEffect, EndEffect, StartEffect, FindEffect
    <2> QED
      BY <1>0, <2>1, <2>2, LastWordsKept
  <1>2. ASSUME NEW g \in Hosts, CallArrives(g)
        PROVE  LastWords(h, r)'
    <2>1. Proper(g, process[g].call) /\ ReachesRegistry(g, process[g].call)
      BY <1>0, <1>2, OwnCallsProper DEF CallArrives
    <2>2. process'[h].at = process[h].at /\ UNCHANGED <<stoppedAt, spokenFor>>
      BY <1>0, <1>2, ArrivalEffect DEF CallArrives
    <2>3. process[g].at # "down"
      BY <1>0, <2>1, <1>2, OwnCallsProper DEF CallArrives
    <2>4. SUFFICES ASSUME Owned(h, r)'
                   PROVE  /\ entries'[r].node = h
                          /\ process'[h].at = "down" => stoppedAt'[h] # Never /\ Excused(h, r)'
      BY DEF LastWords
    <2>5. /\ entries'[r].node = h
          /\ g = h \/ (Owned(h, r) /\ entries'[r].beat = entries[r].beat)
      BY <1>0, <2>1, <2>4, CallOwned
    <2> QED
      BY <1>0, <2>2, <2>3, <2>5 DEF LastWords, Excused
  <1>3. ASSUME NEW g \in Hosts, StrayArrives(g)
        PROVE  LastWords(h, r)'
    <2>1. Proper(g, stray[g]) /\ ReachesRegistry(g, stray[g])
      BY <1>0, <1>3 DEF StrayFits, StrayArrives
    <2>2. UNCHANGED <<process, stoppedAt, spokenFor>>
      BY <1>3 DEF StrayArrives, history
    <2>3. SUFFICES ASSUME Owned(h, r)'
                   PROVE  /\ entries'[r].node = h
                          /\ process[h].at = "down" => stoppedAt[h] # Never /\ Excused(h, r)'
      BY <2>2 DEF LastWords
    <2>4. /\ entries'[r].node = h
          /\ \/ g = h /\ entries'[r].beat = now
             \/ Owned(h, r) /\ entries'[r].beat = entries[r].beat
      BY <1>0, <2>1, <2>3, CallOwned
    <2>5. CASE Owned(h, r) /\ entries'[r].beat = entries[r].beat
      BY <1>0, <2>2, <2>4, <2>5 DEF LastWords, Excused
    <2>6. CASE g = h /\ entries'[r].beat = now
      <3>1. stray[h] # NoCall /\ stray[h] \in Call /\ stray[h].op # "upload"
        BY <1>0, <1>3, <2>1, <2>6 DEF StrayArrives, FleetTypeOK, Proper
      <3>2. /\ stoppedAt[h] \in Nat /\ stoppedAt[h] # Never
            /\ stray[h].sent <= stoppedAt[h] /\ now <= stray[h].sent + RpcTimeout
        BY <1>0, <3>1, DeadlineTyped DEF StrayFits
      <3>3. now <= stoppedAt[h] + RpcTimeout
        BY <1>0, <3>1, <3>2, DeadlineTyped, FleetConstants
      <3> QED
        BY <2>2, <2>4, <2>6, <3>2, <3>3 DEF Excused
    <2> QED
      BY <2>4, <2>5, <2>6
  <1>4. ASSUME NEW g \in Hosts, Stops(g)
        PROVE  LastWords(h, r)'
    <2>1. entries' = entries /\ spokenFor' = spokenFor
      BY <1>4 DEF Stops, vars
    <2>2. CASE g = h
      <3>1. stoppedAt'[h] = now /\ now # Never
        BY <1>0, <1>4, <2>2 DEF Stops, FleetTypeOK, Never
      <3>2. Owned(h, r) => entries[r].beat <= now + RpcTimeout
        BY OwnedTyped, FleetConstants
      <3> QED
        BY <1>0, <2>1, <3>1, <3>2 DEF LastWords, Excused, Owned, Registered
    <2>3. CASE g # h
      <3>1. stoppedAt'[h] = stoppedAt[h] /\ process'[h] = process[h]
        BY <1>0, <1>4, <2>3, StopEffect DEF Stops, FleetTypeOK
      <3> QED
        BY <1>0, <2>1, <3>1, LastWordsKept
    <2> QED
      BY <2>2, <2>3
  <1>5. CASE OthersCallRegistry
    <2>1. UNCHANGED <<process, stoppedAt, spokenFor>>
      BY <1>5 DEF OthersCallRegistry, history
    <2>2. Owned(h, r)' => /\ Owned(h, r) /\ entries'[r].node = h
                          /\ entries'[r].beat = entries[r].beat
      BY <1>0, <1>5, OthersOwned
    <2> QED
      BY <1>0, <2>1, <2>2 DEF LastWords, Excused
  <1>6. CASE RegistryRestarts
    BY <1>6 DEF RegistryRestarts, Restart, LastWords, Owned, Registered
  <1>7. CASE TimePasses
    BY <1>0, <1>7, LastWordsKept DEF TimePasses, Tick, catalogue, history
  <1>8. CASE UNCHANGED fleetVars
    BY <1>0, <1>8, LastWordsKept DEF fleetVars, vars, history
  <1>9. ASSUME NEW g \in Hosts, OthersBeat(g)
        PROVE  LastWords(h, r)'
    <2>1. UNCHANGED <<process, stoppedAt>> /\ r \in Refs
      BY <1>9, HostsTyped DEF OthersBeat
    <2>2. SUFFICES ASSUME Owned(h, r)'
                   PROVE  /\ entries'[r].node = h
                          /\ process[h].at = "down" => stoppedAt[h] # Never /\ Excused(h, r)'
      BY <2>1 DEF LastWords
    <2>3. /\ Owned(h, r) /\ entries'[r].node = entries[r].node
          /\ \/ entries'[r].beat = entries[r].beat
             \/ entries[r].node \in {NoNode, g} /\ (r \in ExpertsOf[g] => spokenFor'[r] = now)
                /\ entries'[r].beat = now
          /\ spokenFor'[r] \in {spokenFor[r], now}
      BY <1>9, <2>1, <2>2, OthersBeatEffect DEF Owned, Registered
    <2>4. /\ entries[r].node = h /\ h # NoNode
          /\ process[h].at = "down" => stoppedAt[h] # Never /\ Excused(h, r)
      BY <1>0, <2>3, HostsTyped DEF LastWords
    <2>5. now # Never /\ entries[r].beat <= now
      BY <1>0, <2>3, OwnedTyped DEF Never
    <2>6. CASE entries'[r].beat = entries[r].beat
      BY <2>1, <2>3, <2>4, <2>5, <2>6 DEF Excused
    <2>7. CASE entries'[r].beat = now /\ spokenFor'[r] = now
      <3>1. Excused(h, r)'
        BY <1>0, <2>5, <2>7 DEF Excused
      <3> QED
        BY <2>3, <2>4, <3>1
    <2> QED
      BY <2>3, <2>4, <2>6, <2>7
  <1> QED
    BY <1>1, <1>2, <1>3, <1>4, <1>5, <1>6, <1>7, <1>8, <1>9 DEF FleetNext, EndsCall

\* What a stopped process registered is fresh at most the time to live and one call
\* deadline longer, unless another publisher's heartbeat has named its node and refreshed
\* it within the time to live.
THEOREM ZombiesFade == FleetSpec => []ZombieBound
  <1>1. FleetInit => ZombieInv
    BY DEF FleetInit, Init, ZombieInv, LastWords, Owned, Registered
  <1>2. TypeOK /\ HeardInv /\ CallsInv /\ ZombieInv => ZombieBound
    <2> SUFFICES ASSUME TypeOK, HeardInv, CallsInv, ZombieInv,
                        NEW h \in Hosts, NEW r \in ExpertsOf[h], r \in Registered,
                        process[h].at = "down", entries[r].owner = Identity(h), Fresh(entries[r])
                 PROVE  \/ now - stoppedAt[h] <= HeartbeatTtl + RpcTimeout
                        \/ spokenFor[r] # Never /\ now - spokenFor[r] <= HeartbeatTtl
      BY DEF ZombieBound
    <2>1. Owned(h, r) /\ LastWords(h, r)
      BY DEF Owned, ZombieInv
    <2>2. /\ entries[r].beat \in Nat /\ now \in Nat /\ stoppedAt[h] \in Nat
          /\ spokenFor[r] # Never => spokenFor[r] \in Nat
      BY <2>1, OwnedTyped DEF LastWords, CallsInv, FleetTypeOK, Time, Registered
    <2>3. now - entries[r].beat <= HeartbeatTtl /\ Excused(h, r)
      BY <2>1 DEF LastWords, Fresh
    <2> QED
      BY <2>2, <2>3, FleetConstants DEF Excused
  <1> QED
    BY <1>1, <1>2, ZombieStep, FleetInvariant, PTL DEF FleetSpec

=============================================================================
