--------------------------- MODULE LearnerProofs ---------------------------
(***************************************************************************)
(* Proofs about Learner for every value of its constants.                  *)
(***************************************************************************)
EXTENDS Learner, FiniteSetTheorems, TLAPS

\* The learned arms are finitely many and within the quota.
ArmInv == IsFiniteSet(arms) /\ ArmQuota

\* What the cache remembers is when the id was let through; what it has
\* forgotten of an id let through is out of its window, or was shed.
CacheInv ==
    \A r \in RequestIds :
        /\ admittedAt[r] <= now
        /\ seen[r] # Never => seen[r] = admittedAt[r]
        /\ seen[r] = Never /\ admittedAt[r] # Never =>
              now - admittedAt[r] > ReplayTtl \/ r \in shed

\* A policy of this run of the learner is no newer than the learner's; one of its
\* version holds its counts, and no outcome is learned under that version but by a
\* flush, which ends it.
PolicyInv == (exporter = "running" => policy.version <= version) /\ PolicyCurrent

\* The outcomes of each arm are accounted for; nothing waits but while reports do.
IInv == TypeOK /\ ArmInv /\ CacheInv /\ PolicyInv /\ OutcomesAccountedFor

-----------------------------------------------------------------------------
\* What the passage of ids through the cache and time do not touch.
rest == <<pending, flushed, arms, counts, version, estimate, router, taken, dropped>>

LEMMA InitInv == Init => IInv
<1> SUFFICES ASSUME Init PROVE IInv
  OBVIOUS
<1>1. TypeOK
  BY ConstantsAssumption
  DEF Init, TypeOK, Time, Never, NotFlushing, Unlocked, Policy, NoPolicy, NoneOf
<1>2. ArmInv
  BY FS_EmptySet, ConstantsAssumption DEF Init, ArmInv, ArmQuota, NoneOf
<1>3. CacheInv
  BY DEF Init, CacheInv, Never
<1>4. PolicyInv
  BY DEF Init, PolicyInv, PolicyCurrent, NoPolicy
<1>5. OutcomesAccountedFor
  <2>1. \A a \in AnyArm : taken[a] = 0 /\ dropped[a] = 0
    BY DEF Init, NoneOf
  <2>2. \A a \in Arms : counts[a] = 0
    BY DEF Init, NoneOf
  <2>3. \A a \in AnyArm : Cardinality(Waiting[a]) = 0
    BY FS_EmptySet DEF Init, Waiting
  <2> QED
    BY <2>1, <2>2, <2>3 DEF OutcomesAccountedFor, AnyArm
<1> QED
  BY <1>1, <1>2, <1>3, <1>4, <1>5 DEF IInv

LEMMA AccountKept ==
    ASSUME OutcomesAccountedFor, UNCHANGED <<pending, flushed, counts, taken, dropped>>
    PROVE  OutcomesAccountedFor'
<1>1. Waiting' = Waiting
  BY DEF Waiting, Unlocked
<1> QED
  BY <1>1 DEF OutcomesAccountedFor, AnyArm

LEMMA WaitingFinite ==
    ASSUME TypeOK, NEW a \in AnyArm
    PROVE  IsFiniteSet(Waiting[a]) /\ Cardinality(Waiting[a]) \in Nat
<1> DEFINE n == Len(pending)
<1>1. Waiting[a] \subseteq 1..n /\ n \in Nat
  BY DEF TypeOK, Waiting
<1> HIDE DEF n
<1>2. IsFiniteSet(1..n)
  BY <1>1, FS_Interval
<1> QED
  BY <1>1, <1>2, FS_Subset, FS_CardinalityType

\* What the router holds changes as one from here on.
USE DEF router

\* The parts about the learner speak of nothing the cache changes.
LEMMA RestKept ==
    ASSUME IInv, UNCHANGED rest
    PROVE  ArmInv' /\ PolicyInv' /\ OutcomesAccountedFor'
<1>1. ArmInv' /\ PolicyInv'
  BY DEF IInv, rest, ArmInv, ArmQuota, PolicyInv, PolicyCurrent, Unlocked
<1> QED
  BY <1>1, AccountKept DEF IInv, rest

LEMMA CacheKept ==
    ASSUME IInv, UNCHANGED <<now, cache>>
    PROVE  CacheInv'
BY DEF IInv, cache, CacheInv

LEMMA ReportReplayedInv ==
    ASSUME IInv, NEW r \in RequestIds, ReportReplayed(r)
    PROVE  IInv'
<1> USE DEF IInv
<1>1. TypeOK'
  BY DEF TypeOK, ReportReplayed, learner, Unlocked, Never, Time
<1>2. CacheInv'
  BY ConstantsAssumption DEF TypeOK, CacheInv, ReportReplayed, Expired, Never, Time
<1>3. UNCHANGED rest
  BY DEF ReportReplayed, rest, learner
<1> QED
  BY <1>1, <1>2, <1>3, RestKept

LEMMA ReportAdmittedInv ==
    ASSUME IInv, NEW o \in Outcome, ReportAdmitted(o)
    PROVE  IInv'
<1>1. UNCHANGED rest
  BY DEF ReportAdmitted, rest, learner
<1>2. CASE ~Attested
  <2>1. TypeOK'
    BY <1>2 DEF IInv, TypeOK, ReportAdmitted, learner, cache, Unlocked
  <2>2. UNCHANGED <<now, cache>>
    BY <1>2 DEF ReportAdmitted
  <2> QED
    BY <2>1, <2>2, <1>1, RestKept, CacheKept DEF IInv
<1>3. CASE Attested
  <2>1. PICK gone \in SUBSET Kept :
           /\ seen' = [s \in RequestIds |->
                          IF s = o.id THEN now
                          ELSE IF s \in Kept \ gone THEN seen[s] ELSE Never]
           /\ shed' = (shed \cup gone) \ {o.id}
    BY <1>3 DEF ReportAdmitted
  <2>2. admittedAt' = [admittedAt EXCEPT ![o.id] = now] /\ now' = now
    BY <1>3 DEF ReportAdmitted
  <2>3. o.id \in RequestIds
    BY DEF Outcome
  <2>4. TypeOK'
    BY <1>3, <2>1, <2>2, <2>3 DEF IInv, TypeOK, ReportAdmitted, learner, Unlocked, Kept
  <2>5. CacheInv'
    <3> SUFFICES ASSUME NEW r \in RequestIds
                 PROVE  /\ admittedAt'[r] <= now'
                        /\ seen'[r] # Never => seen'[r] = admittedAt'[r]
                        /\ seen'[r] = Never /\ admittedAt'[r] # Never =>
                              now' - admittedAt'[r] > ReplayTtl \/ r \in shed'
      BY DEF CacheInv
    <3>1. CASE r = o.id
      BY <3>1, <2>1, <2>2, <2>3 DEF IInv, TypeOK, Time, Never
    <3>2. CASE r # o.id
      BY <3>2, <2>1, <2>2, ConstantsAssumption
      DEF IInv, TypeOK, Time, Never, CacheInv, Kept, Expired
    <3> QED
      BY <3>1, <3>2
  <2> QED
    BY <2>4, <2>5, <1>1, RestKept DEF IInv
<1> QED
  BY <1>2, <1>3

LEMMA OutcomeRefusedInv ==
    ASSUME IInv, NEW o \in admitted, OutcomeRefused(o)
    PROVE  IInv'
<1>1. TypeOK'
  BY DEF IInv, TypeOK, OutcomeRefused, learner, cache, Unlocked
<1>2. UNCHANGED rest /\ UNCHANGED <<now, cache>>
  BY DEF OutcomeRefused, rest, learner
<1> QED
  BY <1>1, <1>2, RestKept, CacheKept DEF IInv

\* What a step of the accounts starts from.
LEMMA Accounts ==
    ASSUME IInv
    PROVE  /\ taken \in [AnyArm -> Nat] /\ dropped \in [AnyArm -> Nat] /\ counts \in [Arms -> Nat]
           /\ \A a \in AnyArm : Cardinality(Waiting[a]) \in Nat
           /\ pending \in Seq(AnyArm) /\ Len(pending) \in Nat
           /\ OutcomesAccountedFor
BY WaitingFinite DEF IInv, TypeOK

\* An outcome taken up waits, and nothing else changes.
LEMMA TakenWaits ==
    ASSUME IInv, NEW o \in admitted, OutcomeTaken(o)
    PROVE  OutcomesAccountedFor'
<1> DEFINE n == Len(pending)
           b == o.arm
<1>1. b \in AnyArm
  BY DEF IInv, TypeOK, Outcome
<1>2. /\ counts' = counts /\ dropped' = dropped
      /\ taken' = [taken EXCEPT ![b] = @ + 1]
      /\ pending' = Append(pending, b)
      /\ flushed = NotFlushing /\ flushed' \in {0, NotFlushing}
  BY DEF OutcomeTaken, LockTaken, Unlocked
<1> HIDE DEF b
<1>3. /\ Len(pending') = n + 1 /\ pending'[n + 1] = b
      /\ \A i \in 1..n : pending'[i] = pending[i]
  BY <1>1, <1>2, Accounts
<1>4. \A a \in AnyArm : Waiting[a] = {i \in 1..n : pending[i] = a}
  BY <1>2 DEF Waiting, Unlocked
<1>5. \A a \in AnyArm : Waiting'[a] = {i \in 1..(n + 1) : pending'[i] = a}
  BY <1>2, <1>3 DEF Waiting, Unlocked, NotFlushing
<1>6. n \in Nat
  BY Accounts
<1> HIDE DEF n
<1>7. ASSUME NEW a \in AnyArm, a # b
      PROVE  Waiting'[a] = Waiting[a]
  <2>1. \A i : i \in 1..(n + 1) <=> i \in 1..n \/ i = n + 1
    BY <1>6
  <2>2. \A i : i \in Waiting'[a] <=> i \in Waiting[a]
    BY <1>3, <1>4, <1>5, <1>7, <2>1
  <2> QED
    BY <1>4, <1>5, <2>2
<1>8. Cardinality(Waiting'[b]) = Cardinality(Waiting[b]) + 1
  <2>1. Waiting'[b] = Waiting[b] \cup {n + 1}
    BY <1>1, <1>3, <1>4, <1>5, <1>6
  <2>2. n + 1 \notin Waiting[b]
    BY <1>1, <1>4, <1>6
  <2>3. IsFiniteSet(Waiting[b])
    BY <1>1, WaitingFinite DEF IInv
  <2> QED
    BY <2>1, <2>2, <2>3, FS_AddElement
<1>9. \A a \in AnyArm : taken'[a] = IF a = b THEN taken[a] + 1 ELSE taken[a]
  BY <1>1, <1>2, Accounts
<1>10. ASSUME NEW a \in Arms
       PROVE  taken'[a] = counts'[a] + dropped'[a] + Cardinality(Waiting'[a])
  <2>1. a \in AnyArm /\ taken[a] = counts[a] + dropped[a] + Cardinality(Waiting[a])
    BY Accounts DEF OutcomesAccountedFor, AnyArm
  <2>2. counts[a] \in Nat /\ dropped[a] \in Nat /\ Cardinality(Waiting[a]) \in Nat
    BY <2>1, Accounts
  <2> QED
    BY <1>2, <1>7, <1>8, <1>9, <2>1, <2>2
<1>11. taken'[NoArm] = dropped'[NoArm] + Cardinality(Waiting'[NoArm])
  <2>1. NoArm \in AnyArm /\ taken[NoArm] = dropped[NoArm] + Cardinality(Waiting[NoArm])
    BY Accounts DEF OutcomesAccountedFor, AnyArm
  <2>2. dropped[NoArm] \in Nat /\ Cardinality(Waiting[NoArm]) \in Nat
    BY <2>1, Accounts
  <2> QED
    BY <1>2, <1>7, <1>8, <1>9, <2>1, <2>2
<1> QED
  BY <1>10, <1>11 DEF OutcomesAccountedFor

\* The outcome that fills the batch starts the flush; the counts stay.
LEMMA OutcomeTakenInv ==
    ASSUME IInv, NEW o \in admitted, OutcomeTaken(o)
    PROVE  IInv'
<1> USE ConstantsAssumption DEF NotFlushing, Unlocked, LockTaken
<1>1. o.arm \in AnyArm
  BY DEF IInv, TypeOK, Outcome
<1>2. /\ pending' \in Seq(AnyArm)
      /\ Len(pending') = Len(pending) + 1
  BY <1>1 DEF IInv, TypeOK, OutcomeTaken
<1>3. Len(pending) \in Nat /\ Len(pending) < BatchSize
  BY DEF IInv, TypeOK, OutcomeTaken
<1>4. /\ Len(pending') <= BatchSize
      /\ flushed' \in {NotFlushing} \cup 0..BatchSize
      /\ flushed' = NotFlushing <=> Len(pending') < BatchSize
  BY <1>2, <1>3 DEF OutcomeTaken
<1>5. TypeOK'
  BY <1>2, <1>4 DEF IInv, TypeOK, OutcomeTaken, cache
<1>6. ArmInv' /\ PolicyInv'
  BY DEF IInv, OutcomeTaken, ArmInv, ArmQuota, PolicyInv, PolicyCurrent
<1>7. UNCHANGED <<now, cache>>
  BY DEF OutcomeTaken
<1>8. OutcomesAccountedFor'
  BY TakenWaits
<1> QED
  BY <1>5, <1>6, <1>7, <1>8, CacheKept DEF IInv

\* An arm made by a flush or by an estimate is within the quota.
LEMMA ArmMade ==
    ASSUME IInv, NEW a \in Arms, HasRoom(a)
    PROVE  IsFiniteSet(arms \cup {a}) /\ Cardinality(arms \cup {a}) <= MaxArms
<1>1. IsFiniteSet(arms) /\ Cardinality(arms) <= MaxArms
  BY DEF IInv, ArmInv, ArmQuota
<1>2. Cardinality(arms) \in Nat
  BY <1>1, FS_CardinalityType
<1>3. CASE a \in arms
  <2>1. arms \cup {a} = arms
    BY <1>3
  <2> QED
    BY <1>1, <2>1
<1>4. CASE a \notin arms
  <2>1. IsFiniteSet(arms \cup {a}) /\ Cardinality(arms \cup {a}) = Cardinality(arms) + 1
    BY <1>1, <1>4, FS_AddElement
  <2>2. Cardinality(arms) < MaxArms
    BY <1>4 DEF HasRoom
  <2> QED
    BY <1>2, <2>1, <2>2, ConstantsAssumption
<1> QED
  BY <1>3, <1>4

\* One turn of the flush takes its outcome off what waits, and nothing else.
LEMMA FlushedOne ==
    ASSUME IInv, FlushOne, NEW d, d = pending[flushed + 1]
    PROVE  /\ d \in AnyArm
           /\ Cardinality(Waiting[d]) = Cardinality(Waiting'[d]) + 1
           /\ Cardinality(Waiting'[d]) \in Nat
           /\ \A a \in AnyArm \ {d} : Waiting'[a] = Waiting[a]
<1> DEFINE n == Len(pending)
           k == flushed + 1
<1>1. /\ flushed \in 0..BatchSize /\ flushed' = k /\ pending' = pending
      /\ k \in 1..n /\ pending[k] = d /\ d \in AnyArm
  BY ConstantsAssumption DEF IInv, TypeOK, FlushOne, Unlocked, NotFlushing
<1>2. \A a \in AnyArm : Waiting[a] = {i \in 1..n : pending[i] = a /\ i >= k}
  BY <1>1, ConstantsAssumption DEF Waiting, Unlocked, NotFlushing
<1>3. \A a \in AnyArm : Waiting'[a] = {i \in 1..n : pending[i] = a /\ i > k}
  BY <1>1, ConstantsAssumption DEF Waiting, Unlocked, NotFlushing
<1>4. n \in Nat
  BY DEF IInv, TypeOK
<1>k. k \in 1..n /\ pending[k] = d /\ d \in AnyArm
  BY <1>1
<1> HIDE DEF n, k
<1>5. Waiting'[d] = Waiting[d] \ {k} /\ k \in Waiting[d]
  BY <1>k, <1>2, <1>3, <1>4
<1>6. ASSUME NEW a \in AnyArm \ {d} PROVE Waiting'[a] = Waiting[a]
  <2>1. \A i \in 1..n : pending[i] = a => (i >= k <=> i > k)
    BY <1>k, <1>4
  <2> QED
    BY <1>2, <1>3, <2>1
<1>7. IsFiniteSet(Waiting[d])
  BY <1>k, WaitingFinite DEF IInv
<1>8. /\ Cardinality(Waiting'[d]) = Cardinality(Waiting[d]) - 1
      /\ IsFiniteSet(Waiting'[d])
  BY <1>5, <1>7, FS_RemoveElement
<1>9. Cardinality(Waiting[d]) \in Nat /\ Cardinality(Waiting'[d]) \in Nat
  BY <1>7, <1>8, FS_CardinalityType
<1> QED
  BY <1>k, <1>6, <1>8, <1>9

\* What it takes off is learned, or dropped.
LEMMA FlushAccounts ==
    ASSUME IInv, FlushOne
    PROVE  OutcomesAccountedFor'
<1> DEFINE d == pending[flushed + 1]
<1>1. /\ d \in AnyArm
      /\ Cardinality(Waiting[d]) = Cardinality(Waiting'[d]) + 1
      /\ Cardinality(Waiting'[d]) \in Nat
      /\ \A a \in AnyArm \ {d} : Waiting'[a] = Waiting[a]
      /\ taken' = taken
  BY FlushedOne DEF FlushOne
<1>2. \/ d \in Arms /\ counts' = [counts EXCEPT ![d] = @ + 1] /\ dropped' = dropped
      \/ counts' = counts /\ dropped' = [dropped EXCEPT ![d] = @ + 1]
  BY <1>1 DEF FlushOne, AnyArm
<1> HIDE DEF d
<1>3. ASSUME NEW a \in Arms
      PROVE  taken'[a] = counts'[a] + dropped'[a] + Cardinality(Waiting'[a])
  <2>1. a \in AnyArm /\ taken[a] = counts[a] + dropped[a] + Cardinality(Waiting[a])
    BY Accounts DEF OutcomesAccountedFor, AnyArm
  <2>2. counts[a] \in Nat /\ dropped[a] \in Nat /\ Cardinality(Waiting[a]) \in Nat
    BY <2>1, Accounts
  <2>3. CASE a # d
    <3>1. counts'[a] = counts[a] /\ dropped'[a] = dropped[a]
      BY <1>2, <2>1, <2>3, Accounts
    <3> QED
      BY <1>1, <2>1, <2>3, <3>1
  <2>4. CASE a = d
    <3>1. \/ counts'[a] = counts[a] + 1 /\ dropped'[a] = dropped[a]
          \/ counts'[a] = counts[a] /\ dropped'[a] = dropped[a] + 1
      BY <1>2, <2>1, <2>4, Accounts
    <3> QED
      BY <1>1, <2>1, <2>2, <2>4, <3>1
  <2> QED
    BY <2>3, <2>4
<1>4. taken'[NoArm] = dropped'[NoArm] + Cardinality(Waiting'[NoArm])
  <2>1. NoArm \in AnyArm /\ taken[NoArm] = dropped[NoArm] + Cardinality(Waiting[NoArm])
    BY Accounts DEF OutcomesAccountedFor, AnyArm
  <2>2. dropped[NoArm] \in Nat /\ Cardinality(Waiting[NoArm]) \in Nat
    BY <2>1, Accounts
  <2>3. dropped'[NoArm] = dropped[NoArm] + (IF NoArm = d THEN 1 ELSE 0)
    BY <1>2, <2>1, Accounts, ConstantsAssumption
  <2> QED
    BY <1>1, <2>1, <2>2, <2>3
<1> QED
  BY <1>3, <1>4 DEF OutcomesAccountedFor

LEMMA FlushOneInv ==
    ASSUME IInv, FlushOne
    PROVE  IInv'
<1> DEFINE a == pending[flushed + 1]
           Learned == /\ arms' \subseteq Arms /\ counts' \in [Arms -> Nat]
                      /\ dropped' \in [AnyArm -> Nat]
                      /\ ArmInv'
<1>1. /\ flushed \in 0..BatchSize /\ flushed + 1 \in 1..Len(pending)
      /\ flushed + 1 \in 0..BatchSize
      /\ a \in AnyArm
  BY ConstantsAssumption DEF IInv, TypeOK, FlushOne, Unlocked, NotFlushing
<1>2. ASSUME a # NoArm, HasRoom(a)
      PROVE  Learned
  <2>1. arms' = arms \cup {a} /\ counts' = [counts EXCEPT ![a] = @ + 1] /\ dropped' = dropped
    BY <1>2 DEF FlushOne
  <2>2. a \in Arms
    BY <1>1, <1>2 DEF AnyArm
  <2>3. IsFiniteSet(arms') /\ Cardinality(arms') <= MaxArms
    BY <2>1, <2>2, <1>2, ArmMade
  <2> HIDE DEF a
  <2>4. arms' \subseteq Arms /\ counts' \in [Arms -> Nat] /\ dropped' \in [AnyArm -> Nat]
    BY <2>1, <2>2 DEF IInv, TypeOK
  <2>5. \A b \in Arms : counts'[b] > 0 => b \in arms'
    BY <2>1, <2>2 DEF IInv, TypeOK, ArmInv, ArmQuota
  <2> QED
    BY <2>3, <2>4, <2>5 DEF ArmInv, ArmQuota
<1>3. ASSUME ~(a # NoArm /\ HasRoom(a))
      PROVE  Learned
  <2>1. arms' = arms /\ counts' = counts /\ dropped' = [dropped EXCEPT ![a] = @ + 1]
    BY <1>3 DEF FlushOne
  <2> HIDE DEF a
  <2>2. dropped' \in [AnyArm -> Nat]
    BY <2>1, <1>1 DEF IInv, TypeOK
  <2> QED
    BY <2>1, <2>2 DEF IInv, TypeOK, ArmInv, ArmQuota
<1>4. Learned
  BY <1>2, <1>3
<1>5. ~Unlocked /\ ~Unlocked' /\ flushed' = flushed + 1
  BY <1>1 DEF FlushOne, Unlocked, NotFlushing
<1>6. TypeOK'
  BY <1>1, <1>4, <1>5 DEF IInv, TypeOK, FlushOne, cache
<1>7. PolicyInv'
  BY <1>5 DEF IInv, PolicyInv, PolicyCurrent, FlushOne
<1>8. UNCHANGED <<now, cache>>
  BY DEF FlushOne
<1> QED
  BY <1>4, <1>6, <1>7, <1>8, FlushAccounts, CacheKept DEF IInv

\* The flush ends with a version no policy given out has.
LEMMA FlushEndsInv ==
    ASSUME IInv, FlushEnds
    PROVE  IInv'
<1>1. /\ version' = version + 1 /\ version \in Nat
      /\ UNCHANGED router /\ policy.version \in Nat
  BY DEF IInv, TypeOK, Policy, FlushEnds, NextVersion
<1>2. TypeOK'
  BY <1>1, ConstantsAssumption
  DEF IInv, TypeOK, FlushEnds, PendingAfterFlush, NotFlushing, Unlocked, cache
<1>3. PolicyInv'
  BY <1>1 DEF IInv, PolicyInv, PolicyCurrent
<1>4. ArmInv'
  BY DEF IInv, ArmInv, ArmQuota, FlushEnds
<1>5. UNCHANGED <<now, cache>>
  BY DEF FlushEnds
<1>6. OutcomesAccountedFor'
  <2>1. \A a \in AnyArm : Waiting[a] = {} /\ Waiting'[a] = {}
    BY ConstantsAssumption DEF IInv, TypeOK, Waiting, FlushEnds, PendingAfterFlush
  <2> QED
    BY <2>1 DEF IInv, OutcomesAccountedFor, AnyArm, FlushEnds
<1> QED
  BY <1>2, <1>3, <1>4, <1>5, <1>6, CacheKept DEF IInv

LEMMA EstimateInv ==
    ASSUME IInv, (\E a \in Arms : EstimateStarts(a)) \/ EstimateEnds
    PROVE  IInv'
<1>1. ASSUME NEW a \in Arms, EstimateStarts(a) PROVE IInv'
  <2>1. estimate' \in Estimate
    BY <1>1 DEF IInv, TypeOK, Estimate, EstimateStarts
  <2>2. TypeOK'
    BY <1>1, <2>1 DEF IInv, TypeOK, EstimateStarts, cache, Unlocked
  <2>3. ArmInv'
    <3>1. IsFiniteSet(arms') /\ Cardinality(arms') <= MaxArms
      BY <1>1, ArmMade DEF EstimateStarts
    <3> QED
      BY <1>1, <3>1 DEF IInv, ArmInv, ArmQuota, EstimateStarts
  <2>4. PolicyInv' /\ UNCHANGED <<now, cache>>
    BY <1>1 DEF IInv, PolicyInv, PolicyCurrent, Unlocked, EstimateStarts
  <2>5. OutcomesAccountedFor'
    BY <1>1, AccountKept DEF IInv, EstimateStarts
  <2> QED
    BY <2>2, <2>3, <2>4, <2>5, CacheKept DEF IInv
<1>2. CASE EstimateEnds
  <2>1. TypeOK'
    BY <1>2 DEF IInv, TypeOK, EstimateEnds, learner, cache, Unlocked
  <2>2. ArmInv' /\ PolicyInv' /\ UNCHANGED <<now, cache>>
    BY <1>2 DEF IInv, ArmInv, ArmQuota, PolicyInv, PolicyCurrent, Unlocked, EstimateEnds, learner
  <2>3. OutcomesAccountedFor'
    BY <1>2, AccountKept DEF IInv, EstimateEnds, learner
  <2> QED
    BY <2>1, <2>2, <2>3, CacheKept DEF IInv
<1> QED
  BY <1>1, <1>2

\* A policy given out in full is the learner's; one called unchanged is what it was.
LEMMA GetPolicySnapshotInv ==
    ASSUME IInv, NEW known, GetPolicySnapshot(known)
    PROVE  IInv'
<1>1. TypeOK'
  BY DEF IInv, TypeOK, Policy, GetPolicySnapshot, learner, cache, Unlocked
<1>2. PolicyInv'
  BY DEF IInv, TypeOK, PolicyInv, PolicyCurrent, GetPolicySnapshot, learner, Unlocked
<1>3. ArmInv' /\ UNCHANGED <<now, cache>>
  BY DEF IInv, ArmInv, ArmQuota, GetPolicySnapshot, learner
<1>4. OutcomesAccountedFor'
  BY AccountKept DEF IInv, GetPolicySnapshot, learner
<1> QED
  BY <1>1, <1>2, <1>3, <1>4, CacheKept DEF IInv

LEMMA TickInv ==
    ASSUME IInv, Tick
    PROVE  IInv'
<1>1. TypeOK'
  BY ConstantsAssumption DEF IInv, TypeOK, Tick, Time, learner, cache, Unlocked, Never
<1>2. CacheInv'
  BY ConstantsAssumption DEF IInv, TypeOK, CacheInv, Tick, Time, Never, cache
<1>3. UNCHANGED rest
  BY DEF Tick, rest, learner
<1> QED
  BY <1>1, <1>2, <1>3, RestKept DEF IInv

LEMMA RestartAccounts ==
    ASSUME Restart
    PROVE  OutcomesAccountedFor'
<1>1. \A a \in AnyArm : taken'[a] = 0 /\ dropped'[a] = 0
  BY DEF Restart, NoneOf
<1>2. \A a \in Arms : counts'[a] = 0
  BY DEF Restart, NoneOf
<1>3. \A a \in AnyArm : Cardinality(Waiting'[a]) = 0
  BY FS_EmptySet DEF Waiting, Restart
<1> QED
  BY <1>1, <1>2, <1>3 DEF OutcomesAccountedFor, AnyArm

LEMMA RestartInv ==
    ASSUME IInv, Restart
    PROVE  IInv'
<1> USE DEF Restart
<1>1. TypeOK'
  BY ConstantsAssumption
  DEF IInv, TypeOK, Time, Never, NotFlushing, Unlocked, Policy, NoPolicy, NoneOf
<1>2. ArmInv'
  BY FS_EmptySet, ConstantsAssumption DEF ArmInv, ArmQuota, NoneOf
<1>3. CacheInv'
  BY DEF IInv, TypeOK, Time, CacheInv, Never
<1>4. PolicyInv'
  BY DEF PolicyInv, PolicyCurrent, NoPolicy
<1>5. OutcomesAccountedFor'
  BY RestartAccounts
<1> QED
  BY <1>1, <1>2, <1>3, <1>4, <1>5 DEF IInv

LEMMA StepInv == IInv /\ [Next]_vars => IInv'
<1> SUFFICES ASSUME IInv, [Next]_vars PROVE IInv'
  OBVIOUS
<1>1. CASE Next
  BY <1>1, ReportReplayedInv, ReportAdmittedInv, OutcomeRefusedInv, OutcomeTakenInv, FlushOneInv,
     FlushEndsInv, EstimateInv, GetPolicySnapshotInv, TickInv, RestartInv DEF Next
<1>2. CASE UNCHANGED vars
  <2>1. TypeOK' /\ ArmInv' /\ CacheInv' /\ PolicyInv'
    BY <1>2 DEF vars, IInv, TypeOK, ArmInv, ArmQuota, CacheInv, PolicyInv, PolicyCurrent, Unlocked
  <2> QED
    BY <1>2, <2>1, AccountKept DEF vars, IInv
<1> QED
  BY <1>1, <1>2

-----------------------------------------------------------------------------
\* The invariant of the learner and its replay cache.
THEOREM LearnerInvariant == Spec => []IInv
BY InitInv, StepInv, PTL DEF Spec

\* Every variable keeps its type; a flush runs exactly when the batch is full.
THEOREM TypeCorrect == Spec => []TypeOK
<1>1. IInv => TypeOK
  BY DEF IInv
<1> QED
  BY <1>1, LearnerInvariant, PTL

\* The arms stay within max_arms, and nothing is learned of another.
THEOREM ArmsBounded == Spec => []ArmQuota
<1>1. IInv => ArmQuota
  BY DEF IInv, ArmInv
<1> QED
  BY <1>1, LearnerInvariant, PTL

\* Each outcome taken up is learned once, of its own arm, or dropped, or waits.
THEOREM OutcomesConserved == Spec => []OutcomesAccountedFor
<1>1. IInv => OutcomesAccountedFor
  BY DEF IInv
<1> QED
  BY <1>1, LearnerInvariant, PTL

\* A policy of the learner's current version holds what the learner has learned,
\* unless the learner has restarted since it exported that policy.
THEOREM PoliciesCurrent == Spec => []PolicyCurrent
<1>1. IInv => PolicyCurrent
  BY DEF IInv, PolicyInv
<1> QED
  BY <1>1, LearnerInvariant, PTL

\* A signed report is let through once per window, unless the cache shed its id.
THEOREM AdmittedOnce == Spec => AdmittedOncePerWindow
<1> DEFINE Fair(o) == \/ admittedAt[o.id] = Never
                      \/ now - admittedAt[o.id] > ReplayTtl
                      \/ o.id \in shed
           Once == Attested => \A o \in admitted' \ admitted : Fair(o)
<1>1. IInv /\ [Next]_vars => [Once]_vars
  <2> SUFFICES ASSUME IInv, Next, Attested, NEW o \in admitted' \ admitted
               PROVE  Fair(o)
    OBVIOUS
  <2>1. PICK p \in Outcome : ReportAdmitted(p)
    BY DEF Next, ReportReplayed, OutcomeRefused, OutcomeTaken, FlushOne, FlushEnds,
           EstimateStarts, EstimateEnds, GetPolicySnapshot, Tick, Restart
  <2>2. o = p /\ ~Replayed(p.id) /\ p.id \in RequestIds
    BY <2>1 DEF ReportAdmitted, Outcome
  <2>3. seen[o.id] = Never \/ now - seen[o.id] > ReplayTtl
    BY <2>2 DEF Replayed, Kept, Expired
  <2> QED
    BY <2>2, <2>3 DEF IInv, CacheInv
<1> QED
  BY <1>1, LearnerInvariant, PTL DEF Spec, AdmittedOncePerWindow
=============================================================================
