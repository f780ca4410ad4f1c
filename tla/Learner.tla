------------------------------ MODULE Learner ------------------------------
(***************************************************************************)
(* The combination learner (cei/learner.py) behind its servicers           *)
(* (cei/server/learner_servicer.py) and their replay cache                 *)
(* (cei/security.py).                                                      *)
(*                                                                         *)
(* A report passes the replay cache, under the cache's lock, and is taken  *)
(* up by the learner, under the learner's lock: two steps, between which   *)
(* other workers run.  The report that fills the batch flushes it, holding *)
(* the lock, one outcome at a time: what reads without the lock can see a  *)
(* batch half learned.  Arms are the keys of plans; what is learned of an  *)
(* arm is abstracted to how many outcomes were.  Reports arrive in any     *)
(* order, any number of times; the learner may restart, which loses all it *)
(* holds.  The policy a router got from it is the router's, in another     *)
(* process, and stays as it was.                                           *)
(***************************************************************************)
EXTENDS Integers, Sequences, FiniteSets

CONSTANTS
    RequestIds,      \* request ids of signed reports
    Arms,            \* arm keys
    NoArm,           \* a report without a plan or without its context
    Idle,            \* no estimate is being computed
    BatchSize,       \* batch_size
    MaxArms,         \* max_arms
    ReplayTtl,       \* ttl_ms of the replay cache
    MaxEntries,      \* max_entries of the replay cache
    Attested,        \* require_outcome_attestation
    Workers,         \* bound: reports between the cache and the learner
    MaxReports,      \* bound on the reports taken up since the last start
    MaxTime          \* bound on the clock

ASSUME ConstantsAssumption ==
    /\ NoArm \notin Arms /\ Idle \notin [arm : Arms, learned : Nat]
    /\ BatchSize \in Nat \ {0} /\ MaxArms \in Nat
    /\ ReplayTtl \in Nat /\ MaxEntries \in Nat /\ Workers \in Nat
    /\ MaxReports \in Nat /\ MaxTime \in Nat /\ Attested \in BOOLEAN

VARIABLES
    now,
    seen,        \* _seen: request id -> when it was last let through, or Never
    admitted,    \* the reports let through, on their way to the learner
    pending,     \* _pending
    flushed,     \* how many of pending the running flush has done, or NotFlushing
    arms,        \* the keys of _A and _b
    counts,      \* _counts
    version,
    estimate,    \* EstimateUtility between its guarded and its unguarded read, or Idle
    policy,      \* the policy snapshot a router holds (_cached_snap), with the arms' counts
    admittedAt,  \* history: request id -> when it was last let through
    shed,        \* history: ids the cache dropped to make room
    taken,       \* history: per arm, the reports taken up since the start
    dropped,     \* history: per arm, those that taught nothing
    exporter     \* history: is the learner that policy is of "running", or has it "restarted"?

vars == <<now, seen, admitted, pending, flushed, arms, counts, version, estimate, policy,
          admittedAt, shed, taken, dropped, exporter>>
cache == <<seen, admittedAt, shed>>
learner == <<pending, flushed, arms, counts, version, taken, dropped>>
router == <<policy, exporter>>

Never == -1
NotFlushing == -1
Time == 0..MaxTime
AnyArm == Arms \cup {NoArm}
Outcome == [id : RequestIds, arm : AnyArm, finite : BOOLEAN]
Estimate == [arm : Arms, learned : Nat]
Policy == [version : Nat, counts : [Arms -> Nat]]
UnknownVersion == -1
NoneOf(S) == [a \in S |-> 0]
NoPolicy == [version |-> 0, counts |-> NoneOf(Arms)]

-----------------------------------------------------------------------------
(* ReplayCache.check_and_add *)

ExpiredAtTtl == {r \in RequestIds : seen[r] # Never /\ now - seen[r] >= ReplayTtl}
Expired == {r \in RequestIds : seen[r] # Never /\ now - seen[r] > ReplayTtl}
Kept == {r \in RequestIds : seen[r] # Never} \ Expired

\* The ids dropped before one more is added: none while there is room, otherwise
\* the oldest half.
Shed(gone) ==
    IF Cardinality(Kept) < MaxEntries THEN gone = {}
    ELSE /\ Cardinality(gone) = MaxEntries \div 2
         /\ \A r \in gone, s \in Kept \ gone : seen[r] <= seen[s]

Replayed(r) == r \in Kept

\* A replay is refused; the expired ids go all the same.
ReportReplayed(r) ==
    /\ Attested
    /\ Replayed(r)
    /\ seen' = [s \in RequestIds |-> IF s \in Expired THEN Never ELSE seen[s]]
    /\ UNCHANGED <<now, admitted, learner, estimate, router, admittedAt, shed>>

\* ReportOutcome up to the learner.  A report whose signature does not verify
\* changes nothing; without attestation there is no replay check.  Bounds: Workers,
\* and no two equal reports between the cache and the learner.
ReportAdmitted(o) ==
    /\ Cardinality(admitted) < Workers /\ o \notin admitted
    /\ admitted' = admitted \cup {o}
    /\ IF Attested
       THEN /\ ~Replayed(o.id)
            /\ \E gone \in SUBSET Kept :
                  /\ Shed(gone)
                  /\ seen' = [s \in RequestIds |->
                                 IF s = o.id THEN now
                                 ELSE IF s \in Kept \ gone THEN seen[s] ELSE Never]
                  /\ shed' = (shed \cup gone) \ {o.id}
            /\ admittedAt' = [admittedAt EXCEPT ![o.id] = now]
       ELSE UNCHANGED cache
    /\ UNCHANGED <<now, learner, estimate, router>>

-----------------------------------------------------------------------------
(* ContextualBanditLearner, its lock free unless a flush runs. *)

Unlocked == flushed = NotFlushing

\* _ensure_arm
HasRoomOffByOne(a) == a \in arms \/ Cardinality(arms) <= MaxArms
HasRoom(a) == a \in arms \/ Cardinality(arms) < MaxArms

\* report: an outcome whose reward is not finite is refused, its id stays used.
OutcomeRefused(o) ==
    /\ o \in admitted /\ ~o.finite
    /\ admitted' = admitted \ {o}
    /\ UNCHANGED <<now, cache, learner, estimate, router>>

\* The reports taken up since the start, which MaxReports bounds.
Reports == version * BatchSize + Len(pending)

\* report holds the lock from the append to the end of the flush it starts.
LockForgotten == TRUE
LockTaken == Unlocked

OutcomeTaken(o) ==
    /\ LockTaken /\ Reports < MaxReports
    /\ o \in admitted /\ o.finite
    /\ admitted' = admitted \ {o}
    /\ pending' = Append(pending, o.arm)
    /\ flushed' = IF Len(pending') >= BatchSize THEN 0 ELSE NotFlushing
    /\ taken' = [taken EXCEPT ![o.arm] = @ + 1]
    /\ UNCHANGED <<now, cache, arms, counts, version, dropped, estimate, router>>

\* One turn of flush's loop: an outcome without a plan, or whose arm is over the
\* quota, is passed over.
FlushOne ==
    /\ ~Unlocked /\ flushed < Len(pending)
    /\ flushed' = flushed + 1
    /\ LET a == pending[flushed + 1]
       IN  IF a # NoArm /\ HasRoom(a)
           THEN /\ arms' = arms \cup {a}
                /\ counts' = [counts EXCEPT ![a] = @ + 1]
                /\ dropped' = dropped
           ELSE /\ dropped' = [dropped EXCEPT ![a] = @ + 1]
                /\ UNCHANGED <<arms, counts>>
    /\ UNCHANGED <<now, cache, admitted, pending, version, taken, estimate, router>>

SameVersion == version
NextVersion == version + 1
PendingKept == pending
PendingAfterFlush == <<>>

FlushEnds ==
    /\ ~Unlocked /\ flushed = Len(pending)
    /\ pending' = PendingAfterFlush
    /\ flushed' = NotFlushing
    /\ version' = NextVersion
    /\ UNCHANGED <<now, cache, admitted, arms, counts, taken, dropped, estimate, router>>

\* EstimateUtility: the arm's parameters are read under the lock, and the arm is
\* made if it is new and there is room (without room the call fails);
EstimateStarts(a) ==
    /\ Unlocked /\ estimate = Idle
    /\ HasRoom(a)
    /\ arms' = arms \cup {a}
    /\ estimate' = [arm |-> a, learned |-> counts[a]]
    /\ UNCHANGED <<now, cache, admitted, pending, flushed, counts, version, taken, dropped, router>>

\* its count is read after the lock is given up.
EstimateEnds ==
    /\ estimate # Idle
    /\ estimate' = Idle
    /\ UNCHANGED <<now, cache, admitted, learner, router>>

\* GetPolicySnapshot: the learner's policy, or "unchanged" for the client whose policy
\* has the learner's version.  A router's own call names no version.
GetPolicySnapshot(known) ==
    /\ Unlocked
    /\ IF known = version /\ version > 0
       THEN UNCHANGED router
       ELSE /\ policy' = [version |-> version, counts |-> counts]
            /\ exporter' = "running"
    /\ UNCHANGED <<now, cache, admitted, learner, estimate>>

-----------------------------------------------------------------------------
Tick ==
    /\ now < MaxTime
    /\ now' = now + 1
    /\ UNCHANGED <<cache, admitted, learner, estimate, router>>

\* Nothing is persisted; a policy that a router got from the learner stays with it.
Restart ==
    /\ seen' = [r \in RequestIds |-> Never]
    /\ admitted' = {}
    /\ pending' = <<>> /\ flushed' = NotFlushing
    /\ arms' = {} /\ counts' = NoneOf(Arms) /\ version' = 0
    /\ estimate' = Idle
    /\ admittedAt' = [r \in RequestIds |-> Never] /\ shed' = {}
    /\ taken' = NoneOf(AnyArm) /\ dropped' = NoneOf(AnyArm)
    /\ exporter' = IF policy = NoPolicy THEN "running" ELSE "restarted"
    /\ UNCHANGED <<now, policy>>

Init ==
    /\ now = 0
    /\ seen = [r \in RequestIds |-> Never]
    /\ admitted = {}
    /\ pending = <<>> /\ flushed = NotFlushing
    /\ arms = {} /\ counts = NoneOf(Arms) /\ version = 0
    /\ estimate = Idle /\ policy = NoPolicy
    /\ admittedAt = [r \in RequestIds |-> Never] /\ shed = {}
    /\ taken = NoneOf(AnyArm) /\ dropped = NoneOf(AnyArm)
    /\ exporter = "running"

Next ==
    \/ \E r \in RequestIds : ReportReplayed(r)
    \/ \E o \in Outcome : ReportAdmitted(o)
    \/ \E o \in admitted : OutcomeRefused(o) \/ OutcomeTaken(o)
    \/ FlushOne \/ FlushEnds
    \/ \E a \in Arms : EstimateStarts(a)
    \/ EstimateEnds
    \/ \E known \in {UnknownVersion, policy.version} : GetPolicySnapshot(known)
    \/ Tick
    \/ Restart

Spec == Init /\ [][Next]_vars

-----------------------------------------------------------------------------
(* Properties *)

\* Every variable keeps its type; the batch is never longer than batch_size, and
\* it is that long whenever a flush runs.
TypeOK ==
    /\ now \in Time
    /\ seen \in [RequestIds -> Time \cup {Never}]
    /\ admittedAt \in [RequestIds -> Time \cup {Never}]
    /\ shed \subseteq RequestIds
    /\ admitted \subseteq Outcome
    /\ pending \in Seq(AnyArm) /\ Len(pending) <= BatchSize
    /\ flushed \in {NotFlushing} \cup 0..BatchSize
    /\ Unlocked <=> Len(pending) < BatchSize
    /\ arms \subseteq Arms
    /\ counts \in [Arms -> Nat] /\ version \in Nat
    /\ estimate \in Estimate \cup {Idle}
    /\ policy \in Policy /\ exporter \in {"running", "restarted"}
    /\ taken \in [AnyArm -> Nat] /\ dropped \in [AnyArm -> Nat]

\* A signed report is let through again only once ttl_ms has passed since the
\* last time, or after the full cache shed its id.
AdmittedOncePerWindow ==
    [][Attested => \A o \in admitted' \ admitted :
          \/ admittedAt[o.id] = Never
          \/ now - admittedAt[o.id] > ReplayTtl
          \/ o.id \in shed]_vars

\* "Learners MUST reject duplicate request_ids within the replay window when
\* attestation is required" (schemas/cei.proto:309-311).
ReplaysRejected ==
    [][Attested => \A o \in admitted' \ admitted :
          \/ admittedAt[o.id] = Never
          \/ now - admittedAt[o.id] > ReplayTtl]_vars

\* The places of the batch that hold an outcome of the arm still to be learned.
Waiting == [a \in AnyArm |->
    {i \in 1..Len(pending) : pending[i] = a /\ (Unlocked \/ i > flushed)}]

\* However reports, flushes, estimates and policy reads interleave, each outcome
\* taken up is learned once and of its own arm, dropped, or waits for its batch to
\* fill; one without a plan is never learned.
OutcomesAccountedFor ==
    /\ \A a \in Arms : taken[a] = counts[a] + dropped[a] + Cardinality(Waiting[a])
    /\ taken[NoArm] = dropped[NoArm] + Cardinality(Waiting[NoArm])

\* max_arms bounds the arms, whether a report or an estimate made them, and
\* nothing is learned of any other.
ArmQuota ==
    /\ Cardinality(arms) <= MaxArms
    /\ \A a \in Arms : counts[a] > 0 => a \in arms

\* A router whose policy has the learner's version holds what the learner has
\* learned, so that it may be told "unchanged" (learner_servicer.py:101), as long as
\* the policy is of this run of the learner.  A learner that restarts counts versions
\* from zero (learner.py:27): when it reaches the version of a policy that outlived
\* its predecessor, that policy has other counts and is called unchanged all the same.
PolicyCurrent ==
    Unlocked /\ policy.version = version /\ exporter = "running" => policy.counts = counts
=============================================================================
