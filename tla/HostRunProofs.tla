---------------------------- MODULE HostRunProofs ----------------------------
(***************************************************************************)
(* Proofs about HostRun for every value of its constants: any number of    *)
(* requests, peers and layers, any budgets and any plans.                  *)
(*                                                                         *)
(* Every step of the specification but the peers' is a step of one thread. *)
(* What such a step does to its thread is one of nine kinds (Moves); what  *)
(* it does to the leases is Settles and SendsFor.  Each action is shown    *)
(* once to be such a step (Advances), and the invariants are shown to be   *)
(* kept by the kinds of step, not by the actions.                          *)
(***************************************************************************)
EXTENDS HostRun, SequenceTheorems, TLAPS

-----------------------------------------------------------------------------
(* The plans *)

LEMMA PlanTyped ==
    ASSUME NEW plan \in Plans \cup {LocalPlan}, NEW n \in Layers
    PROVE  /\ Len(plan[n]) \in 0..2
           /\ \A i \in 1..Len(plan[n]) : plan[n][i] \in Peers
           /\ plan[n] = <<>> => Len(plan[n]) = 0
  <1>1. plan[n] = <<>> \/ \E k \in 0..2 : plan[n] \in [1..k -> Peers]
    BY ConstantsAssumption DEF LocalPlan
  <1>2. CASE plan[n] = <<>>
    BY <1>2
  <1>3. ASSUME NEW k \in 0..2, plan[n] \in [1..k -> Peers]
        PROVE  Len(plan[n]) \in 0..2 /\ \A i \in 1..Len(plan[n]) : plan[n][i] \in Peers
    <2>1. k \in Nat
      OBVIOUS
    <2>2. plan[n] \in Seq(Peers)
      BY <1>3, <2>1, SeqDef
    <2>3. Len(plan[n]) = k
      BY <1>3, <2>1, <2>2
    <2> QED
      BY <1>3, <2>3
  <1> QED
    BY <1>1, <1>2, <1>3

-----------------------------------------------------------------------------
(* Threads.  What a step does to its thread, from t to u, is one of a few kinds. *)

CallAt(r, t) == [run |-> r, layer |-> t.layer, pos |-> t.pos]
Before(r, t, k) == {[run |-> r, layer |-> t.layer, pos |-> i] : i \in 1..k}
PlannedBy(r, t, n) == {[run |-> r, layer |-> n, pos |-> i] : i \in 1..Len(t.plan[n])}
BorrowedBy(t, n) == {c \in t.hidden : c.layer = n}
FellBackAt(t, n) == \E f \in t.fallbacks : f.layer = n
InStep(t) == t.pc \in {"step"} \cup Awaiting

\* Nothing but the program counter, the answer and what is said of the step changes.
SameRecord(t, u) ==
    /\ u.budget = t.budget /\ u.mode = t.mode /\ u.plan = t.plan /\ u.layer = t.layer
    /\ u.hidden = t.hidden /\ u.fallbacks = t.fallbacks /\ u.localOnly = t.localOnly

Begins(t, u) ==
    /\ t.pc = "waiting" /\ u.pc \in {"proposing", "layer"} /\ u.budget \in Budgets
    /\ u.pc = "layer" => u.mode # "learned"
    /\ u.plan = t.plan /\ u.layer = t.layer /\ u.y = t.y
    /\ u.hidden = t.hidden /\ u.fallbacks = t.fallbacks /\ u.localOnly = t.localOnly

GetsPlan(t, u) ==
    /\ t.pc = "proposing" /\ u.pc = "layer" /\ u.budget = t.budget /\ u.mode = t.mode
    /\ u.layer = t.layer /\ u.y = t.y
    /\ u.hidden = t.hidden /\ u.fallbacks = t.fallbacks /\ u.localOnly = t.localOnly

Finishes(t, u) ==
    /\ SameRecord(t, u) /\ u.y = t.y
    /\ \/ t.pc = "waiting" /\ u.pc = "done" /\ u.status = "PERMISSION_DENIED"
       \/ t.pc = "proposing" /\ u.pc = "done" /\ u.status = "NO_ROUTER"
       \/ /\ t.pc = "layer" /\ t.layer = NumLayers + 1
          /\ \/ u.pc = "reporting" /\ t.mode = "learned" /\ u.status = t.status
             \/ u.pc = "done" /\ u.status = "OK"
       \/ t.pc = "reporting" /\ u.pc = "done" /\ u.status \in {"OK", "NO_LEARNER"}

EntersStep(t, u) ==
    /\ SameRecord(t, u) /\ u.y = t.y
    /\ t.pc = "layer" /\ t.layer \in Layers /\ ~t.localOnly /\ t.plan[t.layer] # <<>>
    /\ u.pc = "step" /\ u.pos = 1

LeavesLayer(t, u) ==
    /\ u.budget = t.budget /\ u.mode = t.mode /\ u.plan = t.plan /\ u.pc = "layer"
    /\ t.layer \in Layers /\ u.layer = t.layer + 1 /\ u.y = {}

Completes(t, u) ==
    /\ LeavesLayer(t, u)
    /\ \/ t.pc = "layer" /\ (t.localOnly \/ t.plan[t.layer] = <<>>)
       \/ t.pc = "step" /\ t.pos > Len(t.plan[t.layer])
    /\ u.hidden = t.hidden \cup t.y /\ u.fallbacks = t.fallbacks /\ u.localOnly = t.localOnly

FallsBack(t, u) ==
    /\ LeavesLayer(t, u)
    /\ t.pc \in {"layer", "step"} \cup Awaiting
    /\ t.pc = "layer" => ~t.localOnly /\ t.plan[t.layer] # <<>>
    /\ u.hidden = t.hidden /\ u.localOnly = (t.localOnly \/ t.budget.strict)
    /\ \E reason \in Reason : u.fallbacks = t.fallbacks \cup {[layer |-> t.layer, reason |-> reason]}

NextOne(r, t, u) ==
    /\ SameRecord(t, u)
    /\ u.pc = "step" /\ u.pos = t.pos + 1
    /\ \/ t.pc = "releasing" /\ t.failure = None /\ u.y = t.y
       \/ t.pc = "forwarding" /\ ~t.budget.leases /\ u.y = t.y \cup {CallAt(r, t)}

CallsOn(r, t, u) ==
    /\ SameRecord(t, u) /\ u.pos = t.pos
    /\ \/ /\ t.pc = "step" /\ t.pos <= Len(t.plan[t.layer]) /\ u.y = t.y
          /\ \/ u.pc = "leasing" /\ t.budget.leases
             \/ u.pc = "forwarding" /\ ~t.budget.leases
       \/ t.pc = "leasing" /\ u.pc = "forwarding" /\ u.y = t.y
       \/ /\ t.pc = "forwarding" /\ u.pc = "releasing" /\ t.budget.leases
          /\ u.y = t.y \cup {CallAt(r, t)} \/ u.failure # None

Waits(t, u) ==
    /\ SameRecord(t, u) /\ u.y = t.y /\ u.pos = t.pos /\ u.pc = t.pc /\ u.failure = t.failure

\* No answer is kept when no call is awaited.
KeepsNoAnswer(t, u) ==
    u.pc \notin Awaiting => u.answer = None \/ (t.pc \notin Awaiting /\ u.answer = t.answer)

Moves(r, t, u) ==
    /\ KeepsNoAnswer(t, u)
    /\ Finishes(t, u) \/ u.status = t.status
    /\ \/ Begins(t, u) \/ GetsPlan(t, u) \/ Finishes(t, u)
       \/ EntersStep(t, u) \/ Completes(t, u) \/ FallsBack(t, u)
       \/ NextOne(r, t, u) \/ CallsOn(r, t, u) \/ Waits(t, u)

\* What holds of the thread of r.
WellFormed(r, t) ==
    /\ t.pc \notin {"waiting", "done"} => t.budget \in Budgets
    /\ t.pc \in {"waiting", "proposing"} =>
           t.layer = 1 /\ t.fallbacks = {} /\ t.hidden = {} /\ ~t.localOnly
    /\ InStep(t) => t.layer \in Layers /\ ~t.localOnly /\ t.plan[t.layer] # <<>>
    /\ t.pc = "reporting" => t.layer = NumLayers + 1 /\ t.mode = "learned"
    /\ t.pc \in Awaiting => t.pos <= Len(t.plan[t.layer])
    /\ t.pc = "step" => t.pos <= Len(t.plan[t.layer]) + 1
    /\ t.pc \in {"leasing", "releasing"} => t.budget.leases

Quiet(t) == t.pc \notin Awaiting => t.answer = None

\* The sum of a step holds exactly what was borrowed before the current reference.
SumsUp(r, t) ==
    /\ t.pc \in {"step", "leasing", "forwarding"} => t.y = Before(r, t, t.pos - 1)
    /\ t.pc = "releasing" /\ t.failure = None => t.y = Before(r, t, t.pos)
    /\ ~InStep(t) => t.y = {}

\* The layers behind are told truly.
TruthBehind(r, t) ==
    /\ \A c \in t.hidden : c.layer < t.layer
    /\ \A f \in t.fallbacks : f.layer < t.layer
    /\ t.localOnly <=> t.fallbacks # {} /\ t.budget.strict
    /\ \A n \in 1..(t.layer - 1) :
           IF FellBackAt(t, n) THEN BorrowedBy(t, n) = {}
           ELSE \/ BorrowedBy(t, n) = PlannedBy(r, t, n)
                \/ /\ BorrowedBy(t, n) = {} /\ t.budget.strict
                   /\ \E k \in 1..(n - 1) : FellBackAt(t, k)

ThreadSound(r, t) == WellFormed(r, t) /\ Quiet(t) /\ SumsUp(r, t) /\ TruthBehind(r, t)

LEMMA WellFormedKept ==
    ASSUME NEW r \in Runs, NEW t \in Thread, NEW u \in Thread, WellFormed(r, t), Moves(r, t, u)
    PROVE  WellFormed(r, u)
  <1>1. CASE Begins(t, u)
    BY <1>1 DEF Begins, WellFormed, InStep, Awaiting
  <1>2. CASE GetsPlan(t, u)
    BY <1>2 DEF GetsPlan, WellFormed, InStep, Awaiting
  <1>3. CASE Finishes(t, u)
    BY <1>3 DEF Finishes, SameRecord, WellFormed, InStep, Awaiting
  <1>4. CASE EntersStep(t, u)
    <2>1. Len(t.plan[t.layer]) \in 0..2
      BY <1>4, PlanTyped DEF EntersStep, Thread
    <2> QED
      BY <1>4, <2>1 DEF EntersStep, SameRecord, WellFormed, InStep, Awaiting
  <1>5. CASE Completes(t, u) \/ FallsBack(t, u)
    BY <1>5 DEF Completes, FallsBack, LeavesLayer, WellFormed, InStep, Awaiting
  <1>6. CASE NextOne(r, t, u)
    <2>1. t.pc \in Awaiting /\ InStep(t)
      BY <1>6 DEF NextOne, InStep, Awaiting
    <2>2. Len(t.plan[t.layer]) \in 0..2 /\ t.pos \in 1..3
      BY <2>1, PlanTyped DEF WellFormed, Thread
    <2> QED
      BY <1>6, <2>1, <2>2 DEF NextOne, SameRecord, WellFormed, InStep, Awaiting
  <1>7. CASE CallsOn(r, t, u)
    <2>1. InStep(t) /\ InStep(u) /\ u.pc # "step"
      BY <1>7 DEF CallsOn, InStep, Awaiting
    <2>2. t.pos <= Len(t.plan[t.layer])
      BY <1>7 DEF CallsOn, WellFormed, Awaiting
    <2> QED
      BY <1>7, <2>1, <2>2 DEF CallsOn, SameRecord, WellFormed, InStep, Awaiting
  <1>8. CASE Waits(t, u)
    BY <1>8 DEF Waits, SameRecord, WellFormed, InStep, Awaiting
  <1> QED
    BY <1>1, <1>2, <1>3, <1>4, <1>5, <1>6, <1>7, <1>8 DEF Moves

LEMMA SumsKept ==
    ASSUME NEW r \in Runs, NEW t \in Thread, NEW u \in Thread,
           WellFormed(r, t), SumsUp(r, t), Moves(r, t, u)
    PROVE  SumsUp(r, u)
  <1>0. t.pos \in 1..3
    BY DEF Thread
  <1>1. CASE Begins(t, u) \/ GetsPlan(t, u) \/ Finishes(t, u)
    BY <1>1 DEF Begins, GetsPlan, Finishes, SumsUp, InStep, Awaiting
  <1>2. CASE EntersStep(t, u)
    <2>1. u.y = {} /\ u.pc = "step" /\ u.pos = 1
      BY <1>2 DEF EntersStep, SumsUp, InStep, Awaiting
    <2>2. Before(r, u, 0) = {}
      BY DEF Before
    <2> QED
      BY <2>1, <2>2 DEF SumsUp, InStep, Awaiting
  <1>3. CASE Completes(t, u) \/ FallsBack(t, u)
    BY <1>3 DEF Completes, FallsBack, LeavesLayer, SumsUp, InStep, Awaiting
  <1>a. \A k \in Nat : u.layer = t.layer => Before(r, u, k) = Before(r, t, k)
    BY DEF Before
  <1>b. Before(r, t, t.pos) = Before(r, t, t.pos - 1) \cup {CallAt(r, t)}
    BY <1>0 DEF Before, CallAt
  <1>4. CASE NextOne(r, t, u)
    <2>1. u.pos - 1 = t.pos /\ u.layer = t.layer /\ u.pc = "step"
      BY <1>0, <1>4 DEF NextOne, SameRecord
    <2>2. u.y = Before(r, t, t.pos)
      BY <1>4, <1>b DEF NextOne, SumsUp
    <2> QED
      BY <1>0, <1>a, <2>1, <2>2 DEF SumsUp, InStep, Awaiting
  <1>5. CASE CallsOn(r, t, u)
    <2>1. u.pos = t.pos /\ u.layer = t.layer
      BY <1>5 DEF CallsOn, SameRecord
    <2>2. InStep(u)
      BY <1>5 DEF CallsOn, InStep, Awaiting
    <2>3. u.pc \in {"leasing", "forwarding"} => u.y = Before(r, t, t.pos - 1)
      BY <1>5 DEF CallsOn, SumsUp
    <2>4. u.pc = "releasing" /\ u.failure = None => u.y = Before(r, t, t.pos)
      BY <1>5, <1>b DEF CallsOn, SumsUp
    <2>5. u.pc # "step"
      BY <1>5 DEF CallsOn
    <2> QED
      BY <1>0, <1>a, <2>1, <2>2, <2>3, <2>4, <2>5 DEF SumsUp
  <1>6. CASE Waits(t, u)
    BY <1>6 DEF Waits, SameRecord, SumsUp, InStep, Before
  <1> QED
    BY <1>1, <1>2, <1>3, <1>4, <1>5, <1>6 DEF Moves

\* A layer left behind keeps its tale; only the one just left is new.
LEMMA EarlierLayersKept ==
    ASSUME NEW r \in Runs, NEW t \in Thread, NEW u \in Thread, TruthBehind(r, t),
           LeavesLayer(t, u), u.hidden \ t.hidden \subseteq {c \in Call : c.layer = t.layer},
           t.hidden \subseteq u.hidden,
           \A f \in u.fallbacks : f \in t.fallbacks \/ f.layer = t.layer,
           t.fallbacks \subseteq u.fallbacks,
           NEW n \in 1..(t.layer - 1)
    PROVE  IF FellBackAt(u, n) THEN BorrowedBy(u, n) = {}
           ELSE \/ BorrowedBy(u, n) = PlannedBy(r, u, n)
                \/ /\ BorrowedBy(u, n) = {} /\ u.budget.strict
                   /\ \E k \in 1..(n - 1) : FellBackAt(u, k)
  <1>0. t.layer \in Nat /\ n # t.layer
    BY DEF Thread
  <1>1. FellBackAt(u, n) <=> FellBackAt(t, n)
    BY <1>0 DEF FellBackAt
  <1>2. BorrowedBy(u, n) = BorrowedBy(t, n)
    BY <1>0 DEF BorrowedBy
  <1>3. PlannedBy(r, u, n) = PlannedBy(r, t, n)
    BY DEF PlannedBy, LeavesLayer
  <1>4. \A k : FellBackAt(t, k) => FellBackAt(u, k)
    BY DEF FellBackAt
  <1>5. u.budget = t.budget
    BY DEF LeavesLayer
  <1>6. IF FellBackAt(t, n) THEN BorrowedBy(t, n) = {}
        ELSE \/ BorrowedBy(t, n) = PlannedBy(r, t, n)
             \/ /\ BorrowedBy(t, n) = {} /\ t.budget.strict
                /\ \E k \in 1..(n - 1) : FellBackAt(t, k)
    BY DEF TruthBehind
  <1> QED
    BY <1>1, <1>2, <1>3, <1>4, <1>5, <1>6

\* The sum of a step holds results of its own layer only.
LEMMA SumIsOfTheLayer ==
    ASSUME NEW r \in Runs, NEW t \in Thread, NEW u \in Thread, ThreadSound(r, t), Completes(t, u)
    PROVE  \A c \in t.y : c \in Call /\ c.layer = t.layer
  <1>1. CASE t.pc = "layer"
    BY <1>1 DEF ThreadSound, SumsUp, InStep, Awaiting
  <1>2. CASE t.pc = "step"
    <2>1. t.y = Before(r, t, t.pos - 1)
      BY <1>2 DEF ThreadSound, SumsUp
    <2> QED
      BY <2>1 DEF Before, Thread
  <1> QED
    BY <1>1, <1>2 DEF Completes

LEMMA TruthAfterCompleting ==
    ASSUME NEW r \in Runs, NEW t \in Thread, NEW u \in Thread, ThreadSound(r, t), Completes(t, u)
    PROVE  TruthBehind(r, u)
  <1>0. /\ WellFormed(r, t) /\ SumsUp(r, t) /\ TruthBehind(r, t) /\ LeavesLayer(t, u)
        /\ t.layer \in Layers /\ u.layer = t.layer + 1 /\ t.layer \in Nat /\ t.pos \in 1..3
        /\ u.hidden = t.hidden \cup t.y /\ u.fallbacks = t.fallbacks
        /\ u.localOnly = t.localOnly /\ u.budget = t.budget /\ u.plan = t.plan
    BY DEF ThreadSound, Completes, LeavesLayer, Layers, Thread
  <1>1. Len(t.plan[t.layer]) \in 0..2 /\ (t.plan[t.layer] = <<>> => Len(t.plan[t.layer]) = 0)
    BY <1>0, PlanTyped DEF Thread
  \* What the step adds.
  <1>2. \A c \in t.y : c \in Call /\ c.layer = t.layer
    BY SumIsOfTheLayer
  <1>3. /\ \A c \in u.hidden : c.layer < u.layer
        /\ \A f \in u.fallbacks : f.layer < u.layer
    <2>1. \A c \in t.hidden : c \in Call /\ c.layer \in Nat
      BY DEF Thread, Call, Layers
    <2>2. \A f \in t.fallbacks : f.layer \in Nat
      BY DEF Thread, Layers
    <2>3. (\A c \in t.hidden : c.layer < t.layer) /\ (\A f \in t.fallbacks : f.layer < t.layer)
      BY <1>0 DEF TruthBehind
    <2> QED
      BY <1>0, <1>2, <2>1, <2>2, <2>3
  <1>4. u.localOnly <=> u.fallbacks # {} /\ u.budget.strict
    BY <1>0 DEF TruthBehind
  <1>5. IF FellBackAt(u, t.layer) THEN BorrowedBy(u, t.layer) = {}
        ELSE \/ BorrowedBy(u, t.layer) = PlannedBy(r, u, t.layer)
             \/ /\ BorrowedBy(u, t.layer) = {} /\ u.budget.strict
                /\ \E k \in 1..(t.layer - 1) : FellBackAt(u, k)
    <2>1. ~FellBackAt(u, t.layer)
      BY <1>0 DEF FellBackAt, TruthBehind
    <2>2. BorrowedBy(u, t.layer) = t.y
      <3>1. \A c \in t.hidden : c.layer # t.layer
        BY <1>0 DEF TruthBehind
      <3> QED
        BY <1>0, <1>2, <3>1 DEF BorrowedBy
    <2>3. CASE t.pc = "step" /\ t.pos > Len(t.plan[t.layer])
      <3>1. t.pos = Len(t.plan[t.layer]) + 1
        BY <1>0, <1>1, <2>3 DEF WellFormed
      <3>2. t.y = Before(r, t, Len(t.plan[t.layer]))
        BY <1>0, <1>1, <2>3, <3>1 DEF SumsUp
      <3>3. t.y = PlannedBy(r, u, t.layer)
        BY <1>0, <3>2 DEF Before, PlannedBy
      <3> QED
        BY <2>1, <2>2, <3>3
    <2>4. CASE t.pc = "layer" /\ t.localOnly
      <3>1. t.y = {}
        BY <1>0, <2>4 DEF SumsUp, InStep, Awaiting
      <3>2. t.fallbacks # {} /\ t.budget.strict
        BY <1>0, <2>4 DEF TruthBehind
      <3>3. PICK f \in t.fallbacks : TRUE
        BY <3>2
      <3>4. f.layer \in 1..(t.layer - 1)
        <4>1. f.layer \in Nat /\ f.layer >= 1
          BY DEF Thread, Layers
        <4> QED
          BY <1>0, <4>1 DEF TruthBehind
      <3>5. FellBackAt(u, f.layer)
        BY <1>0 DEF FellBackAt
      <3> QED
        BY <1>0, <2>1, <2>2, <3>1, <3>2, <3>4, <3>5
    <2>5. CASE t.pc = "layer" /\ t.plan[t.layer] = <<>>
      <3>1. t.y = {}
        BY <1>0, <2>5 DEF SumsUp, InStep, Awaiting
      <3>2. PlannedBy(r, u, t.layer) = {}
        BY <1>0, <1>1, <2>5 DEF PlannedBy
      <3> QED
        BY <2>1, <2>2, <3>1, <3>2
    <2> QED
      BY <2>3, <2>4, <2>5 DEF Completes
  <1>6. \A n \in 1..(t.layer - 1) :
           IF FellBackAt(u, n) THEN BorrowedBy(u, n) = {}
           ELSE \/ BorrowedBy(u, n) = PlannedBy(r, u, n)
                \/ /\ BorrowedBy(u, n) = {} /\ u.budget.strict
                   /\ \E k \in 1..(n - 1) : FellBackAt(u, k)
    <2>1. u.hidden \ t.hidden \subseteq {c \in Call : c.layer = t.layer} /\ t.hidden \subseteq u.hidden
      BY <1>0, <1>2
    <2> QED
      BY <1>0, <2>1, EarlierLayersKept
  <1>7. \A n \in 1..(u.layer - 1) : n \in 1..(t.layer - 1) \/ n = t.layer
    BY <1>0
  <1> QED
    BY <1>3, <1>4, <1>5, <1>6, <1>7 DEF TruthBehind

LEMMA TruthAfterFallingBack ==
    ASSUME NEW r \in Runs, NEW t \in Thread, NEW u \in Thread, ThreadSound(r, t), FallsBack(t, u)
    PROVE  TruthBehind(r, u)
  <1>0. /\ TruthBehind(r, t) /\ LeavesLayer(t, u)
        /\ t.layer \in Layers /\ u.layer = t.layer + 1 /\ t.layer \in Nat
        /\ u.hidden = t.hidden /\ u.localOnly = (t.localOnly \/ t.budget.strict)
        /\ u.budget = t.budget /\ u.plan = t.plan
    BY DEF ThreadSound, FallsBack, LeavesLayer, Layers
  <1>1. PICK reason \in Reason :
            u.fallbacks = t.fallbacks \cup {[layer |-> t.layer, reason |-> reason]}
    BY DEF FallsBack
  <1>2. /\ t.fallbacks \subseteq u.fallbacks
        /\ \A f \in u.fallbacks : f \in t.fallbacks \/ f.layer = t.layer
        /\ FellBackAt(u, t.layer)
    <2> DEFINE now == [layer |-> t.layer, reason |-> reason]
    <2>1. now.layer = t.layer
      OBVIOUS
    <2> HIDE DEF now
    <2>2. u.fallbacks = t.fallbacks \cup {now}
      BY <1>1 DEF now
    <2>3. now \in u.fallbacks
      BY <2>2
    <2> QED
      BY <2>1, <2>2, <2>3 DEF FellBackAt
  <1>3. /\ \A c \in u.hidden : c.layer < u.layer
        /\ \A f \in u.fallbacks : f.layer < u.layer
    <2>1. \A c \in t.hidden : c.layer \in Nat
      BY DEF Thread, Call, Layers
    <2>2. \A f \in t.fallbacks : f.layer \in Nat
      BY DEF Thread, Layers
    <2>3. (\A c \in t.hidden : c.layer < t.layer) /\ (\A f \in t.fallbacks : f.layer < t.layer)
      BY <1>0 DEF TruthBehind
    <2> QED
      BY <1>0, <1>2, <2>1, <2>2, <2>3
  <1>4. u.localOnly <=> u.fallbacks # {} /\ u.budget.strict
    <2>1. u.fallbacks # {}
      BY <1>1
    <2>2. t.localOnly => t.budget.strict
      BY <1>0 DEF TruthBehind
    <2> QED
      BY <1>0, <2>1, <2>2, Zenon
  <1>5. BorrowedBy(u, t.layer) = {}
    <2>1. \A c \in t.hidden : c.layer # t.layer
      BY <1>0 DEF TruthBehind
    <2> QED
      BY <1>0, <2>1 DEF BorrowedBy
  <1>6. \A n \in 1..(t.layer - 1) :
           IF FellBackAt(u, n) THEN BorrowedBy(u, n) = {}
           ELSE \/ BorrowedBy(u, n) = PlannedBy(r, u, n)
                \/ /\ BorrowedBy(u, n) = {} /\ u.budget.strict
                   /\ \E k \in 1..(n - 1) : FellBackAt(u, k)
    BY <1>0, <1>2, EarlierLayersKept
  <1>7. \A n \in 1..(u.layer - 1) : n \in 1..(t.layer - 1) \/ n = t.layer
    BY <1>0
  <1> QED
    BY <1>2, <1>3, <1>4, <1>5, <1>6, <1>7 DEF TruthBehind

LEMMA TruthKept ==
    ASSUME NEW r \in Runs, NEW t \in Thread, NEW u \in Thread, ThreadSound(r, t), Moves(r, t, u)
    PROVE  TruthBehind(r, u)
  <1>1. CASE Begins(t, u) \/ GetsPlan(t, u)
    <2>1. /\ u.layer = 1 /\ u.fallbacks = {} /\ u.hidden = {} /\ ~u.localOnly
      BY <1>1 DEF Begins, GetsPlan, ThreadSound, WellFormed
    <2> QED
      BY <2>1 DEF TruthBehind
  <1>2. CASE SameRecord(t, u)
    <2>1. TruthBehind(r, t)
      BY DEF ThreadSound
    <2>2. \A n : /\ FellBackAt(u, n) <=> FellBackAt(t, n)
                 /\ BorrowedBy(u, n) = BorrowedBy(t, n)
                 /\ PlannedBy(r, u, n) = PlannedBy(r, t, n)
      BY <1>2 DEF SameRecord, FellBackAt, BorrowedBy, PlannedBy
    <2>3. /\ u.budget = t.budget /\ u.layer = t.layer /\ u.hidden = t.hidden
          /\ u.fallbacks = t.fallbacks /\ u.localOnly = t.localOnly
      BY <1>2 DEF SameRecord
    <2> QED
      BY <2>1, <2>2, <2>3 DEF TruthBehind
  <1>3. CASE Completes(t, u)
    BY <1>3, TruthAfterCompleting
  <1>4. CASE FallsBack(t, u)
    BY <1>4, TruthAfterFallingBack
  <1> QED
    BY <1>1, <1>2, <1>3, <1>4 DEF Moves, Finishes, EntersStep, NextOne, CallsOn, Waits

LEMMA ThreadKept ==
    ASSUME NEW r \in Runs, NEW t \in Thread, NEW u \in Thread, ThreadSound(r, t), Moves(r, t, u)
    PROVE  ThreadSound(r, u)
  <1>1. Quiet(u)
    BY DEF ThreadSound, Quiet, Moves, KeepsNoAnswer
  <1> QED
    BY <1>1, WellFormedKept, SumsKept, TruthKept DEF ThreadSound

-----------------------------------------------------------------------------
(* The helpers of the steps *)

LEMMA FallenBackMoves ==
    ASSUME NEW t \in Thread, NEW reason \in Reason, t.layer \in Layers, t.budget \in Budgets,
           t.pc \in {"layer", "step"} \cup Awaiting,
           t.pc = "layer" => ~t.localOnly /\ t.plan[t.layer] # <<>>
    PROVE  /\ FallenBack(t, reason) \in Thread
           /\ FallsBack(t, FallenBack(t, reason)) /\ FallenBack(t, reason).status = t.status
           /\ FallenBack(t, reason).pc = "layer" /\ FallenBack(t, reason).answer = None
  <1> DEFINE u == FallenBack(t, reason)
             now == [layer |-> t.layer, reason |-> reason]
  <1>1. /\ u.pc = "layer" /\ u.layer = t.layer + 1 /\ u.y = {} /\ u.answer = None
        /\ u.failure = None /\ u.fallbacks = t.fallbacks \cup {now}
        /\ u.localOnly = (t.localOnly \/ t.budget.strict)
        /\ u.budget = t.budget /\ u.mode = t.mode /\ u.plan = t.plan /\ u.fresh = t.fresh
        /\ u.pos = t.pos /\ u.hidden = t.hidden /\ u.status = t.status
    BY DEF FallenBack, LeftToLocals, Thread
  <1>2. u \in Thread
    <2>1. t.layer + 1 \in 1..(NumLayers + 1)
      BY ConstantsAssumption DEF Layers
    <2>2. (t.localOnly \/ t.budget.strict) \in BOOLEAN
      OBVIOUS
    <2>3. t.fallbacks \cup {now} \in SUBSET [layer : Layers, reason : Reason]
      BY DEF Thread
    <2> QED
      BY <2>1, <2>2, <2>3 DEF FallenBack, LeftToLocals, Thread
  <1> HIDE DEF u
  <1>3. FallsBack(t, u)
    BY <1>1 DEF FallsBack, LeavesLayer
  <1> QED
    BY <1>1, <1>2, <1>3 DEF u

LEMMA NextReferenceFacts ==
    ASSUME NEW t \in Thread, t.pos \in 1..2
    PROVE  LET u == NextReference(t)
           IN  /\ u \in Thread
               /\ u.pc = "step" /\ u.pos = t.pos + 1 /\ u.answer = None /\ u.failure = None
               /\ u.y = t.y /\ u.status = t.status /\ SameRecord(t, u)
  <1> DEFINE u == NextReference(t)
  <1>1. /\ u.pc = "step" /\ u.pos = t.pos + 1 /\ u.answer = None /\ u.failure = None
        /\ u.y = t.y /\ u.budget = t.budget /\ u.plan = t.plan /\ u.layer = t.layer
        /\ u.hidden = t.hidden /\ u.fallbacks = t.fallbacks /\ u.localOnly = t.localOnly
        /\ u.mode = t.mode /\ u.status = t.status
    BY DEF NextReference, Thread
  <1>2. u \in Thread
    <2>1. t.pos + 1 \in 1..3
      OBVIOUS
    <2> QED
      BY <2>1 DEF NextReference, Thread
  <1> QED
    BY <1>1, <1>2 DEF SameRecord

LEMMA LayerSummedFacts ==
    ASSUME NEW t \in Thread, t.layer \in Layers, t.pc \in {"layer", "step"}
    PROVE  LET u == LayerSummed(t)
           IN  /\ u \in Thread
               /\ LeavesLayer(t, u) /\ u.answer = t.answer /\ u.hidden = t.hidden \cup t.y
               /\ u.fallbacks = t.fallbacks /\ u.localOnly = t.localOnly /\ u.status = t.status
  <1> DEFINE u == LayerSummed(t)
  <1>1. u \in Thread
    <2>1. t.layer + 1 \in 1..(NumLayers + 1)
      BY ConstantsAssumption DEF Layers
    <2>2. t.hidden \cup t.y \in SUBSET Call
      BY DEF Thread
    <2> QED
      BY <2>1, <2>2 DEF Thread, LayerSummed
  <1>2. /\ u.pc = "layer" /\ u.layer = t.layer + 1 /\ u.y = {} /\ u.hidden = t.hidden \cup t.y
        /\ u.fallbacks = t.fallbacks /\ u.localOnly = t.localOnly /\ u.answer = t.answer
        /\ u.budget = t.budget /\ u.mode = t.mode /\ u.plan = t.plan /\ u.status = t.status
    BY DEF Thread, LayerSummed
  <1> QED
    BY <1>1, <1>2 DEF LeavesLayer

-----------------------------------------------------------------------------
(* What every step of a thread does, leases included *)

\* Requests are sent for the call at hand, under the lease its op wants.
SendsFor(r) ==
    \A m \in sent' \ sent :
        /\ m \in Request /\ m.call = CallAt(r, run[r]) /\ m.leased = run[r].budget.leases
        /\ InStep(run[r]) /\ run'[r].pc \in Awaiting
        /\ run'[r].layer = run[r].layer /\ run'[r].pos = run[r].pos
        /\ m.op # "Forward" => m.leased
        /\ m.op = "Lease" => run'[r].pc = "leasing" /\ run'[r].answer = None

\* A call is left when it was answered, or it is counted as unanswered.
GivenUp(r) == CallAt(r, run[r]) \in unanswered' /\ run'[r].pc \notin Awaiting
Settles(r) ==
    /\ run[r].pc = "leasing" =>
           \/ run[r].answer # None /\ (run[r].answer = "ok" => run'[r].pc = "forwarding")
           \/ GivenUp(r)
           \/ run'[r].pc = "leasing" /\ run'[r].answer = run[r].answer
    /\ run[r].pc = "forwarding" /\ run[r].budget.leases =>
           run'[r].pc = "forwarding" \/ (run'[r].pc = "releasing" /\ run'[r].answer = None)
    /\ run[r].pc = "releasing" =>
           \/ run[r].answer # None
           \/ GivenUp(r)
           \/ run'[r].pc = "releasing" /\ run'[r].answer = run[r].answer

Advances(r) ==
    /\ run'[r] \in Thread /\ Moves(r, run[r], run'[r])
    /\ run' = [run EXCEPT ![r] = run'[r]]
    /\ live' = live /\ connected' \in SUBSET Peers
    /\ unanswered \subseteq unanswered' /\ unanswered' \in SUBSET Call
    /\ sent \subseteq sent' /\ SendsFor(r) /\ Settles(r)

AllSound == \A r \in Runs : ThreadSound(r, run[r])

LEMMA AdvancesQuietly ==
    ASSUME TypeOK, NEW r \in Runs, NEW u \in Thread, run' = [run EXCEPT ![r] = u],
           Moves(r, run[r], u), run[r].pc \notin Awaiting,
           UNCHANGED <<live, sent, unanswered>>, connected' \in SUBSET Peers
    PROVE  Advances(r)
  <1>1. run'[r] = u
    BY DEF TypeOK
  <1>2. SendsFor(r)
    BY DEF SendsFor
  <1>3. Settles(r)
    BY DEF Settles, Awaiting
  <1> QED
    BY <1>1, <1>2, <1>3 DEF Advances, TypeOK

LEMMA DeniedAdvances ==
    ASSUME TypeOK, AllSound, NEW r \in Runs, RunStepDenied(r)
    PROVE  Advances(r)
  <1> DEFINE t == run[r]
             u == [t EXCEPT !.pc = "done", !.status = "PERMISSION_DENIED"]
  <1>1. t \in Thread /\ t.pc = "waiting"
    BY DEF TypeOK, RunStepDenied
  <1>2. u \in Thread
    BY <1>1 DEF Thread
  <1>3. /\ u.pc = "done" /\ SameRecord(t, u) /\ u.y = t.y /\ u.answer = t.answer
        /\ u.status = "PERMISSION_DENIED"
    BY <1>1 DEF Thread, SameRecord
  <1>4. run' = [run EXCEPT ![r] = u]
    BY DEF TypeOK, RunStepDenied
  <1> HIDE DEF u
  <1>5. Moves(r, t, u)
    BY <1>1, <1>3 DEF Moves, Finishes, KeepsNoAnswer, Awaiting
  <1>6. UNCHANGED <<live, sent, unanswered>> /\ connected' \in SUBSET Peers
    BY DEF RunStepDenied, TypeOK
  <1> QED
    BY <1>1, <1>2, <1>4, <1>5, <1>6, AdvancesQuietly DEF Awaiting

LEMMA RunStepAdvances ==
    ASSUME TypeOK, AllSound, NEW r \in Runs, NEW budget \in Budgets, NEW mode \in Modes,
           RunStep(r, budget, mode)
    PROVE  Advances(r)
  <1> DEFINE t == run[r]
             next == IF mode = "local" THEN "layer" ELSE "proposing"
             u == [t EXCEPT !.pc = next, !.budget = budget, !.mode = mode]
  <1>1. t \in Thread /\ t.pc = "waiting"
    BY DEF TypeOK, RunStep
  <1>2. next \in {"layer", "proposing"}
    OBVIOUS
  <1>3. run' = [run EXCEPT ![r] = u]
    BY DEF TypeOK, RunStep
  <1> HIDE DEF next
  <1>4. u \in Thread
    BY <1>1, <1>2 DEF Thread
  <1>5. /\ u.pc = next /\ u.budget = budget /\ u.layer = t.layer /\ u.y = t.y
        /\ u.hidden = t.hidden /\ u.fallbacks = t.fallbacks /\ u.localOnly = t.localOnly
        /\ u.answer = t.answer /\ u.mode = mode /\ u.plan = t.plan /\ u.status = t.status
    BY <1>1 DEF Thread
  <1>a. next = "layer" => mode # "learned"
    BY DEF next
  <1> HIDE DEF u
  <1>6. Moves(r, t, u)
    BY <1>1, <1>2, <1>5, <1>a DEF Moves, Begins, KeepsNoAnswer, Awaiting
  <1>7. UNCHANGED <<live, sent, unanswered>> /\ connected' \in SUBSET Peers
    BY DEF RunStep, TypeOK
  <1> QED
    BY <1>1, <1>3, <1>4, <1>6, <1>7, AdvancesQuietly DEF Awaiting

LEMMA RouterAnswersAdvances ==
    ASSUME TypeOK, AllSound, NEW r \in Runs, NEW plan \in Plans \cup {LocalPlan},
           RouterAnswers(r, plan)
    PROVE  Advances(r)
  <1> DEFINE t == run[r]
             u == [t EXCEPT !.pc = "layer", !.plan = plan]
  <1>1. t \in Thread /\ t.pc = "proposing"
    BY DEF TypeOK, RouterAnswers
  <1>2. u \in Thread
    BY <1>1 DEF Thread
  <1>3. /\ u.pc = "layer" /\ u.budget = t.budget /\ u.layer = t.layer /\ u.y = t.y
        /\ u.hidden = t.hidden /\ u.fallbacks = t.fallbacks /\ u.localOnly = t.localOnly
        /\ u.answer = t.answer /\ u.mode = t.mode /\ u.status = t.status
    BY <1>1 DEF Thread
  <1>4. run' = [run EXCEPT ![r] = u]
    BY DEF TypeOK, RouterAnswers
  <1> HIDE DEF u
  <1>5. Moves(r, t, u)
    BY <1>1, <1>3 DEF Moves, GetsPlan, KeepsNoAnswer, Awaiting
  <1>6. UNCHANGED <<live, sent, unanswered>> /\ connected' \in SUBSET Peers
    BY DEF RouterAnswers, TypeOK
  <1> QED
    BY <1>1, <1>2, <1>4, <1>5, <1>6, AdvancesQuietly DEF Awaiting

\* The run is over: without a router, or reported, or with nothing to report.
LEMMA FinishAdvances ==
    ASSUME TypeOK, AllSound, NEW r \in Runs,
           RouterFails(r) \/ RunStepEnds(r) \/ LearnerAnswers(r) \/ LearnerFails(r)
    PROVE  Advances(r)
  <1> DEFINE t == run[r]
  <1>1. t \in Thread
    BY DEF TypeOK
  <1>2. UNCHANGED <<live, sent, unanswered>> /\ connected' \in SUBSET Peers
    BY DEF RouterFails, RunStepEnds, LearnerAnswers, LearnerFails, TypeOK
  <1> DEFINE MayEnd(status) ==
                 \/ t.pc = "proposing" /\ status = "NO_ROUTER"
                 \/ t.pc = "layer" /\ t.layer = NumLayers + 1 /\ status = "OK"
                 \/ t.pc = "reporting" /\ status \in {"OK", "NO_LEARNER"}
             MayReport == t.pc = "layer" /\ t.layer = NumLayers + 1 /\ t.mode = "learned"
  <1>3. t.pc \in {"proposing", "layer", "reporting"}
    BY DEF RouterFails, RunStepEnds, LearnerAnswers, LearnerFails
  <1>4. \A status \in {"OK", "NO_ROUTER", "NO_LEARNER"} :
            run' = [run EXCEPT ![r] = [t EXCEPT !.pc = "done", !.status = status]] /\ MayEnd(status)
            => Advances(r)
    <2> TAKE status \in {"OK", "NO_ROUTER", "NO_LEARNER"}
    <2> DEFINE u == [t EXCEPT !.pc = "done", !.status = status]
    <2> HAVE run' = [run EXCEPT ![r] = u] /\ MayEnd(status)
    <2>1. u \in Thread
      BY <1>1 DEF Thread
    <2>2. u.pc = "done" /\ SameRecord(t, u) /\ u.y = t.y /\ u.answer = t.answer /\ u.status = status
      BY <1>1 DEF Thread, SameRecord
    <2> HIDE DEF u
    <2>3. Moves(r, t, u)
      BY <1>3, <2>2 DEF Moves, Finishes, KeepsNoAnswer, Awaiting
    <2> QED
      BY <1>2, <1>3, <2>1, <2>3, AdvancesQuietly DEF Awaiting
  <1>5. run' = [run EXCEPT ![r] = [t EXCEPT !.pc = "reporting"]] /\ MayReport => Advances(r)
    <2> DEFINE u == [t EXCEPT !.pc = "reporting"]
    <2> HAVE run' = [run EXCEPT ![r] = u] /\ MayReport
    <2>1. u \in Thread
      BY <1>1 DEF Thread
    <2>2. /\ u.pc = "reporting" /\ SameRecord(t, u) /\ u.y = t.y /\ u.answer = t.answer
          /\ u.status = t.status
      BY <1>1 DEF Thread, SameRecord
    <2> HIDE DEF u
    <2>3. Moves(r, t, u)
      BY <1>3, <2>2 DEF Moves, Finishes, KeepsNoAnswer, Awaiting
    <2> QED
      BY <1>2, <1>3, <2>1, <2>3, AdvancesQuietly DEF Awaiting
  <1>6. \/ \E status \in {"OK", "NO_ROUTER", "NO_LEARNER"} :
               /\ run' = [run EXCEPT ![r] = [t EXCEPT !.pc = "done", !.status = status]]
               /\ MayEnd(status)
        \/ run' = [run EXCEPT ![r] = [t EXCEPT !.pc = "reporting"]] /\ MayReport
    <2>1. CASE RouterFails(r)
      BY <2>1 DEF RouterFails, TypeOK
    <2>2. CASE RunStepEnds(r)
      <3>1. t.pc = "layer" /\ t.layer = NumLayers + 1
        <4>1. t.layer \in 1..(NumLayers + 1) /\ ~(t.layer <= NumLayers) /\ t.pc = "layer"
          BY <1>1, <2>2 DEF RunStepEnds, HasLayers, Thread
        <4> QED
          BY <4>1, ConstantsAssumption
      <3> QED
        BY <2>2, <3>1 DEF RunStepEnds, TypeOK
    <2>3. CASE LearnerAnswers(r)
      BY <2>3 DEF LearnerAnswers, TypeOK
    <2>4. CASE LearnerFails(r)
      BY <2>4 DEF LearnerFails, TypeOK
    <2> QED
      BY <2>1, <2>2, <2>3, <2>4
  <1> HIDE DEF MayEnd, MayReport
  <1> QED
    BY <1>4, <1>5, <1>6

LEMMA ExpiryAdvances ==
    ASSUME TypeOK, AllSound, NEW r \in Runs, PlanExpires(r)
    PROVE  Advances(r)
  <1> DEFINE t == run[r]
             u == [t EXCEPT !.fresh = FALSE]
  <1>1. t \in Thread /\ t.pc \notin {"waiting", "proposing", "done"}
    BY DEF TypeOK, PlanExpires
  <1>2. u \in Thread
    BY <1>1 DEF Thread
  <1>3. /\ u.pc = t.pc /\ u.answer = t.answer /\ u.y = t.y /\ u.pos = t.pos
        /\ u.failure = t.failure /\ u.status = t.status /\ SameRecord(t, u)
    BY <1>1 DEF Thread, SameRecord
  <1>4. run' = [run EXCEPT ![r] = u]
    BY DEF TypeOK, PlanExpires
  <1>5. run'[r] = u
    BY <1>4 DEF TypeOK
  <1>6. UNCHANGED <<live, connected, sent, unanswered>>
    BY DEF PlanExpires
  <1> HIDE DEF u
  <1>7. Moves(r, t, u)
    BY <1>1, <1>3 DEF Moves, Waits, KeepsNoAnswer
  <1>8. Settles(r)
    BY <1>3, <1>5 DEF Settles
  <1>9. SendsFor(r)
    BY <1>6 DEF SendsFor
  <1> QED
    BY <1>2, <1>4, <1>5, <1>6, <1>7, <1>8, <1>9 DEF Advances, TypeOK

LEMMA LayerStartAdvances ==
    ASSUME TypeOK, AllSound, NEW r \in Runs, LayerStarts(r)
    PROVE  Advances(r)
  <1> DEFINE t == run[r]
  <1>1. t \in Thread /\ t.pc = "layer" /\ t.layer \in Layers /\ t.budget \in Budgets
    <2>1. t \in Thread /\ t.pc = "layer" /\ t.layer <= NumLayers
      BY DEF TypeOK, LayerStarts, HasLayers
    <2>2. t.layer \in 1..(NumLayers + 1)
      BY <2>1 DEF Thread
    <2>3. t.budget \in Budgets
      BY <2>1 DEF AllSound, ThreadSound, WellFormed
    <2> QED
      BY <2>1, <2>2, <2>3, ConstantsAssumption DEF Layers
  <1>2. UNCHANGED <<live, sent, unanswered>> /\ connected' \in SUBSET Peers
    BY DEF LayerStarts, TypeOK
  <1>4. CASE t.localOnly \/ t.plan[t.layer] = <<>>
    <2> DEFINE u == LayerSummed(t)
    <2>1. run' = [run EXCEPT ![r] = u]
      BY <1>4, Zenon DEF LayerStarts
    <2>2. u \in Thread /\ LeavesLayer(t, u) /\ u.answer = t.answer /\ u.hidden = t.hidden \cup t.y
          /\ u.fallbacks = t.fallbacks /\ u.localOnly = t.localOnly /\ u.status = t.status
      BY <1>1, LayerSummedFacts
    <2>3. u.pc = "layer"
      BY <2>2 DEF LeavesLayer
    <2> HIDE DEF u
    <2>4. Completes(t, u)
      BY <1>1, <1>4, <2>2 DEF Completes
    <2>5. Moves(r, t, u)
      BY <1>1, <2>2, <2>3, <2>4 DEF Moves, KeepsNoAnswer, Awaiting
    <2> QED
      BY <1>1, <1>2, <2>1, <2>2, <2>5, AdvancesQuietly DEF Awaiting
  <1>5. CASE ~(t.localOnly \/ t.plan[t.layer] = <<>>) /\ ~t.fresh
    <2> DEFINE u == FallenBack(t, "PLAN_EXPIRED")
    <2>1. run' = [run EXCEPT ![r] = u]
      BY <1>5, Zenon DEF LayerStarts
    <2>2. /\ u \in Thread /\ FallsBack(t, u) /\ u.pc = "layer" /\ u.answer = None
          /\ u.status = t.status
      <3>1. "PLAN_EXPIRED" \in Reason
        BY DEF Reason
      <3> QED
        BY <1>1, <1>5, <3>1, FallenBackMoves
    <2> HIDE DEF u
    <2>3. Moves(r, t, u)
      BY <2>2 DEF Moves, KeepsNoAnswer
    <2> QED
      BY <1>1, <1>2, <2>1, <2>2, <2>3, AdvancesQuietly DEF Awaiting
  <1>6. CASE ~(t.localOnly \/ t.plan[t.layer] = <<>>) /\ t.fresh
    <2> DEFINE u == StepEntered(t)
    <2>1. run' = [run EXCEPT ![r] = u]
      BY <1>6, Zenon DEF LayerStarts
    <2>2. u \in Thread
      <3>1. 1 \in 1..3
        OBVIOUS
      <3> QED
        BY <1>1, <3>1, Zenon DEF Thread, StepEntered
    <2>3. /\ u.pc = "step" /\ u.pos = 1 /\ u.y = t.y /\ u.answer = t.answer
          /\ u.status = t.status /\ SameRecord(t, u)
      BY <1>1 DEF Thread, SameRecord, StepEntered
    <2> HIDE DEF u
    <2>4. Moves(r, t, u)
      BY <1>1, <1>6, <2>3 DEF Moves, EntersStep, KeepsNoAnswer, Awaiting
    <2> QED
      BY <1>1, <1>2, <2>1, <2>2, <2>4, AdvancesQuietly DEF Awaiting
  <1> QED
    BY <1>4, <1>5, <1>6

\* Inside a step the layer is one of the plan's, and the budget is known.
LEMMA InStepFacts ==
    ASSUME TypeOK, AllSound, NEW r \in Runs, InStep(run[r])
    PROVE  /\ run[r] \in Thread /\ run[r].layer \in Layers /\ run[r].budget \in Budgets
           /\ Len(run[r].plan[run[r].layer]) \in 0..2
           /\ run[r].pos \in 1..3
           /\ run[r].pc \in Awaiting => run[r].pos \in 1..2
  <1>1. run[r] \in Thread /\ WellFormed(r, run[r])
    BY DEF TypeOK, AllSound, ThreadSound
  <1>2. run[r].layer \in Layers /\ run[r].budget \in Budgets
    BY <1>1 DEF WellFormed, InStep, Awaiting
  <1>3. Len(run[r].plan[run[r].layer]) \in 0..2 /\ run[r].pos \in 1..3
    BY <1>1, <1>2, PlanTyped DEF Thread
  <1>a. \A a \in 1..3, b \in 0..2 : a <= b => a \in 1..2
    OBVIOUS
  <1>4. ASSUME run[r].pc \in Awaiting PROVE run[r].pos \in 1..2
    <2>1. run[r].pos <= Len(run[r].plan[run[r].layer])
      BY <1>1, <1>4 DEF WellFormed
    <2> QED
      BY <1>a, <1>3, <2>1, Zenon
  <1> QED
    BY <1>1, <1>2, <1>3, <1>4

LEMMA StepEndAdvances ==
    ASSUME TypeOK, AllSound, NEW r \in Runs, StepEnds(r)
    PROVE  Advances(r)
  <1> DEFINE t == run[r]
             u == LayerSummed(t)
  <1>1. t \in Thread /\ t.pc = "step" /\ t.layer \in Layers /\ t.pos > Len(t.plan[t.layer])
    BY InStepFacts DEF StepEnds, InStep
  <1>2. run' = [run EXCEPT ![r] = u]
    BY Zenon DEF StepEnds
  <1>3. /\ u \in Thread /\ LeavesLayer(t, u) /\ u.answer = t.answer /\ u.hidden = t.hidden \cup t.y
        /\ u.fallbacks = t.fallbacks /\ u.localOnly = t.localOnly /\ u.status = t.status
    BY <1>1, LayerSummedFacts
  <1>5. UNCHANGED <<live, sent, unanswered>> /\ connected' \in SUBSET Peers
    BY DEF StepEnds, TypeOK
  <1> HIDE DEF u
  <1>6. Completes(t, u)
    BY <1>1, <1>3 DEF Completes
  <1>7. Moves(r, t, u)
    BY <1>1, <1>3, <1>6 DEF Moves, KeepsNoAnswer, Awaiting
  <1> QED
    BY <1>1, <1>2, <1>3, <1>5, <1>7, AdvancesQuietly DEF Awaiting

LEMMA CallTyped ==
    ASSUME TypeOK, AllSound, NEW r \in Runs, InStep(run[r]),
           run[r].pos <= Len(run[r].plan[run[r].layer])
    PROVE  CallAt(r, run[r]) \in Call
  <1>1. \A a \in 1..3, b \in 0..2 : a <= b => a \in Positions
    BY DEF Positions
  <1>2. run[r].pos \in Positions /\ run[r].layer \in Layers
    BY <1>1, InStepFacts
  <1> QED
    BY <1>2 DEF CallAt, Call

LEMMA SendFacts ==
    ASSUME TypeOK, AllSound, NEW r \in Runs, InStep(run[r]),
           run[r].pos <= Len(run[r].plan[run[r].layer]),
           NEW op \in {"Lease", "Forward", "Release"}, Send(r, op),
           run'[r].pc \in Awaiting, run'[r].layer = run[r].layer, run'[r].pos = run[r].pos,
           op # "Forward" => run[r].budget.leases,
           op = "Lease" => run'[r].pc = "leasing" /\ run'[r].answer = None
    PROVE  SendsFor(r) /\ sent \subseteq sent'
  <1> DEFINE new == [op |-> op, call |-> CallAt(r, run[r]), leased |-> run[r].budget.leases]
  <1>1. sent' = sent \cup {new}
    BY DEF Send, ThisCall, CallAt
  <1>2. run[r].budget.leases \in BOOLEAN
    BY InStepFacts, ConstantsAssumption
  <1>3. CallAt(r, run[r]) \in Call
    BY CallTyped
  <1>4. new \in Request
    BY <1>2, <1>3 DEF Request
  <1>5. new.op = op /\ new.call = CallAt(r, run[r]) /\ new.leased = run[r].budget.leases
    OBVIOUS
  <1> HIDE DEF new
  <1>6. \A m \in sent' \ sent : m = new
    BY <1>1
  <1> QED
    BY <1>1, <1>4, <1>5, <1>6 DEF SendsFor

LEMMA NothingSent ==
    ASSUME NEW r \in Runs, sent' = sent
    PROVE  SendsFor(r) /\ sent \subseteq sent'
  BY DEF SendsFor

LEMMA BorrowAdvances ==
    ASSUME TypeOK, AllSound, NEW r \in Runs, Borrow(r)
    PROVE  Advances(r)
  <1> DEFINE t == run[r]
  <1>1. /\ t \in Thread /\ t.pc = "step" /\ InStep(t) /\ t.pos <= Len(t.plan[t.layer])
        /\ t.layer \in Layers /\ t.budget \in Budgets
    <2>1. t.pc = "step" /\ InStep(t) /\ t.pos <= Len(t.plan[t.layer])
      BY DEF Borrow, InStep
    <2> QED
      BY <2>1, InStepFacts
  <1>2. t.answer = None
    BY <1>1 DEF AllSound, ThreadSound, Quiet, Awaiting
  <1>3. live' = live /\ connected' \in SUBSET Peers /\ unanswered' = unanswered
    BY DEF Borrow, TypeOK
  <1>4. Settles(r)
    BY <1>1 DEF Settles
  <1>5. CASE run' = [run EXCEPT ![r] = FallenBack(t, "UNAVAILABLE")] /\ sent' = sent
    <2> DEFINE u == FallenBack(t, "UNAVAILABLE")
    <2>1. /\ u \in Thread /\ FallsBack(t, u) /\ u.pc = "layer" /\ u.answer = None
          /\ u.status = t.status
      <3>1. "UNAVAILABLE" \in Reason
        BY DEF Reason
      <3> QED
        BY <1>1, <3>1, FallenBackMoves
    <2> HIDE DEF u
    <2>2. Moves(r, t, u)
      BY <2>1 DEF Moves, KeepsNoAnswer
    <2>3. UNCHANGED <<live, sent, unanswered>> /\ run' = [run EXCEPT ![r] = u]
      BY <1>3, <1>5 DEF u
    <2> QED
      BY <1>1, <1>3, <2>1, <2>2, <2>3, AdvancesQuietly DEF Awaiting
  <1>6. ASSUME NEW pc \in {"leasing", "forwarding"}, NEW op \in {"Lease", "Forward"},
               run' = [run EXCEPT ![r].pc = pc], Send(r, op),
               pc = "leasing" <=> op = "Lease", pc = "leasing" <=> t.budget.leases
        PROVE  Advances(r)
    <2> DEFINE u == [t EXCEPT !.pc = pc]
    <2>1. run' = [run EXCEPT ![r] = u]
      BY <1>6, Zenon
    <2>2. u \in Thread
      BY <1>1 DEF Thread, Awaiting
    <2>3. /\ u.pc = pc /\ u.y = t.y /\ u.pos = t.pos /\ u.layer = t.layer /\ u.answer = t.answer
          /\ u.status = t.status /\ SameRecord(t, u)
      BY <1>1 DEF Thread, SameRecord
    <2>4. run'[r] = u
      BY <2>1 DEF TypeOK
    <2> HIDE DEF u
    <2>5. Moves(r, t, u)
      BY <1>1, <1>6, <2>3 DEF Moves, CallsOn, KeepsNoAnswer, Awaiting
    <2>6. SendsFor(r) /\ sent \subseteq sent'
      BY <1>1, <1>2, <1>6, <2>3, <2>4, SendFacts DEF Awaiting
    <2> QED
      BY <1>3, <1>4, <2>1, <2>2, <2>4, <2>5, <2>6 DEF Advances, TypeOK
  <1> QED
    BY <1>5, <1>6 DEF Borrow

LEMMA AwaitingFacts ==
    ASSUME TypeOK, AllSound, NEW r \in Runs, run[r].pc \in Awaiting
    PROVE  /\ run[r] \in Thread /\ InStep(run[r])
           /\ run[r].pos <= Len(run[r].plan[run[r].layer]) /\ run[r].pos \in 1..2
           /\ run[r].layer \in Layers /\ run[r].budget \in Budgets
           /\ CallAt(r, run[r]) \in Call
  <1>1. InStep(run[r])
    BY DEF InStep
  <1>2. run[r].pos <= Len(run[r].plan[run[r].layer])
    BY DEF AllSound, ThreadSound, WellFormed
  <1> QED
    BY <1>1, <1>2, InStepFacts, CallTyped

\* Awaiting steps that fall back.
LEMMA FallBackAdvances ==
    ASSUME TypeOK, AllSound, NEW r \in Runs, NEW reason \in Reason, run[r].pc \in Awaiting,
           run' = [run EXCEPT ![r] = FallenBack(run[r], reason)], sent' = sent,
           UNCHANGED <<live, connected>>, unanswered \subseteq unanswered',
           unanswered' \in SUBSET Call,
           \/ run[r].pc = "forwarding" /\ ~run[r].budget.leases
           \/ run[r].pc # "forwarding" /\ CallAt(r, run[r]) \in unanswered'
           \/ run[r].pc = "leasing" /\ run[r].answer \notin {None, "ok"}
           \/ run[r].pc = "releasing" /\ run[r].answer # None
    PROVE  Advances(r)
  <1> DEFINE t == run[r]
             u == FallenBack(t, reason)
  <1>1. t \in Thread /\ t.layer \in Layers /\ t.budget \in Budgets
    BY AwaitingFacts
  <1>2. u \in Thread /\ FallsBack(t, u) /\ u.pc = "layer" /\ u.answer = None /\ u.status = t.status
    BY <1>1, FallenBackMoves DEF Awaiting
  <1>3. run' = [run EXCEPT ![r] = u] /\ run'[r] = u
    BY DEF TypeOK
  <1> HIDE DEF u
  <1>4. Moves(r, t, u)
    BY <1>2 DEF Moves, KeepsNoAnswer
  <1>5. Settles(r)
    <2>1. CASE run[r].pc = "forwarding" /\ ~run[r].budget.leases
      BY <2>1 DEF Settles
    <2>2. CASE run[r].pc # "forwarding" /\ CallAt(r, run[r]) \in unanswered'
      <3>1. GivenUp(r)
        BY <1>2, <1>3, <2>2 DEF GivenUp, Awaiting
      <3> QED
        BY <2>2, <3>1 DEF Settles
    <2>3. CASE run[r].pc = "leasing" /\ run[r].answer \notin {None, "ok"}
      BY <2>3 DEF Settles
    <2>4. CASE run[r].pc = "releasing" /\ run[r].answer # None
      BY <2>4 DEF Settles
    <2> QED
      BY <2>1, <2>2, <2>3, <2>4
  <1> QED
    BY <1>1, <1>2, <1>3, <1>4, <1>5, NothingSent DEF Advances, TypeOK

LEMMA LeaseAnswerAdvances ==
    ASSUME TypeOK, AllSound, NEW r \in Runs, LeaseAnswered(r)
    PROVE  Advances(r)
  <1> DEFINE t == run[r]
  <1>1. t.pc = "leasing" /\ t.pc \in Awaiting
    BY DEF LeaseAnswered, Awaiting
  <1>2. /\ t \in Thread /\ InStep(t) /\ t.pos <= Len(t.plan[t.layer])
        /\ t.layer \in Layers /\ t.budget \in Budgets
    BY <1>1, AwaitingFacts
  <1>3. UNCHANGED <<live, connected, unanswered>>
    BY DEF LeaseAnswered
  <1>4. CASE t.answer = "ok" /\ run' = [run EXCEPT ![r].pc = "forwarding", ![r].answer = None]
             /\ Send(r, "Forward")
    <2> DEFINE u == [t EXCEPT !.pc = "forwarding", !.answer = None]
    <2>1. run' = [run EXCEPT ![r] = u]
      BY <1>4 DEF TypeOK
    <2>2. u \in Thread
      BY <1>2 DEF Thread, Awaiting
    <2>3. /\ u.pc = "forwarding" /\ u.y = t.y /\ u.pos = t.pos /\ u.layer = t.layer
          /\ u.status = t.status /\ SameRecord(t, u)
      BY <1>2 DEF Thread, SameRecord
    <2>4. run'[r] = u
      BY <2>1 DEF TypeOK
    <2> HIDE DEF u
    <2>5. Moves(r, t, u)
      BY <1>1, <2>3 DEF Moves, CallsOn, KeepsNoAnswer, Awaiting
    <2>6. SendsFor(r) /\ sent \subseteq sent'
      BY <1>2, <1>4, <2>3, <2>4, SendFacts DEF Awaiting
    <2>7. t.answer # None
      BY <1>4, ConstantsAssumption
    <2>8. Settles(r)
      BY <1>1, <2>3, <2>4, <2>7 DEF Settles
    <2> QED
      BY <1>3, <2>1, <2>2, <2>4, <2>5, <2>6, <2>8 DEF Advances, TypeOK
  <1>5. CASE t.answer = "refused" /\ run' = [run EXCEPT ![r] = FallenBack(t, "REFUSED")]
             /\ sent' = sent
    <2>1. "REFUSED" \in Reason
      BY DEF Reason
    <2>2. t.answer \notin {None, "ok"}
      BY <1>5, ConstantsAssumption
    <2>3. unanswered' \in SUBSET Call
      BY <1>3 DEF TypeOK
    <2> QED
      BY <1>1, <1>3, <1>5, <2>1, <2>2, <2>3, FallBackAdvances
  <1> QED
    BY <1>4, <1>5 DEF LeaseAnswered

\* The forward is over: give the lease back, or go on, or fall back.
LEMMA AfterForwardAdvances ==
    ASSUME TypeOK, AllSound, NEW r \in Runs, run[r].pc = "forwarding",
           NEW failure \in Reason \cup {None}, NEW t \in Thread,
           \/ t = run[r] /\ failure # None
           \/ t = [run[r] EXCEPT !.y = run[r].y \cup {ThisCall(r)}] /\ failure = None,
           AfterForward(r, t, failure), UNCHANGED <<live, connected, unanswered>>
    PROVE  Advances(r)
  <1> DEFINE now == run[r]
  <1>1. /\ now \in Thread /\ now.pc = "forwarding" /\ InStep(now) /\ now.pos <= Len(now.plan[now.layer])
        /\ now.layer \in Layers /\ now.budget \in Budgets /\ now.pos \in 1..2 /\ now.pc \in Awaiting
    <2>1. now.pc = "forwarding" /\ now.pc \in Awaiting
      BY DEF Awaiting
    <2> QED
      BY <2>1, AwaitingFacts
  <1>2. /\ SameRecord(now, t) /\ t.pos = now.pos /\ t.pc = now.pc /\ t.status = now.status
        /\ t.y = now.y \cup {CallAt(r, now)} \/ failure # None
    <2>1. CASE t = now /\ failure # None
      BY <2>1 DEF SameRecord
    <2>2. CASE t = [now EXCEPT !.y = now.y \cup {ThisCall(r)}] /\ failure = None
      <3>1. CallAt(r, now) = ThisCall(r)
        BY DEF CallAt, ThisCall
      <3> QED
        BY <1>1, <2>2, <3>1 DEF SameRecord, Thread
    <2> QED
      BY <2>1, <2>2
  <1>3. t.budget = now.budget
    BY <1>2 DEF SameRecord
  <1>4. UNCHANGED <<live, connected, unanswered>> /\ unanswered' \in SUBSET Call
    BY DEF TypeOK
  <1>5. CASE t.budget.leases
    <2> DEFINE u == [t EXCEPT !.pc = "releasing", !.answer = None, !.failure = failure]
    <2>1. run' = [run EXCEPT ![r] = u] /\ Send(r, "Release")
      BY <1>5 DEF AfterForward
    <2>2. u \in Thread
      BY DEF Thread, Awaiting
    <2>3. /\ u.pc = "releasing" /\ u.answer = None /\ u.failure = failure
          /\ u.y = t.y /\ u.pos = t.pos /\ u.status = t.status /\ SameRecord(t, u)
      BY DEF Thread, SameRecord
    <2>4. run'[r] = u
      BY <2>1 DEF TypeOK
    <2> HIDE DEF u
    <2>5. SameRecord(now, u) /\ u.pos = now.pos /\ u.layer = now.layer /\ now.budget.leases
      BY <1>2, <1>3, <1>5, <2>3 DEF SameRecord
    <2>6. CallsOn(r, now, u)
      BY <1>1, <1>2, <2>3, <2>5 DEF CallsOn
    <2>7. Moves(r, now, u)
      BY <1>2, <2>3, <2>6 DEF Moves, KeepsNoAnswer, Awaiting
    <2>8. SendsFor(r) /\ sent \subseteq sent'
      BY <1>1, <2>1, <2>3, <2>4, <2>5, SendFacts DEF Awaiting
    <2>9. Settles(r)
      BY <1>1, <2>3, <2>4 DEF Settles
    <2> QED
      BY <1>4, <2>1, <2>2, <2>4, <2>7, <2>8, <2>9 DEF Advances, TypeOK
  <1>6. CASE ~t.budget.leases /\ failure = None
    <2> DEFINE u == NextReference(t)
    <2>1. run' = [run EXCEPT ![r] = u] /\ sent' = sent
      BY <1>6 DEF AfterForward
    <2>2. /\ u \in Thread /\ u.pc = "step" /\ u.pos = t.pos + 1 /\ u.answer = None
          /\ u.y = t.y /\ u.status = t.status /\ SameRecord(t, u)
      BY <1>1, <1>2, NextReferenceFacts
    <2>3. run'[r] = u
      BY <2>1 DEF TypeOK
    <2> HIDE DEF u
    <2>4. SameRecord(now, u)
      BY <1>2, <2>2 DEF SameRecord
    <2>5. NextOne(r, now, u)
      BY <1>1, <1>2, <1>3, <1>6, <2>2, <2>4 DEF NextOne
    <2>6. Moves(r, now, u)
      BY <1>2, <2>2, <2>5 DEF Moves, KeepsNoAnswer
    <2>7. Settles(r)
      BY <1>1, <1>3, <1>6 DEF Settles
    <2> QED
      BY <1>4, <2>1, <2>2, <2>3, <2>6, <2>7, NothingSent DEF Advances, TypeOK
  <1>7. CASE ~t.budget.leases /\ failure # None
    <2>1. t = now
      BY <1>7
    <2>2. run' = [run EXCEPT ![r] = FallenBack(now, failure)] /\ sent' = sent
      BY <1>7, <2>1 DEF AfterForward
    <2> QED
      BY <1>1, <1>4, <1>7, <2>1, <2>2, FallBackAdvances
  <1> QED
    BY <1>5, <1>6, <1>7

LEMMA ForwardAnswerAdvances ==
    ASSUME TypeOK, AllSound, NEW r \in Runs, ForwardAnswered(r)
    PROVE  Advances(r)
  <1>1. run[r].pc = "forwarding" /\ UNCHANGED <<live, connected, unanswered>> /\ run[r] \in Thread
    BY DEF ForwardAnswered, TypeOK
  <1>2. {"DEADLINE_EXCEEDED", "REFUSED"} \subseteq Reason \ {None}
    BY ConstantsAssumption DEF Reason
  <1>3. \A failure \in Reason \ {None} : AfterForward(r, run[r], failure) => Advances(r)
    BY <1>1, AfterForwardAdvances
  <1> DEFINE t == [run[r] EXCEPT !.y = run[r].y \cup {ThisCall(r)}]
  <1>4. AfterForward(r, t, None) => Advances(r)
    <2>1. ThisCall(r) \in Call
      <3>1. ThisCall(r) = CallAt(r, run[r])
        BY DEF ThisCall, CallAt
      <3> QED
        BY <1>1, <3>1, AwaitingFacts DEF Awaiting
    <2>2. t \in Thread
      BY <1>1, <2>1 DEF Thread
    <2> QED
      BY <1>1, <2>2, AfterForwardAdvances
  <1> QED
    BY <1>2, <1>3, <1>4 DEF ForwardAnswered

\* The release is over, or given up.
LEMMA AfterReleaseAdvances ==
    ASSUME TypeOK, AllSound, NEW r \in Runs, run[r].pc = "releasing", AfterRelease(r), sent' = sent,
           UNCHANGED <<live, connected>>, unanswered \subseteq unanswered',
           unanswered' \in SUBSET Call,
           run[r].answer # None \/ CallAt(r, run[r]) \in unanswered'
    PROVE  Advances(r)
  <1> DEFINE t == run[r]
  <1>1. /\ t \in Thread /\ t.pos \in 1..2 /\ t.pc \in Awaiting /\ t.failure \in Reason \cup {None}
    <2>1. t.pc \in Awaiting
      BY DEF Awaiting
    <2>2. t \in Thread /\ t.pos \in 1..2
      BY <2>1, AwaitingFacts
    <2> QED
      BY <2>1, <2>2 DEF Thread
  <1>2. CASE t.failure = None
    <2> DEFINE u == NextReference(t)
    <2>1. run' = [run EXCEPT ![r] = u]
      BY <1>2 DEF AfterRelease
    <2>2. /\ u \in Thread /\ u.pc = "step" /\ u.pos = t.pos + 1 /\ u.answer = None
          /\ u.y = t.y /\ u.status = t.status /\ SameRecord(t, u)
      BY <1>1, NextReferenceFacts
    <2>3. run'[r] = u
      BY <2>1 DEF TypeOK
    <2> HIDE DEF u
    <2>4. Moves(r, t, u)
      BY <1>2, <2>2 DEF Moves, NextOne, KeepsNoAnswer
    <2>5. Settles(r)
      BY <2>2, <2>3 DEF Settles, GivenUp, Awaiting
    <2> QED
      BY <2>1, <2>2, <2>3, <2>4, <2>5, NothingSent DEF Advances, TypeOK
  <1>3. CASE t.failure # None
    <2>1. run' = [run EXCEPT ![r] = FallenBack(t, t.failure)]
      BY <1>3 DEF AfterRelease
    <2> QED
      BY <1>1, <1>3, <2>1, FallBackAdvances
  <1> QED
    BY <1>2, <1>3

LEMMA ReleaseAnswerAdvances ==
    ASSUME TypeOK, AllSound, NEW r \in Runs, ReleaseAnswered(r)
    PROVE  Advances(r)
  BY AfterReleaseAdvances DEF ReleaseAnswered, TypeOK

LEMMA FailureAdvances ==
    ASSUME TypeOK, AllSound, NEW r \in Runs, CallFails(r)
    PROVE  Advances(r)
  <1>1. run[r].pc \in Awaiting /\ run[r] \in Thread
    BY DEF CallFails, GivesUp, Awaits, TypeOK
  <1>2. "UNAVAILABLE" \in Reason \ {None}
    BY ConstantsAssumption DEF Reason
  <1>3. ThisCall(r) = CallAt(r, run[r]) /\ CallAt(r, run[r]) \in Call
    BY <1>1, AwaitingFacts DEF ThisCall, CallAt
  <1>4. UNCHANGED <<live, connected>>
    BY DEF CallFails
  <1>5. run[r].pc # "forwarding" =>
            /\ unanswered \subseteq unanswered' /\ unanswered' \in SUBSET Call
            /\ CallAt(r, run[r]) \in unanswered'
    BY <1>3 DEF CallFails, TypeOK
  <1>6. CASE run[r].pc = "leasing"
    <2>1. run' = [run EXCEPT ![r] = FallenBack(run[r], "UNAVAILABLE")] /\ sent' = sent
      BY <1>6 DEF CallFails
    <2> QED
      BY <1>1, <1>2, <1>4, <1>5, <1>6, <2>1, FallBackAdvances
  <1>7. CASE run[r].pc = "forwarding"
    <2>1. AfterForward(r, run[r], "UNAVAILABLE") /\ unanswered' = unanswered
      BY <1>7 DEF CallFails
    <2> QED
      BY <1>1, <1>2, <1>4, <1>7, <2>1, AfterForwardAdvances
  <1>8. CASE run[r].pc = "releasing"
    <2>1. AfterRelease(r) /\ sent' = sent
      BY <1>8 DEF CallFails
    <2> QED
      BY <1>4, <1>5, <1>8, <2>1, AfterReleaseAdvances
  <1> QED
    BY <1>1, <1>6, <1>7, <1>8 DEF Awaiting

LEMMA StepsAdvance ==
    ASSUME TypeOK, AllSound, NEW r \in Runs,
           \/ RunStepDenied(r)
           \/ \E budget \in Budgets, mode \in Modes : RunStep(r, budget, mode)
           \/ ThreadSteps(r)
           \/ PlanExpires(r)
    PROVE  Advances(r)
  BY DeniedAdvances, RunStepAdvances, RouterAnswersAdvances, FinishAdvances, ExpiryAdvances,
     LayerStartAdvances, StepEndAdvances, BorrowAdvances, LeaseAnswerAdvances,
     ForwardAnswerAdvances, ReleaseAnswerAdvances, FailureAdvances DEF ThreadSteps

-----------------------------------------------------------------------------
(* Types, and the soundness of every thread *)

LEMMA AdvancesKeepsTypes ==
    ASSUME TypeOK, AllSound, NEW r \in Runs, Advances(r)
    PROVE  TypeOK' /\ AllSound'
  <1>1. run' \in [Runs -> Thread]
    BY DEF Advances, TypeOK
  <1>2. sent' \in SUBSET Request
    BY DEF Advances, SendsFor, TypeOK
  <1>3. TypeOK'
    BY <1>1, <1>2 DEF Advances, TypeOK
  <1>4. ASSUME NEW q \in Runs PROVE ThreadSound(q, run'[q])
    <2>1. CASE q = r
      <3>1. run[r] \in Thread /\ ThreadSound(r, run[r])
        BY DEF TypeOK, AllSound
      <3> QED
        BY <2>1, <3>1, ThreadKept DEF Advances
    <2>2. CASE q # r
      <3>1. run'[q] = run[q]
        BY <2>2 DEF Advances, TypeOK
      <3> QED
        BY <3>1 DEF AllSound
    <2> QED
      BY <2>1, <2>2
  <1> QED
    BY <1>3, <1>4 DEF AllSound

\* The answer of a peer reaches at most the call that awaits it.
Answered(m, verdict) ==
    LET r == m.call.run
    IN  IF Awaits(r) /\ AwaitedOp(r) = m.op /\ ThisCall(r) = m.call
        THEN run' = [run EXCEPT ![r] = [run[r] EXCEPT !.answer = verdict]]
        ELSE run' = run

LEMMA AnswerFacts ==
    ASSUME TypeOK, AllSound, NEW m \in sent, NEW verdict \in Verdicts(m), PeerHandles(m, verdict)
    PROVE  /\ m \in Request /\ m.call \in Call /\ m.call.run \in Runs /\ verdict \in {"ok", "refused"}
           /\ Answered(m, verdict)
           /\ \A q \in Runs : /\ run'[q] \in Thread /\ Moves(q, run[q], run'[q])
                              /\ Waits(run[q], run'[q])
           /\ run' \in [Runs -> Thread]
  <1>1. m \in Request /\ m.call \in Call /\ m.call.run \in Runs /\ m.op \in {"Lease", "Forward", "Release"}
    BY DEF TypeOK, Request, Call
  <1>2. verdict \in {"ok", "refused"}
    BY <1>1 DEF Verdicts, TableAnswers
  <1> DEFINE r == m.call.run
             u == [run[r] EXCEPT !.answer = verdict]
  <1>3. Answered(m, verdict)
    BY Zenon DEF PeerHandles, Answered
  <1>4. \A q \in Runs : run[q] \in Thread /\ Waits(run[q], run[q]) /\ Moves(q, run[q], run[q])
    BY DEF TypeOK, Waits, SameRecord, Moves, KeepsNoAnswer
  <1>5. CASE run' = run
    BY <1>1, <1>2, <1>3, <1>4, <1>5 DEF TypeOK
  <1>6. CASE Awaits(r) /\ run' = [run EXCEPT ![r] = u]
    <2>1. run[r] \in Thread /\ run[r].pc \in Awaiting
      BY <1>1, <1>6 DEF TypeOK, Awaits
    <2>2. u \in Thread
      BY <1>2, <2>1 DEF Thread
    <2>3. u.pc = run[r].pc /\ u.status = run[r].status /\ Waits(run[r], u)
      BY <2>1 DEF Thread, Waits, SameRecord
    <2>4. \A q \in Runs : run'[q] = IF q = r THEN u ELSE run[q]
      BY <1>6 DEF TypeOK
    <2>5. run' \in [Runs -> Thread]
      BY <1>6, <2>2 DEF TypeOK
    <2> HIDE DEF u
    <2>6. Moves(r, run[r], u)
      BY <2>1, <2>3 DEF Moves, KeepsNoAnswer
    <2>7. ASSUME NEW q \in Runs
          PROVE  run'[q] \in Thread /\ Moves(q, run[q], run'[q]) /\ Waits(run[q], run'[q])
      BY <1>4, <2>2, <2>3, <2>4, <2>6
    <2> QED
      BY <1>1, <1>2, <1>3, <2>5, <2>7
  <1> QED
    BY <1>3, <1>5, <1>6 DEF Answered

LEMMA AnswerKeepsTypes ==
    ASSUME TypeOK, AllSound, NEW m \in sent, NEW verdict \in Verdicts(m), PeerHandles(m, verdict)
    PROVE  TypeOK' /\ AllSound'
  <1>1. run' \in [Runs -> Thread] /\ m.call \in Call /\ m.op \in {"Lease", "Forward", "Release"}
    BY AnswerFacts DEF Request
  <1>2. live' \in [Peers -> SUBSET Call]
    BY <1>1 DEF PeerHandles, TableAfter, TypeOK
  <1>3. TypeOK'
    BY <1>1, <1>2 DEF PeerHandles, TypeOK
  <1>4. \A q \in Runs : ThreadSound(q, run'[q])
    BY AnswerFacts, ThreadKept DEF TypeOK, AllSound
  <1> QED
    BY <1>3, <1>4 DEF AllSound

LEMMA LossKeepsTypes ==
    ASSUME TypeOK, AllSound, NEW p \in Peers, NEW c \in live[p], LeaseLost(p, c)
    PROVE  TypeOK' /\ AllSound'
  BY DEF LeaseLost, TypeOK, AllSound

LEMMA InitSound ==
    ASSUME Init
    PROVE  TypeOK /\ AllSound
  <1> DEFINE t == [pc |-> "waiting", budget |-> None, mode |-> None, plan |-> LocalPlan,
                   fresh |-> TRUE, layer |-> 1, pos |-> 1, localOnly |-> FALSE, y |-> {},
                   hidden |-> {}, answer |-> None, failure |-> None, fallbacks |-> {},
                   status |-> None]
  <1>1. t \in Thread
    <2>1. 1 \in 1..(NumLayers + 1) /\ 1 \in 1..3
      BY ConstantsAssumption
    <2> QED
      BY <2>1, Zenon DEF Thread
  <1>2. run = [r \in Runs |-> t]
    BY DEF Init
  <1>3. TypeOK
    BY <1>1, <1>2 DEF Init, TypeOK
  <1>4. ASSUME NEW r \in Runs PROVE ThreadSound(r, t)
    BY DEF ThreadSound, WellFormed, Quiet, SumsUp, TruthBehind, InStep, Awaiting
  <1> QED
    BY <1>2, <1>3, <1>4 DEF AllSound

LEMMA NextKeepsTypes ==
    ASSUME TypeOK, AllSound, [Next]_vars
    PROVE  TypeOK' /\ AllSound'
  <1>1. CASE UNCHANGED vars
    BY <1>1 DEF vars, TypeOK, AllSound
  <1>2. ASSUME NEW r \in Runs, Advances(r) PROVE TypeOK' /\ AllSound'
    BY <1>2, AdvancesKeepsTypes
  <1>3. ASSUME NEW m \in sent, NEW verdict \in Verdicts(m), PeerHandles(m, verdict)
        PROVE  TypeOK' /\ AllSound'
    BY <1>3, AnswerKeepsTypes
  <1>4. ASSUME NEW p \in Peers, NEW c \in live[p], LeaseLost(p, c) PROVE TypeOK' /\ AllSound'
    BY <1>4, LossKeepsTypes
  <1> QED
    BY <1>1, <1>2, <1>3, <1>4, StepsAdvance DEF Next

\* The inductive invariant: every variable has its type, and every thread's own
\* record is sound.
THEOREM HostInvariant == Spec => [](TypeOK /\ AllSound)
  <1>1. Init => TypeOK /\ AllSound
    BY InitSound
  <1>2. TypeOK /\ AllSound /\ [Next]_vars => (TypeOK /\ AllSound)'
    BY NextKeepsTypes
  <1> QED
    BY <1>1, <1>2, PTL DEF Spec

\* Every variable has its type.
THEOREM TypeCorrect == Spec => []TypeOK
  BY HostInvariant, PTL

\* What the learner is told is what happened (host.py:98-109).
THEOREM HostTellsTheTruth == Spec => []FallbacksTellTheTruth
  <1>1. TypeOK /\ AllSound => FallbacksTellTheTruth
    <2> SUFFICES ASSUME TypeOK, AllSound, NEW r \in Runs, NEW n \in 1..(run[r].layer - 1)
                 PROVE  IF FellBack(r, n) THEN Borrowed(r, n) = {}
                        ELSE \/ Borrowed(r, n) = Planned(r, n)
                             \/ /\ Borrowed(r, n) = {} /\ run[r].budget.strict
                                /\ \E k \in 1..(n - 1) : FellBack(r, k)
      BY Zenon DEF FallbacksTellTheTruth
    <2>1. Borrowed(r, n) = BorrowedBy(run[r], n) /\ Planned(r, n) = PlannedBy(r, run[r], n)
      BY DEF Borrowed, BorrowedBy, Planned, PlannedBy
    <2>2. \A k : FellBack(r, k) <=> FellBackAt(run[r], k)
      BY DEF FellBack, FellBackAt
    <2>3. TruthBehind(r, run[r])
      BY DEF AllSound, ThreadSound
    <2> QED
      BY <2>1, <2>2, <2>3, Zenon DEF TruthBehind
  <1> QED
    BY <1>1, HostInvariant, PTL

\* A strict budget ends the borrowing at the first fallback (protocol.md 7).
THEOREM StrictEndsBorrowing == Spec => StrictStopsBorrowing
  <1> DEFINE Stops == \A r \in Runs :
                          run[r].fallbacks # {} /\ run[r].budget.strict
                          => \A m \in sent' \ sent : m.call.run # r
  <1>1. TypeOK /\ AllSound /\ [Next]_vars => Stops
    <2> SUFFICES ASSUME TypeOK, AllSound, [Next]_vars, NEW r \in Runs,
                        run[r].fallbacks # {}, run[r].budget.strict,
                        NEW m \in sent' \ sent
                 PROVE  m.call.run # r
      BY DEF Stops
    <2>1. run[r].localOnly
      BY DEF AllSound, ThreadSound, TruthBehind
    <2>2. ~InStep(run[r])
      BY <2>1 DEF AllSound, ThreadSound, WellFormed
    <2>3. ASSUME NEW q \in Runs, Advances(q) PROVE m.call.run # r
      <3>1. m.call = CallAt(q, run[q]) /\ InStep(run[q])
        BY <2>3 DEF Advances, SendsFor
      <3> QED
        BY <2>2, <3>1 DEF CallAt
    <2>4. sent' \subseteq sent => FALSE
      OBVIOUS
    <2> QED
      BY <2>3, <2>4, StepsAdvance DEF Next, vars, PeerHandles, LeaseLost
  <1>2. TypeOK /\ AllSound /\ [Next]_vars => [Stops]_vars
    BY <1>1
  <1> QED
    BY <1>2, HostInvariant, PTL DEF Spec, StrictStopsBorrowing

-----------------------------------------------------------------------------
(* The leases *)

\* The thread has come to call c, and it is the call at hand.
CurrentIn(t, c) == t.pc \in Awaiting /\ c.layer = t.layer /\ c.pos = t.pos
ReachedIn(t, c) ==
    \/ c.layer < t.layer
    \/ InStep(t) /\ c.layer = t.layer /\ c.pos < t.pos
    \/ CurrentIn(t, c)

\* A request on its way is of a call the thread came to.  A lease request still
\* travels because its answer is awaited, or was given up.
AskedOK(m) ==
    LET t == run[m.call.run]
    IN  /\ ReachedIn(t, m.call)
        /\ m.op # "Forward" => t.budget.leases
        /\ m.op # "Forward" => m.leased
        /\ m.op = "Lease" => IF CurrentIn(t, m.call) THEN t.pc = "leasing" /\ t.answer = None
                             ELSE m.call \in unanswered

\* A lease in a table is of a call whose thread knows of it, or gave up on it.
HeldOK(p, c) ==
    LET t == run[c.run]
    IN  /\ ReachedIn(t, c) /\ t.budget.leases /\ p = t.plan[c.layer][c.pos]
        /\ IF CurrentIn(t, c)
           THEN (t.pc = "leasing" => t.answer = "ok") /\ (t.pc = "releasing" => t.answer = None)
           ELSE c \in unanswered

LeasesInv ==
    /\ \A m \in sent : AskedOK(m)
    /\ \A p \in Peers : \A c \in live[p] : HeldOK(p, c)

LEMMA ReachKept ==
    ASSUME NEW r \in Runs, NEW t \in Thread, NEW u \in Thread, NEW c \in Call,
           WellFormed(r, t), Moves(r, t, u), ReachedIn(t, c)
    PROVE  /\ ReachedIn(u, c) /\ u.budget = t.budget /\ u.plan = t.plan
           /\ CurrentIn(u, c) => CurrentIn(t, c)
           /\ CurrentIn(t, c) /\ u.pc \in Awaiting => CurrentIn(u, c)
  <1>1. /\ t.layer \in Nat /\ t.pos \in Nat /\ c.layer \in Nat /\ c.pos \in Nat
        /\ c.layer >= 1
    BY DEF Thread, Call, Layers, Positions
  <1>2. CASE Begins(t, u) \/ GetsPlan(t, u)
    <2>1. t.layer = 1 /\ ~InStep(t) /\ t.pc \notin Awaiting
      BY <1>2 DEF Begins, GetsPlan, WellFormed, InStep, Awaiting
    <2> QED
      BY <1>1, <2>1 DEF ReachedIn, CurrentIn
  <1>3. CASE Finishes(t, u)
    BY <1>3 DEF Finishes, SameRecord, ReachedIn, CurrentIn, InStep, Awaiting
  <1>4. CASE EntersStep(t, u)
    <2>1. ~InStep(t) /\ t.pc \notin Awaiting /\ u.pc \notin Awaiting
      BY <1>4 DEF EntersStep, InStep, Awaiting
    <2> QED
      BY <1>1, <1>4, <2>1 DEF EntersStep, SameRecord, ReachedIn, CurrentIn
  <1>5. CASE Completes(t, u) \/ FallsBack(t, u)
    <2>1. LeavesLayer(t, u) /\ u.pc = "layer" /\ u.layer = t.layer + 1
      BY <1>5 DEF Completes, FallsBack, LeavesLayer
    <2>2. c.layer < u.layer
      BY <1>1, <2>1 DEF ReachedIn, CurrentIn
    <2> QED
      BY <2>1, <2>2 DEF ReachedIn, CurrentIn, LeavesLayer, Awaiting
  <1>6. CASE NextOne(r, t, u)
    <2>1. InStep(u) /\ u.pc \notin Awaiting /\ u.layer = t.layer /\ u.pos = t.pos + 1
      BY <1>6 DEF NextOne, SameRecord, InStep, Awaiting
    <2> QED
      BY <1>1, <1>6, <2>1 DEF NextOne, SameRecord, ReachedIn, CurrentIn
  <1>7. CASE CallsOn(r, t, u)
    <2>1. InStep(t) /\ InStep(u) /\ u.pc \in Awaiting /\ u.layer = t.layer /\ u.pos = t.pos
      BY <1>7 DEF CallsOn, SameRecord, InStep, Awaiting
    <2> QED
      BY <1>1, <1>7, <2>1 DEF CallsOn, SameRecord, ReachedIn, CurrentIn
  <1>8. CASE Waits(t, u)
    BY <1>8 DEF Waits, SameRecord, ReachedIn, CurrentIn, InStep
  <1> QED
    BY <1>2, <1>3, <1>4, <1>5, <1>6, <1>7, <1>8 DEF Moves

\* The call at hand, as a record.
LEMMA CurrentIsCallAt ==
    ASSUME NEW c \in Call, NEW t, CurrentIn(t, c)
    PROVE  c = CallAt(c.run, t)
  BY DEF Call, CurrentIn, CallAt

LEMMA AdvancesKeepsAsked ==
    ASSUME TypeOK, AllSound, LeasesInv, NEW r \in Runs, Advances(r), NEW m \in sent'
    PROVE  AskedOK(m)'
  <1> DEFINE t == run[r]
             u == run'[r]
  <1>1. t \in Thread /\ u \in Thread /\ WellFormed(r, t) /\ Moves(r, t, u)
    BY DEF TypeOK, AllSound, ThreadSound, Advances
  <1>2. \A q \in Runs : q # r => run'[q] = run[q]
    BY DEF Advances, TypeOK
  <1>3. CASE m \notin sent
    <2>1. /\ m \in Request /\ m.call = CallAt(r, t) /\ m.leased = t.budget.leases
          /\ InStep(t) /\ u.pc \in Awaiting /\ u.layer = t.layer /\ u.pos = t.pos
          /\ m.op # "Forward" => m.leased
          /\ m.op = "Lease" => u.pc = "leasing" /\ u.answer = None
      BY <1>3 DEF Advances, SendsFor
    <2>2. m.call.run = r /\ m.call.layer = u.layer /\ m.call.pos = u.pos
      BY <2>1 DEF CallAt
    <2>3. CurrentIn(u, m.call) /\ ReachedIn(u, m.call)
      BY <2>1, <2>2 DEF CurrentIn, ReachedIn
    <2>4. u.budget = t.budget
      BY <1>1, <2>1 DEF Moves, Begins, GetsPlan, Finishes, EntersStep, Completes, FallsBack,
                        LeavesLayer, NextOne, CallsOn, Waits, SameRecord, InStep, Awaiting
    <2> QED
      BY <2>1, <2>2, <2>3, <2>4 DEF AskedOK
  <1>4. CASE m \in sent /\ m.call.run # r
    <2>1. AskedOK(m) /\ m.call.run \in Runs
      BY <1>4 DEF LeasesInv, TypeOK, Request, Call
    <2>2. run'[m.call.run] = run[m.call.run] /\ unanswered \subseteq unanswered'
      BY <1>2, <1>4, <2>1 DEF Advances
    <2> QED
      BY <2>1, <2>2 DEF AskedOK
  <1>5. CASE m \in sent /\ m.call.run = r
    <2>1. AskedOK(m) /\ m.call \in Call /\ unanswered \subseteq unanswered'
      BY <1>5 DEF LeasesInv, TypeOK, Request, Advances
    <2>2. ReachedIn(t, m.call)
      BY <1>5, <2>1 DEF AskedOK
    <2>3. /\ ReachedIn(u, m.call) /\ u.budget = t.budget
          /\ CurrentIn(u, m.call) => CurrentIn(t, m.call)
          /\ CurrentIn(t, m.call) /\ u.pc \in Awaiting => CurrentIn(u, m.call)
      BY <1>1, <2>1, <2>2, ReachKept
    <2>4. m.op = "Lease" => IF CurrentIn(u, m.call) THEN u.pc = "leasing" /\ u.answer = None
                            ELSE m.call \in unanswered'
      <3> SUFFICES ASSUME m.op = "Lease"
                   PROVE  IF CurrentIn(u, m.call) THEN u.pc = "leasing" /\ u.answer = None
                          ELSE m.call \in unanswered'
        OBVIOUS
      <3>1. CASE ~CurrentIn(t, m.call)
        BY <1>5, <2>1, <2>3, <3>1 DEF AskedOK
      <3>2. CASE CurrentIn(t, m.call)
        <4>1. t.pc = "leasing" /\ t.answer = None
          BY <1>5, <2>1, <3>2 DEF AskedOK
        <4>2. GivenUp(r) \/ (u.pc = "leasing" /\ u.answer = None)
          BY <4>1 DEF Advances, Settles
        <4>3. CASE GivenUp(r)
          <5>1. m.call \in unanswered' /\ u.pc \notin Awaiting
            BY <1>5, <2>1, <3>2, <4>3, CurrentIsCallAt DEF GivenUp
          <5> QED
            BY <5>1 DEF CurrentIn
        <4>4. CASE u.pc = "leasing" /\ u.answer = None
          BY <2>3, <3>2, <4>4 DEF Awaiting
        <4> QED
          BY <4>2, <4>3, <4>4
      <3> QED
        BY <3>1, <3>2
    <2> QED
      BY <1>5, <2>1, <2>3, <2>4 DEF AskedOK
  <1> QED
    BY <1>3, <1>4, <1>5

LEMMA AdvancesKeepsHeld ==
    ASSUME TypeOK, AllSound, LeasesInv, NEW r \in Runs, Advances(r),
           NEW p \in Peers, NEW c \in live'[p]
    PROVE  HeldOK(p, c)'
  <1> DEFINE t == run[r]
             u == run'[r]
  <1>1. t \in Thread /\ u \in Thread /\ WellFormed(r, t) /\ Moves(r, t, u)
    BY DEF TypeOK, AllSound, ThreadSound, Advances
  <1>2. c \in live[p] /\ c \in Call /\ c.run \in Runs /\ HeldOK(p, c)
        /\ unanswered \subseteq unanswered'
    BY DEF Advances, TypeOK, LeasesInv, Call
  <1>3. CASE c.run # r
    <2>1. run'[c.run] = run[c.run]
      BY <1>2, <1>3 DEF Advances, TypeOK
    <2> QED
      BY <1>2, <2>1 DEF HeldOK
  <1>4. CASE c.run = r
    <2>1. /\ ReachedIn(t, c) /\ t.budget.leases /\ p = t.plan[c.layer][c.pos]
      BY <1>2, <1>4 DEF HeldOK
    <2>2. /\ ReachedIn(u, c) /\ u.budget = t.budget /\ u.plan = t.plan
          /\ CurrentIn(u, c) => CurrentIn(t, c)
          /\ CurrentIn(t, c) /\ u.pc \in Awaiting => CurrentIn(u, c)
      BY <1>1, <1>2, <2>1, ReachKept
    <2>3. IF CurrentIn(u, c)
          THEN (u.pc = "leasing" => u.answer = "ok") /\ (u.pc = "releasing" => u.answer = None)
          ELSE c \in unanswered'
      <3>1. CASE ~CurrentIn(t, c)
        BY <1>2, <1>4, <2>2, <3>1 DEF HeldOK
      <3>2. CASE CurrentIn(t, c)
        <4>1. (t.pc = "leasing" => t.answer = "ok") /\ (t.pc = "releasing" => t.answer = None)
          BY <1>2, <1>4, <3>2 DEF HeldOK
        <4>2. t.pc \in Awaiting
          BY <3>2 DEF CurrentIn
        <4>3. GivenUp(r) => c \in unanswered' /\ ~CurrentIn(u, c)
          BY <1>2, <1>4, <3>2, CurrentIsCallAt DEF GivenUp, CurrentIn
        <4>4. CASE t.pc = "leasing"
          <5>1. u.pc = "forwarding" \/ GivenUp(r) \/ (u.pc = "leasing" /\ u.answer = "ok")
            BY <4>1, <4>4 DEF Advances, Settles
          <5> QED
            BY <2>2, <3>2, <4>3, <5>1 DEF Awaiting
        <4>5. CASE t.pc = "forwarding"
          <5>1. u.pc = "forwarding" \/ (u.pc = "releasing" /\ u.answer = None)
            BY <2>1, <4>5 DEF Advances, Settles
          <5> QED
            BY <2>2, <3>2, <5>1 DEF Awaiting
        <4>6. CASE t.pc = "releasing"
          <5>1. GivenUp(r) \/ (u.pc = "releasing" /\ u.answer = None)
            BY <4>1, <4>6 DEF Advances, Settles
          <5> QED
            BY <2>2, <3>2, <4>3, <5>1 DEF Awaiting
        <4> QED
          BY <4>2, <4>4, <4>5, <4>6 DEF Awaiting
      <3> QED
        BY <3>1, <3>2
    <2> QED
      BY <1>4, <2>1, <2>2, <2>3 DEF HeldOK
  <1> QED
    BY <1>3, <1>4

\* A thread that waits has come to the same calls.
LEMMA WaitingReach ==
    ASSUME NEW t, NEW u, NEW c, Waits(t, u)
    PROVE  /\ ReachedIn(u, c) <=> ReachedIn(t, c)
           /\ CurrentIn(u, c) <=> CurrentIn(t, c)
           /\ u.pc = t.pc /\ u.budget = t.budget /\ u.plan = t.plan
  BY DEF Waits, SameRecord, ReachedIn, CurrentIn, InStep

\* When the thread of a call gets an answer, the call is at hand and the op is its own.
LEMMA AnswersTheAwaited ==
    ASSUME TypeOK, NEW m, NEW verdict, m.call \in Call, verdict \in {"ok", "refused"},
           Answered(m, verdict), NEW q \in Runs
    PROVE  \/ run'[q] = run[q]
           \/ /\ q = m.call.run /\ run[q].pc \in Awaiting /\ AwaitedOp(q) = m.op
              /\ CallAt(q, run[q]) = m.call /\ run'[q].answer = verdict
  <1> DEFINE r == m.call.run
  <1>1. CASE run' = run
    BY <1>1
  <1>2. CASE /\ Awaits(r) /\ AwaitedOp(r) = m.op /\ ThisCall(r) = m.call
             /\ run' = [run EXCEPT ![r] = [run[r] EXCEPT !.answer = verdict]]
    <2>1. q # r => run'[q] = run[q]
      BY <1>2 DEF TypeOK
    <2>2. q = r => run'[q].answer = verdict
      <3>1. r \in Runs /\ run[r] \in Thread
        BY DEF Call, TypeOK
      <3>2. run'[r] = [run[r] EXCEPT !.answer = verdict]
        BY <1>2, <3>1 DEF TypeOK
      <3> QED
        BY <3>1, <3>2 DEF Thread
    <2> QED
      BY <1>2, <2>1, <2>2 DEF Awaits, ThisCall, CallAt
  <1> QED
    BY <1>1, <1>2 DEF Answered

LEMMA AnswerKeepsLeases ==
    ASSUME TypeOK, AllSound, LeasesInv, NEW m \in sent, NEW verdict \in Verdicts(m),
           PeerHandles(m, verdict)
    PROVE  LeasesInv'
  <1>1. /\ m \in Request /\ m.call \in Call /\ m.call.run \in Runs /\ verdict \in {"ok", "refused"}
        /\ Answered(m, verdict) /\ \A q \in Runs : Waits(run[q], run'[q])
        /\ run' \in [Runs -> Thread]
    BY AnswerFacts
  <1>2. sent' = sent \ {m} /\ unanswered' = unanswered
    BY DEF PeerHandles
  <1>3. AskedOK(m)
    BY DEF LeasesInv
  <1>4. ASSUME NEW o \in sent' PROVE AskedOK(o)'
    <2>1. o \in sent /\ o # m /\ AskedOK(o) /\ o \in Request /\ o.call \in Call /\ o.call.run \in Runs
      BY <1>2 DEF LeasesInv, TypeOK, Request, Call
    <2> DEFINE t == run[o.call.run]
               u == run'[o.call.run]
    <2>2. /\ ReachedIn(u, o.call) <=> ReachedIn(t, o.call)
          /\ CurrentIn(u, o.call) <=> CurrentIn(t, o.call)
          /\ u.pc = t.pc /\ u.budget = t.budget
      BY <1>1, <2>1, WaitingReach
    <2>3. ASSUME o.op = "Lease", CurrentIn(t, o.call) PROVE u.answer = None
      <3>1. t.pc = "leasing" /\ t.answer = None /\ o.leased
        BY <2>1, <2>3 DEF AskedOK
      <3>2. CASE u = t
        BY <3>1, <3>2
      <3>3. CASE AwaitedOp(o.call.run) = m.op /\ CallAt(o.call.run, t) = m.call
        <4>1. m.op = "Lease"
          BY <3>1, <3>3 DEF AwaitedOp
        <4>2. m.call = o.call
          BY <2>1, <2>3, <3>3, CurrentIsCallAt
        <4>3. m.leased
          BY <1>3, <4>1 DEF AskedOK
        <4>4. m = o
          BY <1>1, <2>1, <2>3, <3>1, <4>1, <4>2, <4>3 DEF Request
        <4> QED
          BY <2>1, <4>4
      <3> QED
        BY <1>1, <2>1, <3>2, <3>3, AnswersTheAwaited
    <2> QED
      BY <1>2, <2>1, <2>2, <2>3 DEF AskedOK
  <1>5. ASSUME NEW p \in Peers, NEW c \in live'[p] PROVE HeldOK(p, c)'
    <2>1. CASE c \in live[p]
      <3>1. HeldOK(p, c) /\ c \in Call /\ c.run \in Runs
        BY <2>1 DEF LeasesInv, TypeOK, Call
      <3> DEFINE t == run[c.run]
                 u == run'[c.run]
      <3>2. /\ ReachedIn(u, c) <=> ReachedIn(t, c)
            /\ CurrentIn(u, c) <=> CurrentIn(t, c)
            /\ u.pc = t.pc /\ u.budget = t.budget /\ u.plan = t.plan
        BY <1>1, <3>1, WaitingReach
      <3>3. ASSUME CurrentIn(t, c)
            PROVE  (u.pc = "leasing" => u.answer = "ok") /\ (u.pc = "releasing" => u.answer = None)
        <4>1. (t.pc = "leasing" => t.answer = "ok") /\ (t.pc = "releasing" => t.answer = None)
          BY <3>1, <3>3 DEF HeldOK
        <4>2. CASE u = t
          BY <4>1, <4>2
        <4>3. CASE AwaitedOp(c.run) = m.op /\ CallAt(c.run, t) = m.call
          <5>1. m.call = c
            BY <3>1, <3>3, <4>3, CurrentIsCallAt
          <5>2. t.pc # "leasing"
            <6> SUFFICES ASSUME t.pc = "leasing" PROVE FALSE
              OBVIOUS
            <6>1. m.op = "Lease"
              BY <4>3 DEF AwaitedOp
            <6>2. t.answer = None /\ t.answer = "ok"
              BY <1>3, <3>3, <4>1, <5>1, <6>1 DEF AskedOK
            <6> QED
              BY <6>2, ConstantsAssumption
          <5>3. t.pc # "releasing"
            <6> SUFFICES ASSUME t.pc = "releasing" PROVE FALSE
              OBVIOUS
            <6>1. m.op = "Release"
              BY <4>3 DEF AwaitedOp
            <6>2. p = Peer(m.call)
              BY <3>1, <5>1 DEF HeldOK, Peer
            <6>3. live'[p] = live[p] \ {c}
              BY <5>1, <6>1, <6>2 DEF PeerHandles, TableAfter, TypeOK
            <6> QED
              BY <1>5, <6>3
          <5> QED
            BY <3>2, <5>2, <5>3
        <4> QED
          BY <1>1, <3>1, <4>2, <4>3, AnswersTheAwaited
      <3> QED
        BY <1>2, <3>1, <3>2, <3>3 DEF HeldOK
    <2>2. CASE c \notin live[p]
      <3>1. /\ m.op = "Lease" /\ verdict = "ok" /\ c = m.call /\ p = Peer(m.call)
        BY <1>1, <2>2 DEF PeerHandles, TableAfter, TypeOK, Request
      <3> DEFINE t == run[c.run]
                 u == run'[c.run]
      <3>2. /\ ReachedIn(t, c) /\ t.budget.leases /\ p = t.plan[c.layer][c.pos]
            /\ IF CurrentIn(t, c) THEN t.pc = "leasing" /\ t.answer = None ELSE c \in unanswered
        BY <1>3, <3>1 DEF AskedOK, Peer
      <3>3. /\ ReachedIn(u, c) <=> ReachedIn(t, c)
            /\ CurrentIn(u, c) <=> CurrentIn(t, c)
            /\ u.pc = t.pc /\ u.budget = t.budget /\ u.plan = t.plan
        BY <1>1, <3>1, WaitingReach
      <3>4. ASSUME CurrentIn(t, c) PROVE u.answer = "ok"
        <4>1. t.pc = "leasing" /\ c = CallAt(c.run, t)
          BY <1>1, <3>1, <3>2, <3>4, CurrentIsCallAt
        <4>2. Awaits(c.run) /\ AwaitedOp(c.run) = m.op /\ ThisCall(c.run) = m.call
          BY <3>1, <4>1 DEF Awaits, AwaitedOp, Awaiting, ThisCall, CallAt
        <4>3. run' = [run EXCEPT ![c.run] = [t EXCEPT !.answer = "ok"]]
          BY <1>1, <3>1, <4>2 DEF Answered
        <4>4. t \in Thread /\ u = [t EXCEPT !.answer = "ok"]
          BY <1>1, <3>1, <4>3 DEF TypeOK
        <4> QED
          BY <4>4 DEF Thread
      <3> QED
        BY <1>2, <3>2, <3>3, <3>4 DEF HeldOK
    <2> QED
      BY <2>1, <2>2
  <1> QED
    BY <1>4, <1>5 DEF LeasesInv

LEMMA NextKeepsLeases ==
    ASSUME TypeOK, AllSound, LeasesInv, [Next]_vars
    PROVE  LeasesInv'
  <1>1. CASE UNCHANGED vars
    BY <1>1 DEF vars, LeasesInv, AskedOK, HeldOK
  <1>2. ASSUME NEW r \in Runs, Advances(r) PROVE LeasesInv'
    BY <1>2, AdvancesKeepsAsked, AdvancesKeepsHeld DEF LeasesInv
  <1>3. ASSUME NEW m \in sent, NEW verdict \in Verdicts(m), PeerHandles(m, verdict)
        PROVE  LeasesInv'
    BY <1>3, AnswerKeepsLeases
  <1>4. ASSUME NEW p \in Peers, NEW c \in live[p], LeaseLost(p, c) PROVE LeasesInv'
    <2>1. \A q \in Peers : live'[q] \subseteq live[q]
      BY <1>4 DEF LeaseLost, TypeOK
    <2> QED
      BY <1>4, <2>1 DEF LeaseLost, LeasesInv, AskedOK, HeldOK
  <1> QED
    BY <1>1, <1>2, <1>3, <1>4, StepsAdvance DEF Next

\* No lease is left behind (host.py:140-163): whatever fails, the host gives back
\* every lease it knows of, or tried to.
THEOREM LeasesAccounted == Spec => []LeasesAccountedFor
  <1>1. Init => LeasesInv
    BY DEF Init, LeasesInv
  <1>2. LeasesInv /\ TypeOK /\ AllSound /\ [Next]_vars => LeasesInv'
    BY NextKeepsLeases
  <1>3. LeasesInv /\ TypeOK => LeasesAccountedFor
    <2> SUFFICES ASSUME LeasesInv, TypeOK, NEW p \in Peers, NEW c \in live[p]
                 PROVE  (Awaits(c.run) /\ ThisCall(c.run) = c) \/ c \in unanswered
      BY DEF LeasesAccountedFor
    <2>1. HeldOK(p, c) /\ c \in Call
      BY DEF LeasesInv, TypeOK
    <2>2. CASE CurrentIn(run[c.run], c)
      <3>1. c = CallAt(c.run, run[c.run])
        BY <2>1, <2>2, CurrentIsCallAt
      <3> QED
        BY <2>2, <3>1 DEF Awaits, ThisCall, CallAt, CurrentIn
    <2> QED
      BY <2>1, <2>2 DEF HeldOK
  <1> QED
    BY <1>1, <1>2, <1>3, HostInvariant, PTL DEF Spec

-----------------------------------------------------------------------------
(* The contract of a request: what can be seen of a thread changes only as   *)
(* RunContract says.                                                         *)

Tells == {"local", "borrowed", "fallback", "partial"}
ToldBy(r, t, n) ==
    IF BorrowedBy(t, n) = {} THEN IF FellBackAt(t, n) THEN "fallback" ELSE "local"
    ELSE IF BorrowedBy(t, n) = PlannedBy(r, t, n) /\ ~FellBackAt(t, n) THEN "borrowed"
    ELSE "partial"
TaleOf(r, t) == [n \in 1..(t.layer - 1) |-> ToldBy(r, t, n)]
StrictIn(t) == t.budget # None /\ t.budget.strict
EditedBy(t) == {n \in Layers : t.plan[n] # <<>>}
ShownAs(phase, strict, reports, edited, tale, status) ==
    [phase |-> phase, strict |-> strict, reports |-> reports, edited |-> edited, tale |-> tale,
     status |-> status]
SeenOf(r, t) ==
    ShownAs(PhaseOf(t.pc), StrictIn(t), t.mode = "learned", EditedBy(t), TaleOf(r, t), t.status)

LEMMA SeenFields ==
    ASSUME NEW r, NEW t
    PROVE  /\ SeenOf(r, t).phase = PhaseOf(t.pc) /\ SeenOf(r, t).strict = StrictIn(t)
           /\ SeenOf(r, t).reports = (t.mode = "learned") /\ SeenOf(r, t).edited = EditedBy(t)
           /\ SeenOf(r, t).tale = TaleOf(r, t) /\ SeenOf(r, t).status = t.status
  BY DEF SeenOf, ShownAs

LEMMA TaleFacts ==
    ASSUME NEW r, NEW t \in Thread
    PROVE  /\ TaleOf(r, t) \in Seq(Tells) /\ Len(TaleOf(r, t)) = t.layer - 1
           /\ \A n \in 1..(t.layer - 1) : TaleOf(r, t)[n] = ToldBy(r, t, n)
  <1>1. t.layer - 1 \in Nat
    BY ConstantsAssumption DEF Thread
  <1>2. \A n : ToldBy(r, t, n) \in Tells
    BY DEF ToldBy, Tells
  <1>3. TaleOf(r, t) \in [1..(t.layer - 1) -> Tells]
    BY <1>2 DEF TaleOf
  <1>4. TaleOf(r, t) \in Seq(Tells)
    BY <1>1, <1>3, SeqDef
  <1> QED
    BY <1>1, <1>3, <1>4 DEF TaleOf

\* What is told of a layer depends on the plan and on what became of it.
LEMMA SameTold ==
    ASSUME NEW r, NEW t, NEW u, NEW n,
           u.plan = t.plan, FellBackAt(u, n) <=> FellBackAt(t, n), BorrowedBy(u, n) = BorrowedBy(t, n)
    PROVE  ToldBy(r, u, n) = ToldBy(r, t, n)
  <1>1. PlannedBy(r, u, n) = PlannedBy(r, t, n)
    BY DEF PlannedBy
  <1> QED
    BY <1>1 DEF ToldBy

LEMMA SameTale ==
    ASSUME NEW r, NEW t, NEW u, u.plan = t.plan, u.layer = t.layer, u.hidden = t.hidden,
           u.fallbacks = t.fallbacks
    PROVE  TaleOf(r, u) = TaleOf(r, t)
  <1>1. ASSUME NEW n PROVE ToldBy(r, u, n) = ToldBy(r, t, n)
    <2>1. (FellBackAt(u, n) <=> FellBackAt(t, n)) /\ BorrowedBy(u, n) = BorrowedBy(t, n)
      BY DEF FellBackAt, BorrowedBy
    <2> QED
      BY <2>1, SameTold
  <1> QED
    BY <1>1 DEF TaleOf

\* At the first layer nothing is told yet.
LEMMA NothingTold ==
    ASSUME NEW r, NEW t, t.layer = 1
    PROVE  TaleOf(r, t) = <<>>
  BY DEF TaleOf

LEMMA SameSeen ==
    ASSUME NEW r, NEW t, NEW u, SameRecord(t, u), u.status = t.status, PhaseOf(u.pc) = PhaseOf(t.pc)
    PROVE  SeenOf(r, u) = SeenOf(r, t)
  <1>1. TaleOf(r, u) = TaleOf(r, t)
    BY SameTale DEF SameRecord
  <1>2. StrictIn(u) = StrictIn(t) /\ EditedBy(u) = EditedBy(t) /\ u.mode = t.mode
    BY DEF SameRecord, StrictIn, EditedBy
  <1> QED
    BY <1>1, <1>2 DEF SeenOf

LEMMA PhaseFacts ==
    /\ PhaseOf("waiting") = "waiting" /\ PhaseOf("proposing") = "planning" /\ PhaseOf("done") = "done"
    /\ \A pc \in {"layer", "step", "reporting"} \cup Awaiting : PhaseOf(pc) = "running"
  BY DEF PhaseOf, Awaiting

\* A layer is left: what was told stays, and what became of this one is added.
LEMMA TaleGrows ==
    ASSUME NEW r \in Runs, NEW t \in Thread, NEW u \in Thread, ThreadSound(r, t),
           Completes(t, u) \/ FallsBack(t, u)
    PROVE  TaleOf(r, u) = Append(TaleOf(r, t), ToldBy(r, u, t.layer))
  <1>1. /\ u.layer = t.layer + 1 /\ t.layer \in Nat /\ t.layer >= 1 /\ u.plan = t.plan
    BY DEF Completes, FallsBack, LeavesLayer, Thread
  <1>2. ASSUME NEW n \in 1..(t.layer - 1) PROVE ToldBy(r, u, n) = ToldBy(r, t, n)
    <2>1. n # t.layer
      BY <1>1
    <2>2. FellBackAt(u, n) <=> FellBackAt(t, n)
      <3>1. CASE Completes(t, u)
        BY <3>1 DEF Completes, FellBackAt
      <3>2. CASE FallsBack(t, u)
        <4>1. PICK reason \in Reason :
                  u.fallbacks = t.fallbacks \cup {[layer |-> t.layer, reason |-> reason]}
          BY <3>2 DEF FallsBack
        <4> QED
          BY <2>1, <4>1 DEF FellBackAt
      <3> QED
        BY <3>1, <3>2
    <2>3. BorrowedBy(u, n) = BorrowedBy(t, n)
      <3>1. CASE Completes(t, u)
        <4>1. u.hidden = t.hidden \cup t.y
          BY <3>1 DEF Completes
        <4>2. \A c \in t.y : c.layer = t.layer
          BY <3>1, SumIsOfTheLayer
        <4> QED
          BY <2>1, <4>1, <4>2 DEF BorrowedBy
      <3>2. CASE FallsBack(t, u)
        BY <3>2 DEF FallsBack, BorrowedBy
      <3> QED
        BY <3>1, <3>2
    <2> QED
      BY <1>1, <2>2, <2>3, SameTold
  <1> DEFINE old == TaleOf(r, t)
             new == TaleOf(r, u)
             last == ToldBy(r, u, t.layer)
  <1>3. /\ old \in Seq(Tells) /\ Len(old) = t.layer - 1
        /\ new \in Seq(Tells) /\ Len(new) = t.layer
        /\ \A n \in 1..(t.layer - 1) : new[n] = old[n]
        /\ new[t.layer] = last
    <2>1. /\ old \in Seq(Tells) /\ Len(old) = t.layer - 1
          /\ \A n \in 1..(t.layer - 1) : old[n] = ToldBy(r, t, n)
      BY TaleFacts
    <2>2. /\ new \in Seq(Tells) /\ Len(new) = u.layer - 1
          /\ \A n \in 1..(u.layer - 1) : new[n] = ToldBy(r, u, n)
      BY TaleFacts
    <2> QED
      BY <1>1, <1>2, <2>1, <2>2
  <1>4. last \in Tells
    BY DEF ToldBy, Tells
  <1> HIDE DEF old, new, last
  <1>5. /\ Append(old, last) \in Seq(Tells) /\ Len(Append(old, last)) = t.layer
        /\ \A n \in 1..(t.layer - 1) : Append(old, last)[n] = old[n]
        /\ Append(old, last)[t.layer] = last
    BY <1>1, <1>3, <1>4, AppendProperties
  <1>6. \A n \in 1..t.layer : new[n] = Append(old, last)[n]
    <2>1. \A n \in 1..t.layer : n \in 1..(t.layer - 1) \/ n = t.layer
      BY <1>1
    <2> QED
      BY <1>3, <1>5, <2>1
  <1>7. new = Append(old, last)
    BY <1>3, <1>5, <1>6, SeqEqual
  <1> QED
    BY <1>7 DEF old, new, last

\* A strict request has fallen back when the contract says so.
LEMMA FallbackTold ==
    ASSUME NEW r \in Runs, NEW t \in Thread, TruthBehind(r, t), t.budget \in Budgets
    PROVE  StrictIn(t) /\ Contract!HasFallenBack(SeenOf(r, t)) <=> t.localOnly
  <1> DEFINE q == SeenOf(r, t)
  <1>1. StrictIn(t) <=> t.budget.strict
    BY ConstantsAssumption DEF StrictIn
  <1>2. q.tale = TaleOf(r, t) /\ Len(q.tale) = t.layer - 1
    BY SeenFields, TaleFacts
  <1>3. \A n \in 1..(t.layer - 1) : q.tale[n] = "fallback" <=> FellBackAt(t, n)
    <2> TAKE n \in 1..(t.layer - 1)
    <2>1. q.tale[n] = ToldBy(r, t, n)
      BY <1>2, TaleFacts
    <2>2. FellBackAt(t, n) => BorrowedBy(t, n) = {}
      BY DEF TruthBehind
    <2> QED
      BY <2>1, <2>2 DEF ToldBy
  <1>4. Contract!HasFallenBack(q) <=> \E n \in 1..(t.layer - 1) : FellBackAt(t, n)
    BY <1>2, <1>3 DEF Contract!HasFallenBack
  <1>5. (\E n \in 1..(t.layer - 1) : FellBackAt(t, n)) <=> t.fallbacks # {}
    <2>1. \A f \in t.fallbacks : f.layer \in 1..(t.layer - 1)
      <3>1. \A f \in t.fallbacks : f.layer \in Nat /\ f.layer >= 1 /\ f.layer < t.layer /\ t.layer \in Nat
        BY ConstantsAssumption DEF Thread, TruthBehind, Layers
      <3> QED
        BY <3>1
    <2> QED
      BY <2>1 DEF FellBackAt
  <1>6. t.localOnly <=> t.fallbacks # {} /\ t.budget.strict
    BY DEF TruthBehind
  <1> QED
    BY <1>1, <1>4, <1>5, <1>6

LEMMA EditsTheLayer ==
    ASSUME NEW t \in Thread, NEW n \in Layers, t.plan[n] # <<>>
    PROVE  1 \in 1..Len(t.plan[n])
  <1>1. t.plan[n] \in UNION {[1..k -> Peers] : k \in 0..2}
    BY ConstantsAssumption DEF Thread, LocalPlan
  <1>2. PICK k \in 0..2 : t.plan[n] \in [1..k -> Peers]
    BY <1>1
  <1>3. t.plan[n] \in Seq(Peers) /\ Len(t.plan[n]) = k
    BY <1>2, SeqDef
  <1>4. k # 0
    BY <1>2, <1>3
  <1> QED
    BY <1>3, <1>4

\* What becomes of a layer is what the contract lets become of it.
LEMMA DecidedLayer ==
    ASSUME NEW r \in Runs, NEW t \in Thread, NEW u \in Thread, ThreadSound(r, t),
           Completes(t, u) \/ FallsBack(t, u)
    PROVE  ToldBy(r, u, t.layer) \in
               IF Contract!MayBorrow(SeenOf(r, t)) THEN {"borrowed", "fallback"} ELSE {"local"}
  <1>1. /\ t.layer \in Layers /\ t.layer \in Nat /\ u.layer = t.layer + 1 /\ u.plan = t.plan
        /\ u.budget = t.budget /\ t.pc \notin {"waiting", "done"}
    BY DEF Completes, FallsBack, LeavesLayer, Layers, Awaiting
  <1>2. WellFormed(r, t) /\ SumsUp(r, t) /\ TruthBehind(r, t) /\ t.budget \in Budgets
    BY <1>1 DEF ThreadSound, WellFormed
  <1>3. Contract!MayBorrow(SeenOf(r, t)) <=> t.plan[t.layer] # <<>> /\ ~t.localOnly
    <2>1. SeenOf(r, t).strict /\ Contract!HasFallenBack(SeenOf(r, t)) <=> t.localOnly
      BY <1>2, FallbackTold, SeenFields
    <2>2. Contract!NextLayer(SeenOf(r, t)) = t.layer
      BY <1>1, SeenFields, TaleFacts DEF Contract!NextLayer
    <2>3. SeenOf(r, t).edited = EditedBy(t)
      BY SeenFields
    <2> QED
      BY <1>1, <2>1, <2>2, <2>3 DEF Contract!MayBorrow, EditedBy
  <1>4. BorrowedBy(t, t.layer) = {} /\ ~FellBackAt(t, t.layer)
    BY <1>1, <1>2 DEF TruthBehind, BorrowedBy, FellBackAt
  <1>5. CASE FallsBack(t, u)
    <2>1. t.plan[t.layer] # <<>> /\ ~t.localOnly
      BY <1>2, <1>5 DEF FallsBack, WellFormed, InStep
    <2>2. FellBackAt(u, t.layer)
      <3>1. PICK reason \in Reason :
                u.fallbacks = t.fallbacks \cup {[layer |-> t.layer, reason |-> reason]}
        BY <1>5 DEF FallsBack
      <3> DEFINE f == [layer |-> t.layer, reason |-> reason]
      <3>2. f \in u.fallbacks /\ f.layer = t.layer
        BY <3>1
      <3> QED
        BY <3>2 DEF FellBackAt
    <2>3. BorrowedBy(u, t.layer) = {}
      BY <1>4, <1>5 DEF FallsBack, BorrowedBy
    <2> QED
      BY <1>3, <2>1, <2>2, <2>3 DEF ToldBy
  <1>6. CASE Completes(t, u) /\ t.pc = "layer"
    <2>1. t.localOnly \/ t.plan[t.layer] = <<>>
      BY <1>6 DEF Completes
    <2>2. t.y = {}
      BY <1>2, <1>6 DEF SumsUp, InStep, Awaiting
    <2>3. BorrowedBy(u, t.layer) = {} /\ ~FellBackAt(u, t.layer)
      BY <1>4, <1>6, <2>2 DEF Completes, BorrowedBy, FellBackAt
    <2> QED
      BY <1>3, <2>1, <2>3 DEF ToldBy
  <1>7. CASE Completes(t, u) /\ t.pc = "step"
    <2>1. t.plan[t.layer] # <<>> /\ ~t.localOnly
      BY <1>2, <1>7 DEF WellFormed, InStep
    <2>2. ~FellBackAt(u, t.layer)
      BY <1>4, <1>7 DEF Completes, FellBackAt
    <2>3. BorrowedBy(u, t.layer) = PlannedBy(r, u, t.layer)
      <3>1. TruthBehind(r, u) /\ t.layer \in 1..(u.layer - 1) /\ ~u.localOnly
        BY <1>1, <1>7, <2>1, TruthAfterCompleting DEF Completes, Layers
      <3>2. ~(u.budget.strict /\ \E k : FellBackAt(u, k))
        BY <3>1 DEF TruthBehind, FellBackAt
      <3> QED
        BY <2>2, <3>1, <3>2 DEF TruthBehind
    <2>4. PlannedBy(r, u, t.layer) # {}
      BY <1>1, <2>1, EditsTheLayer DEF PlannedBy
    <2> QED
      BY <1>3, <2>1, <2>2, <2>3, <2>4 DEF ToldBy
  <1> QED
    BY <1>5, <1>6, <1>7 DEF Completes

\* What a step shows of its own request is a step of the contract, or nothing.
Shows(r) == Requests' = [Requests EXCEPT ![r] = SeenOf(r, run'[r])]
ContractSteps(r) ==
    \/ Contract!Deny(r) \/ Contract!Admit(r) \/ Contract!GetPlan(r) \/ Contract!GetNoPlan(r)
    \/ Contract!Decide(r) \/ Contract!Answer(r)

LEMMA RequestsSeen ==
    ASSUME NEW r \in Runs
    PROVE  Requests[r] = SeenOf(r, run[r]) /\ Requests'[r] = SeenOf(r, run'[r])
  <1>1. \A n : Told(r, n) = ToldBy(r, run[r], n)
    BY DEF Told, ToldBy, Borrowed, BorrowedBy, Planned, PlannedBy, FellBack, FellBackAt
  <1>2. \A n : Told(r, n)' = ToldBy(r, run'[r], n)
    BY DEF Told, ToldBy, Borrowed, BorrowedBy, Planned, PlannedBy, FellBack, FellBackAt
  <1>3. Seen(r) = SeenOf(r, run[r])
    BY <1>1 DEF Seen, SeenOf, ShownAs, StrictIn, EditedBy, TaleOf
  <1>4. Seen(r)' = SeenOf(r, run'[r])
    BY <1>2 DEF Seen, SeenOf, ShownAs, StrictIn, EditedBy, TaleOf
  <1> QED
    BY <1>3, <1>4 DEF Requests

LEMMA AdvanceShows ==
    ASSUME TypeOK, NEW r \in Runs, Advances(r)
    PROVE  Shows(r)
  <1>1. \A q \in Runs : q # r => run'[q] = run[q]
    BY DEF Advances, TypeOK
  <1>2. \A q \in Runs : Requests'[q] = IF q = r THEN SeenOf(r, run'[r]) ELSE Requests[q]
    BY <1>1, RequestsSeen
  <1>3. Requests = [q \in Runs |-> Requests[q]] /\ Requests' = [q \in Runs |-> Requests'[q]]
    BY DEF Requests
  <1> QED
    BY <1>2, <1>3 DEF Shows

LEMMA BeginningShown ==
    ASSUME NEW r \in Runs, NEW t \in Thread, NEW u \in Thread, ThreadSound(r, t),
           t = run[r], u = run'[r], Shows(r), Begins(t, u), u.status = t.status
    PROVE  Contract!Admit(r)
  <1>1. t.layer = 1
    BY DEF ThreadSound, WellFormed, Begins
  <1>2. TaleOf(r, t) = <<>> /\ TaleOf(r, u) = <<>>
    BY <1>1, NothingTold DEF Begins
  <1>3. EditedBy(u) = EditedBy(t)
    BY DEF Begins, EditedBy
  <1>4. PhaseOf(t.pc) = "waiting" /\ PhaseOf(u.pc) \in {"planning", "running"}
        /\ ((u.mode = "learned") => PhaseOf(u.pc) = "planning")
    BY PhaseFacts DEF Begins
  <1> DEFINE phase == PhaseOf(u.pc)
             strict == StrictIn(u)
             reports == u.mode = "learned"
             q == SeenOf(r, t)
  <1>5. SeenOf(r, u) = [q EXCEPT !.phase = phase, !.strict = strict, !.reports = reports]
    <2> DEFINE b == StrictIn(t)
               c == t.mode = "learned"
               d == EditedBy(t)
               e == TaleOf(r, t)
    <2>1. q = ShownAs(PhaseOf(t.pc), b, c, d, e, t.status)
      BY DEF SeenOf
    <2>2. SeenOf(r, u) = ShownAs(phase, strict, reports, d, e, t.status)
      BY <1>2, <1>3 DEF SeenOf
    <2> HIDE DEF b, c, d, e, phase, strict, reports, q
    <2> DEFINE q1 == [q EXCEPT !.phase = phase]
               q2 == [q1 EXCEPT !.strict = strict]
    <2>3. q1 = ShownAs(phase, b, c, d, e, t.status)
      BY <2>1 DEF ShownAs
    <2>4. q2 = ShownAs(phase, strict, c, d, e, t.status)
      <3> HIDE DEF q1
      <3> QED
        BY <2>3 DEF ShownAs
    <2>5. [q2 EXCEPT !.reports = reports] = ShownAs(phase, strict, reports, d, e, t.status)
      <3> HIDE DEF q2
      <3> QED
        BY <2>4 DEF ShownAs
    <2>6. [q EXCEPT !.phase = phase, !.strict = strict, !.reports = reports]
              = [q2 EXCEPT !.reports = reports]
      OBVIOUS
    <2> QED
      BY <2>2, <2>5, <2>6
  <1>6. strict \in BOOLEAN /\ reports \in BOOLEAN
    BY DEF StrictIn, Thread
  <1>7. Requests[r] = q /\ q.phase = "waiting"
    BY <1>4, RequestsSeen, SeenFields
  <1> HIDE DEF phase, strict, reports, q
  <1>8. Contract!Becomes(r, [Requests[r] EXCEPT !.phase = phase, !.strict = strict,
                                               !.reports = reports])
    BY <1>5, <1>7, Zenon DEF Contract!Becomes, Shows
  <1>9. phase \in {"planning", "running"} /\ (reports => phase = "planning")
    BY <1>4 DEF phase, reports
  <1> QED
    BY <1>6, <1>7, <1>8, <1>9, Zenon DEF Contract!Admit

LEMMA PlanShown ==
    ASSUME NEW r \in Runs, NEW t \in Thread, NEW u \in Thread, ThreadSound(r, t),
           t = run[r], u = run'[r], Shows(r), GetsPlan(t, u), u.status = t.status
    PROVE  Contract!GetPlan(r)
  <1>1. t.layer = 1
    BY DEF ThreadSound, WellFormed, GetsPlan
  <1>2. TaleOf(r, t) = <<>> /\ TaleOf(r, u) = <<>>
    BY <1>1, NothingTold DEF GetsPlan
  <1>3. StrictIn(u) = StrictIn(t) /\ u.mode = t.mode
    BY DEF GetsPlan, StrictIn
  <1>4. PhaseOf(t.pc) = "planning" /\ PhaseOf(u.pc) = "running"
    BY PhaseFacts DEF GetsPlan
  <1> DEFINE b == StrictIn(t)
             c == t.mode = "learned"
             e == TaleOf(r, t)
             q == SeenOf(r, t)
             edited == EditedBy(u)
             q1 == [q EXCEPT !.phase = "running"]
  <1>5. q = ShownAs("planning", b, c, EditedBy(t), e, t.status)
    BY <1>4 DEF SeenOf
  <1>6. SeenOf(r, u) = ShownAs("running", b, c, edited, e, t.status)
    BY <1>2, <1>3, <1>4 DEF SeenOf
  <1>7. Requests[r] = q /\ q.phase = "planning"
    BY <1>4, RequestsSeen, SeenFields
  <1>8. edited \in SUBSET Contract!Layers
    BY DEF EditedBy, Contract!Layers, Layers
  <1> HIDE DEF b, c, e, q, edited
  <1>9. q1 = ShownAs("running", b, c, EditedBy(t), e, t.status)
    BY <1>5 DEF ShownAs
  <1>10. [q1 EXCEPT !.edited = edited] = ShownAs("running", b, c, edited, e, t.status)
    <2> HIDE DEF q1
    <2> QED
      BY <1>9 DEF ShownAs
  <1>11. [q EXCEPT !.phase = "running", !.edited = edited] = [q1 EXCEPT !.edited = edited]
    OBVIOUS
  <1>12. Contract!Becomes(r, [Requests[r] EXCEPT !.phase = "running", !.edited = edited])
    BY <1>6, <1>7, <1>10, <1>11, Zenon DEF Contract!Becomes, Shows
  <1> QED
    BY <1>7, <1>8, <1>12, Zenon DEF Contract!GetPlan

LEMMA DecisionShown ==
    ASSUME NEW r \in Runs, NEW t \in Thread, NEW u \in Thread, ThreadSound(r, t),
           t = run[r], u = run'[r], Shows(r), Completes(t, u) \/ FallsBack(t, u),
           u.status = t.status
    PROVE  Contract!Decide(r)
  <1>1. /\ t.pc \in {"layer", "step"} \cup Awaiting /\ u.pc = "layer" /\ t.layer \in Layers
        /\ u.budget = t.budget /\ u.mode = t.mode /\ u.plan = t.plan
    BY DEF Completes, FallsBack, LeavesLayer
  <1>2. PhaseOf(t.pc) = "running" /\ PhaseOf(u.pc) = "running"
    BY <1>1, PhaseFacts
  <1>3. StrictIn(u) = StrictIn(t) /\ EditedBy(u) = EditedBy(t)
    BY <1>1 DEF StrictIn, EditedBy
  <1> DEFINE b == StrictIn(t)
             c == t.mode = "learned"
             d == EditedBy(t)
             q == SeenOf(r, t)
             what == ToldBy(r, u, t.layer)
             tale == Append(TaleOf(r, t), what)
  <1>4. q = ShownAs("running", b, c, d, TaleOf(r, t), t.status)
    BY <1>2 DEF SeenOf
  <1>5. SeenOf(r, u) = ShownAs("running", b, c, d, tale, t.status)
    BY <1>1, <1>2, <1>3, TaleGrows DEF SeenOf
  <1>6. Requests[r] = q /\ q.phase = "running" /\ q.tale = TaleOf(r, t)
    BY <1>2, RequestsSeen, SeenFields
  <1>7. Contract!NextLayer(q) \in Contract!Layers
    BY <1>1, <1>6, TaleFacts DEF Contract!NextLayer, Contract!Layers, Layers
  <1>8. what \in IF Contract!MayBorrow(q) THEN {"borrowed", "fallback"} ELSE {"local"}
    BY DecidedLayer
  <1> HIDE DEF b, c, d, q, what, tale
  <1>9. [q EXCEPT !.tale = tale] = ShownAs("running", b, c, d, tale, t.status)
    BY <1>4 DEF ShownAs
  <1>10. tale = Append(Requests[r].tale, what)
    BY <1>6 DEF tale
  <1>11. Contract!Becomes(r, [Requests[r] EXCEPT !.tale = Append(Requests[r].tale, what)])
    BY <1>5, <1>6, <1>9, <1>10, Zenon DEF Contract!Becomes, Shows
  <1> QED
    BY <1>6, <1>7, <1>8, <1>11, Zenon DEF Contract!Decide

LEMMA FinishShown ==
    ASSUME NEW r \in Runs, NEW t \in Thread, NEW u \in Thread, ThreadSound(r, t),
           t = run[r], u = run'[r], Shows(r), Finishes(t, u)
    PROVE  \/ Contract!Deny(r) \/ Contract!GetNoPlan(r) \/ Contract!Answer(r)
           \/ SeenOf(r, u) = SeenOf(r, t)
  <1> DEFINE b == StrictIn(t)
             c == t.mode = "learned"
             d == EditedBy(t)
             e == TaleOf(r, t)
             q == SeenOf(r, t)
             q1 == [q EXCEPT !.phase = PhaseOf(u.pc)]
  <1>1. q = ShownAs(PhaseOf(t.pc), b, c, d, e, t.status)
    BY DEF SeenOf
  <1>2. SeenOf(r, u) = ShownAs(PhaseOf(u.pc), b, c, d, e, u.status)
    <2>1. StrictIn(u) = StrictIn(t) /\ EditedBy(u) = EditedBy(t) /\ u.mode = t.mode
      BY DEF Finishes, SameRecord, StrictIn, EditedBy
    <2>2. TaleOf(r, u) = TaleOf(r, t)
      BY SameTale DEF Finishes, SameRecord
    <2> QED
      BY <2>1, <2>2 DEF SeenOf
  <1>3. /\ Requests[r] = q /\ q.phase = PhaseOf(t.pc) /\ Len(q.tale) = t.layer - 1
        /\ q.reports = (t.mode = "learned")
    BY RequestsSeen, SeenFields, TaleFacts
  <1> HIDE DEF b, c, d, e, q
  <1>4. SeenOf(r, u) = [q EXCEPT !.phase = PhaseOf(u.pc), !.status = u.status]
    <2>1. q1 = ShownAs(PhaseOf(u.pc), b, c, d, e, t.status)
      BY <1>1 DEF ShownAs
    <2>2. [q1 EXCEPT !.status = u.status] = ShownAs(PhaseOf(u.pc), b, c, d, e, u.status)
      <3> HIDE DEF q1
      <3> QED
        BY <2>1 DEF ShownAs
    <2>3. [q EXCEPT !.phase = PhaseOf(u.pc), !.status = u.status]
              = [q1 EXCEPT !.status = u.status]
      OBVIOUS
    <2> QED
      BY <1>2, <2>2, <2>3
  <1>5. Contract!Becomes(r, [Requests[r] EXCEPT !.phase = PhaseOf(u.pc), !.status = u.status])
    BY <1>3, <1>4, Zenon DEF Contract!Becomes, Shows
  <1>6. CASE t.pc = "waiting" /\ u.pc = "done" /\ u.status = "PERMISSION_DENIED"
    BY <1>3, <1>5, <1>6, PhaseFacts DEF Contract!Deny
  <1>7. CASE t.pc = "proposing" /\ u.pc = "done" /\ u.status = "NO_ROUTER"
    BY <1>3, <1>5, <1>7, PhaseFacts DEF Contract!GetNoPlan
  <1>8. CASE t.pc = "layer" /\ u.pc = "reporting" /\ u.status = t.status
    BY <1>1, <1>2, <1>8, PhaseFacts DEF q
  <1>9. CASE /\ t.pc \in {"layer", "reporting"} /\ t.layer = NumLayers + 1 /\ u.pc = "done"
             /\ u.status = "OK" \/ (u.status = "NO_LEARNER" /\ t.mode = "learned")
    <2>1. Requests[r].phase = "running" /\ Len(Requests[r].tale) = NumLayers
      BY <1>3, <1>9, PhaseFacts, ConstantsAssumption
    <2>2. u.status \in {"OK"} \cup (IF Requests[r].reports THEN {"NO_LEARNER"} ELSE {})
      BY <1>3, <1>9
    <2>3. Contract!Becomes(r, [Requests[r] EXCEPT !.phase = "done", !.status = u.status])
      BY <1>5, <1>9, PhaseFacts
    <2> QED
      BY <2>1, <2>2, <2>3, Zenon DEF Contract!Answer
  <1> QED
    BY <1>6, <1>7, <1>8, <1>9 DEF Finishes, ThreadSound, WellFormed

\* Every step of a thread.
LEMMA AdvanceContract ==
    ASSUME TypeOK, AllSound, NEW r \in Runs, Advances(r)
    PROVE  ContractSteps(r) \/ UNCHANGED Requests
  <1> DEFINE t == run[r]
             u == run'[r]
  <1>1. t \in Thread /\ u \in Thread /\ ThreadSound(r, t) /\ Moves(r, t, u) /\ Shows(r)
    BY AdvanceShows DEF TypeOK, AllSound, Advances
  <1>2. ASSUME SeenOf(r, u) = SeenOf(r, t) PROVE UNCHANGED Requests
    <2>1. Requests = [q \in Runs |-> Requests[q]]
      BY DEF Requests
    <2> QED
      BY <1>1, <1>2, <2>1, RequestsSeen, Zenon DEF Shows
  <1>3. CASE /\ EntersStep(t, u) \/ NextOne(r, t, u) \/ CallsOn(r, t, u) \/ Waits(t, u)
             /\ u.status = t.status
    <2>1. SameRecord(t, u) /\ PhaseOf(u.pc) = PhaseOf(t.pc)
      BY <1>3, PhaseFacts DEF EntersStep, NextOne, CallsOn, Waits, Awaiting
    <2> QED
      BY <1>2, <1>3, <2>1, SameSeen
  <1>4. CASE Finishes(t, u)
    BY <1>1, <1>2, <1>4, FinishShown DEF ContractSteps
  <1>5. CASE Begins(t, u) /\ u.status = t.status
    BY <1>1, <1>5, BeginningShown DEF ContractSteps
  <1>6. CASE GetsPlan(t, u) /\ u.status = t.status
    BY <1>1, <1>6, PlanShown DEF ContractSteps
  <1>7. CASE (Completes(t, u) \/ FallsBack(t, u)) /\ u.status = t.status
    BY <1>1, <1>7, DecisionShown DEF ContractSteps
  <1> QED
    BY <1>1, <1>3, <1>4, <1>5, <1>6, <1>7 DEF Moves

LEMMA InitContract ==
    ASSUME Init
    PROVE  Contract!Init
  <1>1. TypeOK /\ AllSound
    BY InitSound
  <1>2. ASSUME NEW r \in Runs PROVE Seen(r) = Contract!Waiting
    <2>1. Seen(r) = SeenOf(r, run[r])
      BY RequestsSeen DEF Requests
    <2>2. /\ run[r].pc = "waiting" /\ run[r].budget = None /\ run[r].mode = None
          /\ run[r].plan = LocalPlan /\ run[r].layer = 1 /\ run[r].status = None
      BY DEF Init
    <2>3. /\ PhaseOf(run[r].pc) = "waiting" /\ StrictIn(run[r]) = FALSE /\ TaleOf(r, run[r]) = <<>>
          /\ (run[r].mode = "learned") = FALSE
      BY <2>2, NothingTold, PhaseFacts, ConstantsAssumption DEF StrictIn
    <2>4. EditedBy(run[r]) = {}
      BY <2>2 DEF EditedBy, LocalPlan
    <2> QED
      BY <2>1, <2>2, <2>3, <2>4 DEF SeenOf, ShownAs, Contract!Waiting
  <1> QED
    BY <1>2 DEF Requests, Contract!Init

LEMMA StepsContract ==
    ASSUME TypeOK, AllSound, [Next]_vars
    PROVE  [Contract!Next]_Requests
  <1>1. ASSUME run' = run PROVE UNCHANGED Requests
    <2>1. ASSUME NEW r \in Runs PROVE Requests'[r] = Requests[r]
      BY <1>1, RequestsSeen
    <2>2. Requests = [r \in Runs |-> Requests[r]] /\ Requests' = [r \in Runs |-> Requests'[r]]
      BY DEF Requests
    <2> QED
      BY <2>1, <2>2
  <1>2. ASSUME NEW r \in Runs, Advances(r) PROVE [Contract!Next]_Requests
    BY <1>2, AdvanceContract DEF ContractSteps, Contract!Next
  <1>3. ASSUME NEW m \in sent, NEW verdict \in Verdicts(m), PeerHandles(m, verdict)
        PROVE  UNCHANGED Requests
    <2>1. \A q \in Runs : Waits(run[q], run'[q]) /\ Moves(q, run[q], run'[q])
      BY <1>3, AnswerFacts
    <2>2. ASSUME NEW q \in Runs PROVE Requests'[q] = Requests[q]
      <3>1. Waits(run[q], run'[q]) /\ (run'[q]).status = run[q].status
        BY <2>1 DEF Moves, Waits, Finishes
      <3> QED
        BY <3>1, SameSeen, RequestsSeen DEF Waits
    <2>3. Requests = [r \in Runs |-> Requests[r]] /\ Requests' = [r \in Runs |-> Requests'[r]]
      BY DEF Requests
    <2> QED
      BY <2>2, <2>3
  <1>4. ASSUME NEW p \in Peers, NEW c \in live[p], LeaseLost(p, c) PROVE UNCHANGED Requests
    BY <1>1, <1>4 DEF LeaseLost
  <1>5. CASE UNCHANGED vars
    BY <1>1, <1>5 DEF vars
  <1> QED
    BY <1>2, <1>3, <1>4, <1>5, StepsAdvance DEF Next

\* RunStep decides the layers in order, each at once and for good, whatever fails
\* within one, and answers when all are decided (host.py:281-343): HostRun implements
\* RunContract, for any requests, peers, plans and budgets.
THEOREM HostImplementsRunContract == Spec => ImplementsRunContract
  <1>1. Init => Contract!Init
    BY InitContract
  <1>2. TypeOK /\ AllSound /\ [Next]_vars => [Contract!Next]_Requests
    BY StepsContract
  <1> QED
    BY <1>1, <1>2, HostInvariant, PTL DEF Spec, ImplementsRunContract, Contract!Spec

-----------------------------------------------------------------------------
(* The steps that are left.  A thread's step is never one that only waits,   *)
(* and each of the other kinds lowers StepsLeft.                             *)

LEMMA MeasureFalls ==
    ASSUME NEW r \in Runs, NEW t \in Thread, NEW u \in Thread, ThreadSound(r, t), Moves(r, t, u)
    PROVE  /\ StepsLeft(u) <= StepsLeft(t)
           /\ ~Waits(t, u) => StepsLeft(u) < StepsLeft(t)
  <1>1. /\ NumLayers \in Nat /\ t.layer \in Int /\ u.layer \in Int /\ t.layer <= NumLayers + 1
        /\ t.pos \in 1..3 /\ u.pos \in 1..3
    BY ConstantsAssumption DEF Thread
  <1>2. CASE Begins(t, u)
    <2>1. t.layer = 1 /\ u.layer = 1
      BY <1>2 DEF ThreadSound, WellFormed, Begins
    <2>2. StepsLeft(t) = 12 * NumLayers + 4
      BY <1>2 DEF Begins, StepsLeft
    <2>3. StepsLeft(u) \in {12 * NumLayers + 3, 12 * NumLayers + 2}
      BY <1>1, <1>2, <2>1 DEF Begins, StepsLeft
    <2> QED
      BY <1>1, <2>2, <2>3
  <1>3. CASE GetsPlan(t, u)
    <2>1. t.layer = 1 /\ u.layer = 1
      BY <1>3 DEF ThreadSound, WellFormed, GetsPlan
    <2>2. StepsLeft(t) = 12 * NumLayers + 3
      BY <1>3 DEF GetsPlan, StepsLeft
    <2>3. StepsLeft(u) = 12 * NumLayers + 2
      BY <1>1, <1>3, <2>1 DEF GetsPlan, StepsLeft
    <2> QED
      BY <1>1, <2>2, <2>3
  <1>4. CASE Finishes(t, u)
    <2>1. CASE t.pc \in {"waiting", "proposing"} /\ u.pc = "done"
      BY <1>1, <2>1 DEF StepsLeft
    <2>2. CASE t.pc = "layer" /\ t.layer = NumLayers + 1 /\ u.pc \in {"reporting", "done"}
      BY <1>1, <2>2 DEF StepsLeft
    <2>3. CASE t.pc = "reporting" /\ u.pc = "done"
      BY <2>3 DEF StepsLeft
    <2> QED
      BY <1>4, <2>1, <2>2, <2>3 DEF Finishes
  <1>5. CASE EntersStep(t, u)
    <2>1. t.pc = "layer" /\ u.pc = "step" /\ u.layer = t.layer /\ u.pos = 1
      BY <1>5 DEF EntersStep, SameRecord
    <2> QED
      BY <1>1, <2>1 DEF StepsLeft, LeftInStep
  \* In a step, what is left of it comes on top of the layers behind it.
  <1>6. t.pc \in {"step"} \cup Awaiting => StepsLeft(t) = LeftInStep(t)
    BY DEF StepsLeft, Awaiting
  <1>7. u.pc \in {"step"} \cup Awaiting => StepsLeft(u) = LeftInStep(u)
    BY DEF StepsLeft, Awaiting
  <1>8. ASSUME LeavesLayer(t, u), t.pc \in {"layer", "step"} \cup Awaiting
        PROVE  StepsLeft(u) < StepsLeft(t) /\ StepsLeft(u) <= StepsLeft(t)
    <2>1. u.pc = "layer" /\ u.layer = t.layer + 1
      BY <1>8 DEF LeavesLayer
    <2>2. StepsLeft(u) = 12 * (NumLayers - t.layer) + 2
      BY <1>1, <2>1 DEF StepsLeft
    <2>3. CASE t.pc = "layer"
      BY <1>1, <2>2, <2>3 DEF StepsLeft
    <2>4. CASE t.pc = "step"
      <3>1. LeftInStep(t) = 12 * (NumLayers - t.layer) + 2 + 4 * (3 - t.pos) + 3
        BY <2>4 DEF LeftInStep
      <3> QED
        BY <1>1, <1>6, <2>2, <2>4, <3>1
    <2>5. CASE t.pc \in Awaiting
      <3>1. t.pos \in 1..2
        <4>1. t.layer \in Layers /\ t.pos <= Len(t.plan[t.layer])
          BY <2>5 DEF ThreadSound, WellFormed, InStep
        <4> DEFINE len == Len(t.plan[t.layer])
        <4>2. len \in 0..2
          BY <4>1, PlanTyped DEF Thread
        <4>3. t.pos <= len
          BY <4>1
        <4> HIDE DEF len
        <4> QED
          BY <1>1, <4>2, <4>3
      <3>2. LeftInStep(t) \in {12 * (NumLayers - t.layer) + 2 + 4 * (3 - t.pos) + k : k \in 0..2}
        BY <1>1, <2>5 DEF LeftInStep, Awaiting
      <3> QED
        BY <1>1, <1>6, <2>2, <2>5, <3>1, <3>2
    <2> QED
      BY <1>8, <2>3, <2>4, <2>5
  <1>9. CASE Completes(t, u) \/ FallsBack(t, u)
    BY <1>8, <1>9, <1>1 DEF Completes, FallsBack
  <1>10. CASE NextOne(r, t, u)
    <2>1. u.pc = "step" /\ u.pos = t.pos + 1 /\ u.layer = t.layer /\ t.pc \in {"releasing", "forwarding"}
      BY <1>10 DEF NextOne, SameRecord
    <2>2. LeftInStep(u) = 12 * (NumLayers - t.layer) + 2 + 4 * (3 - (t.pos + 1)) + 3
      BY <2>1 DEF LeftInStep
    <2>3. LeftInStep(t) \in {12 * (NumLayers - t.layer) + 2 + 4 * (3 - t.pos) + k : k \in 0..1}
      BY <1>1, <2>1 DEF LeftInStep
    <2> QED
      BY <1>1, <1>6, <1>7, <2>1, <2>2, <2>3 DEF Awaiting
  <1>11. CASE CallsOn(r, t, u)
    <2>1. u.pos = t.pos /\ u.layer = t.layer
      BY <1>11 DEF CallsOn, SameRecord
    <2>2. CASE t.pc = "step" /\ u.pc \in {"leasing", "forwarding"}
      BY <1>1, <1>6, <1>7, <2>1, <2>2 DEF LeftInStep, Awaiting
    <2>3. CASE t.pc = "leasing" /\ u.pc = "forwarding"
      BY <1>1, <1>6, <1>7, <2>1, <2>3 DEF LeftInStep, Awaiting
    <2>4. CASE t.pc = "forwarding" /\ u.pc = "releasing"
      BY <1>1, <1>6, <1>7, <2>1, <2>4 DEF LeftInStep, Awaiting
    <2> QED
      BY <1>11, <2>2, <2>3, <2>4 DEF CallsOn
  <1>12. CASE Waits(t, u)
    <2>1. u.pc = t.pc /\ u.pos = t.pos /\ u.layer = t.layer
      BY <1>12 DEF Waits, SameRecord
    <2>2. StepsLeft(u) = StepsLeft(t)
      BY <2>1 DEF StepsLeft, LeftInStep
    <2>3. StepsLeft(t) \in Int
      BY <1>1 DEF StepsLeft, LeftInStep, Thread, Awaiting
    <2> QED
      BY <1>12, <2>2, <2>3
  <1> QED
    BY <1>2, <1>3, <1>4, <1>5, <1>9, <1>10, <1>11, <1>12 DEF Moves

LEMMA NeverWaits ==
    ASSUME TypeOK, AllSound, NEW r \in Runs, ThreadSteps(r)
    PROVE  ~Waits(run[r], run'[r])
  <1> DEFINE t == run[r]
  <1>1. t \in Thread /\ t.layer \in Int /\ t.layer + 1 # t.layer
    BY DEF TypeOK, Thread
  <1>2. /\ \A reason : FallenBack(t, reason).layer = t.layer + 1
        /\ LayerSummed(t).layer = t.layer + 1
        /\ NextReference(t).pc = "step" /\ StepEntered(t).pc = "step"
    BY <1>1 DEF FallenBack, LeftToLocals, LayerSummed, NextReference, StepEntered, Thread
  <1> SUFFICES (run'[r]).layer # t.layer \/ (run'[r]).pc # t.pc
    BY DEF Waits, SameRecord
  <1>3. ASSUME t.pc = "forwarding", NEW s \in Thread, s.layer = t.layer, NEW failure,
               AfterForward(r, s, failure)
        PROVE  (run'[r]).layer # t.layer \/ (run'[r]).pc # t.pc
    <2>1. /\ FallenBack(s, failure).layer = s.layer + 1 /\ NextReference(s).pc = "step"
          /\ [s EXCEPT !.pc = "releasing", !.answer = None, !.failure = failure].pc = "releasing"
      BY <1>3 DEF FallenBack, LeftToLocals, NextReference, Thread
    <2> QED
      BY <1>1, <1>3, <2>1 DEF AfterForward, TypeOK
  <1>4. ASSUME t.pc = "releasing", AfterRelease(r)
        PROVE  (run'[r]).layer # t.layer \/ (run'[r]).pc # t.pc
    BY <1>1, <1>2, <1>4 DEF AfterRelease, TypeOK
  <1>5. CASE RouterFails(r) \/ LearnerAnswers(r) \/ LearnerFails(r)
    BY <1>1, <1>5 DEF RouterFails, LearnerAnswers, LearnerFails, TypeOK, Thread
  <1>6. CASE \E plan \in Plans \cup {LocalPlan} : RouterAnswers(r, plan)
    BY <1>1, <1>6 DEF RouterAnswers, TypeOK, Thread
  <1>7. CASE LayerStarts(r)
    BY <1>1, <1>2, <1>7 DEF LayerStarts, TypeOK
  <1>8. CASE StepEnds(r)
    BY <1>1, <1>2, <1>8 DEF StepEnds, TypeOK
  <1>9. CASE Borrow(r)
    BY <1>1, <1>2, <1>9 DEF Borrow, TypeOK, Thread
  <1>10. CASE LeaseAnswered(r)
    BY <1>1, <1>2, <1>10 DEF LeaseAnswered, TypeOK, Thread
  <1>11. CASE ForwardAnswered(r)
    <2> DEFINE s == [t EXCEPT !.y = t.y \cup {ThisCall(r)}]
    <2>1. t.pc = "forwarding"
      BY <1>11 DEF ForwardAnswered
    <2>2. ThisCall(r) \in Call
      BY <2>1, AwaitingFacts DEF ThisCall, CallAt, Awaiting
    <2>3. s \in Thread /\ s.layer = t.layer
      BY <1>1, <2>2 DEF Thread
    <2>4. \/ AfterForward(r, s, None) \/ AfterForward(r, t, "DEADLINE_EXCEEDED")
          \/ AfterForward(r, t, "REFUSED")
      BY <1>11, Zenon DEF ForwardAnswered
    <2> QED
      BY <1>1, <1>3, <2>1, <2>3, <2>4
  <1>12. CASE ReleaseAnswered(r)
    BY <1>4, <1>12 DEF ReleaseAnswered
  <1>13. CASE CallFails(r)
    BY <1>1, <1>2, <1>3, <1>4, <1>13 DEF CallFails, GivesUp, Awaits, Awaiting, TypeOK
  <1>14. CASE RunStepEnds(r)
    BY <1>1, <1>14 DEF RunStepEnds, TypeOK, Thread
  <1> QED
    BY <1>5, <1>6, <1>7, <1>8, <1>9, <1>10, <1>11, <1>12, <1>13, <1>14 DEF ThreadSteps

\* Nothing is tried twice: every step of a thread brings its request nearer to its
\* end, and nothing that happens meanwhile sets it back (client/__init__.py:3).
THEOREM StepsAreSpent == Spec => StepsRunOut
  <1> DEFINE Spends == \A r \in Runs :
                           /\ StepsLeft(run'[r]) <= StepsLeft(run[r])
                           /\ ThreadSteps(r) => StepsLeft(run'[r]) < StepsLeft(run[r])
  <1>1. TypeOK /\ AllSound /\ [Next]_vars => [Spends]_vars
    <2> SUFFICES ASSUME TypeOK, AllSound, Next, NEW r \in Runs
                 PROVE  Moves(r, run[r], run'[r]) /\ run[r] \in Thread /\ run'[r] \in Thread
      BY MeasureFalls, NeverWaits DEF AllSound
    <2>1. ASSUME NEW q \in Runs, Advances(q)
          PROVE  Moves(r, run[r], run'[r])
      <3>1. CASE q = r
        BY <2>1, <3>1 DEF Advances
      <3>2. CASE q # r
        <4>1. run'[r] = run[r]
          BY <2>1, <3>2 DEF Advances, TypeOK
        <4> QED
          BY <4>1 DEF Moves, Waits, SameRecord, KeepsNoAnswer
      <3> QED
        BY <3>1, <3>2
    <2>2. ASSUME run' = run PROVE Moves(r, run[r], run'[r])
      BY <2>2 DEF Moves, Waits, SameRecord, KeepsNoAnswer
    <2>3. ASSUME NEW m \in sent, NEW verdict \in Verdicts(m), PeerHandles(m, verdict)
          PROVE  Moves(r, run[r], run'[r])
      BY <2>3, AnswerFacts
    <2>4. TypeOK'
      BY NextKeepsTypes
    <2> QED
      BY <2>1, <2>2, <2>3, <2>4, StepsAdvance DEF Next, LeaseLost, TypeOK
  <1> QED
    BY <1>1, HostInvariant, PTL DEF Spec, StepsRunOut

=============================================================================
