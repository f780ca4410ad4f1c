----------------------------- MODULE RunContract -----------------------------
(***************************************************************************)
(* What a host promises of its RunStep requests, without saying how it     *)
(* borrows: a request is denied, or let in once; it gets at most one plan; *)
(* its layers are decided in order, each at once and for good; and it is   *)
(* answered when all of them are, with what became of each.                *)
(*                                                                         *)
(* A layer the plan does not edit is computed locally.  One it edits took  *)
(* all the remote results planned for it, or fell back; once a layer of a  *)
(* strict request fell back, the layers that follow are local.             *)
(*                                                                         *)
(* HostRun is shown to implement this specification.                       *)
(***************************************************************************)
EXTENDS Integers, Sequences

CONSTANTS
    Runs,         \* RunStep requests
    NumLayers,    \* layers of the host
    None

VARIABLE
    req           \* per request, what can be seen of it

Layers == 1..NumLayers

\* phase: "waiting", "planning", "running", "done"; edited: the layers its plan
\* borrows for; tale: "local", "borrowed" or "fallback" for each layer decided.
Waiting == [phase |-> "waiting", strict |-> FALSE, reports |-> FALSE, edited |-> {},
            tale |-> <<>>, status |-> None]

Init == req = [r \in Runs |-> Waiting]

Becomes(r, q) == req' = [req EXCEPT ![r] = q]

Deny(r) ==
    /\ req[r].phase = "waiting"
    /\ Becomes(r, [req[r] EXCEPT !.phase = "done", !.status = "PERMISSION_DENIED"])

\* A request that wants no plan runs at once, and reports to nobody.
Admit(r) ==
    /\ req[r].phase = "waiting"
    /\ \E strict \in BOOLEAN, reports \in BOOLEAN, phase \in {"planning", "running"} :
          /\ reports => phase = "planning"
          /\ Becomes(r, [req[r] EXCEPT !.phase = phase, !.strict = strict, !.reports = reports])

GetPlan(r) ==
    /\ req[r].phase = "planning"
    /\ \E edited \in SUBSET Layers :
          Becomes(r, [req[r] EXCEPT !.phase = "running", !.edited = edited])

GetNoPlan(r) ==
    /\ req[r].phase = "planning"
    /\ Becomes(r, [req[r] EXCEPT !.phase = "done", !.status = "NO_ROUTER"])

HasFallenBack(q) == \E n \in 1..Len(q.tale) : q.tale[n] = "fallback"
NextLayer(q) == Len(q.tale) + 1
MayBorrow(q) == NextLayer(q) \in q.edited /\ ~(q.strict /\ HasFallenBack(q))

\* The next layer is decided.
Decide(r) ==
    /\ req[r].phase = "running" /\ NextLayer(req[r]) \in Layers
    /\ \E what \in IF MayBorrow(req[r]) THEN {"borrowed", "fallback"} ELSE {"local"} :
          Becomes(r, [req[r] EXCEPT !.tale = Append(req[r].tale, what)])

\* A request whose report failed is answered with an error.
Answer(r) ==
    /\ req[r].phase = "running" /\ Len(req[r].tale) = NumLayers
    /\ \E status \in {"OK"} \cup (IF req[r].reports THEN {"NO_LEARNER"} ELSE {}) :
          Becomes(r, [req[r] EXCEPT !.phase = "done", !.status = status])

Next == \E r \in Runs : Deny(r) \/ Admit(r) \/ GetPlan(r) \/ GetNoPlan(r) \/ Decide(r) \/ Answer(r)

Spec == Init /\ [][Next]_req

=============================================================================
