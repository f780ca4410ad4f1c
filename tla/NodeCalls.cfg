SPECIFICATION Spec
CONSTANTS
    e1 = e1
    e2 = e2
    Principals = {alice, bob}
    Anonymous = None
    Refs = {e1, e2, stranger}
    Experts = {e1, e2}
    LeaseIds = {l1, l2}
    NoExpert = NoExpert
    NoLease = NoLease
    RequestIds = {r1, r2}
    NoRequestId = NoRequestId
    NoReply = NoReply
    Capacity <- CapacityOfExperts
    Qps <- AskedQps
    Ttls <- AskedTtls
    DefaultTtl = 1
    MaxTtl = 1
    MaxLeases = 1
    RequestIdTtl = 1
    BatchTokens = 6
    AclOpen = FALSE
    AclAllow = {alice, bob}
    PriorityAdmins = {bob}
    MaxTime = 3
SYMMETRY Symmetry
VIEW Remembered
INVARIANTS
    LeaseTableBound
    TypeOK
    ChargedOncePerTtl
PROPERTIES
    ImplementsLeaseContract
    RefusedOnlyAtCapacity
    EachCallerSeesATable
