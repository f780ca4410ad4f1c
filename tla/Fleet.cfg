SPECIFICATION FleetSpec
CONSTANTS
    n1 = n1
    a1 = a1
    pub1 = pub1
    Principals = {pub1, pub2}
    Anonymous = None
    Publishers = {pub1, pub2}
    Consumers = {}
    Refs = {a1, a2}
    Model <- ModelOfRefs
    Nodes = {n1, n2}
    NoNode = NoNode
    NoEntry = NoEntry
    NoReply = NoReply
    Idle = Idle
    Unread = Unread
    Versions = {1}
    Caps = {0}
    Limits = {}
    Readers = {}
    Grantees = {}
    MaxPerModel = 2
    HeartbeatTtl = 2
    AutoPromote = FALSE
    EnforceOwnership = TRUE
    AllowAll = FALSE
    MaxTime = 4
    Hosts = {n1}
    ExpertsOf <- ExpertsOfHosts
    PrincipalOf <- PrincipalOfHosts
    CertOf <- CertOfHosts
    ClockOffset <- ClockOfHosts
    VersionOf <- One
    CapacityOf <- Zero
    Interval = 1
    RpcTimeout = 1
    PublishTimeout = 2
    NoCall = NoCall
    NoRef = NoRef
    Unsigned = Unsigned
    HasSecret = TRUE
    RequireToken = TRUE
    TrustMeta = TRUE
    MaxSkew = 1
CONSTRAINT OthersWantA1
VIEW Seen
INVARIANTS
    FleetTypeOK
    UpMeansListed
    BeatAgeBound
    ZombieBound
