SPECIFICATION Spec
CONSTANTS
    a1 = a1
    a2 = a2
    b1 = b1
    Principals = {pub1, pub2, router}
    Anonymous = None
    Publishers = {pub1, pub2}
    Consumers = {router}
    Refs = {a1, a2}
    Model <- ModelOfRefs
    Nodes = {}
    NoNode = NoNode
    NoEntry = NoEntry
    NoReply = NoReply
    Idle = Idle
    Unread = Unread
    Versions = {1, 2}
    Caps = {0}
    Limits = {}
    Readers = {}
    Grantees = {pub2}
    MaxPerModel = 1
    HeartbeatTtl = 1
    AutoPromote = FALSE
    EnforceOwnership = TRUE
    AllowAll = TRUE
    MaxTime = 0
INVARIANTS
    QuotaBound
    ReadersKeepSight
PROPERTIES
    OnlyOwnerDisposes
