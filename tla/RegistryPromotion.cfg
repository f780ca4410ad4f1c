SPECIFICATION Spec
CONSTANTS
    a1 = a1
    a2 = a2
    b1 = b1
    Principals = {pub1, pub2, router}
    Anonymous = None
    Publishers = {pub1, pub2}
    Consumers = {}
    Refs = {a1}
    Model <- ModelOfRefs
    Nodes = {n1}
    NoNode = NoNode
    NoEntry = NoEntry
    NoReply = NoReply
    Idle = Idle
    Unread = Unread
    Versions = {1}
    Caps = {0}
    Limits = {1}
    Readers = {pub1}
    Grantees = {}
    MaxPerModel = 1
    HeartbeatTtl = 1
    AutoPromote = FALSE
    EnforceOwnership = TRUE
    AllowAll = FALSE
    MaxTime = 2
PROPERTIES
    PromotionPreserved
