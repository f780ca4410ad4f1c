SPECIFICATION Spec
CONSTANTS
    Requests = {r1}
    Layers = {1, 2}
    Refs = {e1, e2}
    LayerOf <- MCLayerOf
    Compat = "any_with_adapter"
    Selected <- AnyLayers
    MaxLayers = 2
    PoolSize = 1
    MaxCandidates = 3
    Ops = {"replace", "augment"}
    Latencies = {1, 2}
    UnknownLatency = 2
    Budgets <- MCBudgets
    DefaultRemotes = 2
    DefaultLatency = 3
    Wanted = {0, 1}
    DefaultWanted = 2
    PolicyTtl = 1
    RpcTimeout = 1
    None = None
    MaxChanges = 1
    MaxTime = 1
INVARIANTS
    TypeOK
    RepliesKeepPromises
    OfferedWereRoutable
    AdapterUnlessChanged
SYMMETRY Interchangeable
CHECK_DEADLOCK FALSE
