SPECIFICATION Spec
CONSTANTS
    Requests = {r1, r2}
    Layers = {1}
    Refs = {e1}
    LayerOf <- MCLayerOf
    Compat = "any_with_adapter"
    Selected <- AllLayers
    MaxLayers = 2
    PoolSize = 1
    MaxCandidates = 3
    Ops = {"replace"}
    Latencies = {1}
    UnknownLatency = 2
    Budgets <- MCBudgets
    DefaultRemotes = 2
    DefaultLatency = 3
    Wanted = {2}
    DefaultWanted = 2
    PolicyTtl = 1
    RpcTimeout = 1
    None = None
    MaxChanges = 0
    MaxTime = 3
INVARIANTS
    PolicyAgeBound
SYMMETRY Interchangeable
CHECK_DEADLOCK FALSE
