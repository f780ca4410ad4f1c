SPECIFICATION Spec
CONSTANTS
    p = p
    q = q
    Runs = {r1}
    Peers = {p}
    NumLayers = 2
    Plans <- RouterPlans
    Budgets <- DefaultBudgets
    Modes = {"learned"}
    SlowPeers = {}
    MaxLeases = 1
    None = None
CHECK_DEADLOCK FALSE
PROPERTIES
    NoForwardAfterExpiry
