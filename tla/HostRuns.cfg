SPECIFICATION Spec
CONSTANTS
    p = p
    q = q
    Runs = {r1, r2}
    Peers = {p, q}
    NumLayers = 2
    Plans <- AllPlans
    Budgets <- AllBudgets
    Modes = {"learned", "heuristic", "local"}
    SlowPeers = {q}
    MaxLeases = 1
    None = None
CONSTRAINT PlainIfTwo
CHECK_DEADLOCK FALSE
INVARIANTS
    TypeOK
    FallbacksTellTheTruth
    LeasesAccountedFor
PROPERTIES
    StrictStopsBorrowing
    ImplementsRunContract
    StepsRunOut
    EveryRunAnswers
