SPECIFICATION Spec
CONSTANTS
    RequestIds = {r1, r2, r3}
    Arms = {a1, a2}
    NoArm = NoArm
    Idle = Idle
    BatchSize = 2
    MaxArms = 1
    ReplayTtl = 1
    MaxEntries = 2
    Attested = TRUE
    Workers = 2
    MaxReports = 4
    MaxTime = 2
SYMMETRY Symmetry
PROPERTIES
    ReplaysRejected
