SPECIFICATION HubSpec
CONSTANTS
    c1 = c1
    c2 = c2
    d1 = d1
    d2 = d2
    Ids = {i1, i2}
    Contents = {c1, c2}
    Digests = {d1, d2}
    DigestOf <- DigestOfContents
    NoAdapter = NoAdapter
    NoDigest = NoDigest
    NoAnswer = NoAnswer
    Free = Free
    Workers = {w1, w2, w3}
    Callers = {pub1, pub2, None}
    Writers = {pub1}
    NoCaller = None
    Lab = FALSE
    RequireDigest = TRUE
SYMMETRY Symmetry
INVARIANTS
    HubTypeOK
    DigestHeals
    ServedWithItsDigest
