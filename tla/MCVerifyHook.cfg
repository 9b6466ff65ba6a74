SPECIFICATION PartSpec
CONSTANTS
    Conns = {c1, c2}
    Heads = {h1, h2}
    MaxTorn = 1
    FirstConn = c1
    FirstHead = h1
INVARIANTS PassIsEarned NothingOutlives
PROPERTIES EvidenceFrozen Returns
