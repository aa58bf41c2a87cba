SPECIFICATION FairSpec
CONSTANTS
    Prs = {p1, p2}
    MaxVersion = 2
    MaxFaults = 1
    MaxDerived = 2
INVARIANTS OneSetOfBytes GreenMeansShipped
PROPERTIES TrustRootFrozen BumpShips
CHECK_DEADLOCK FALSE
