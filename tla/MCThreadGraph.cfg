\* Four messages, four Message-IDs, two of them in the headers of a message.
SPECIFICATION FairSpec
CONSTANTS
    N = 4
    Ids = {w, x, y, z}
    NoId = NoId
    MaxRefs = 2
INVARIANTS TypeOK ChainsEnd OneLinkPerCycle DepthsFollowParents ThreadIsWhole
PROPERTY Returns
CHECK_DEADLOCK FALSE
