\* No UID 1 in the window; the mailbox may be recreated once.
SPECIFICATION FairSpec
CONSTANTS
    Limit = 2
    FirstUid = 2
    MaxUid = 4
    MaxValidity = 2
INVARIANTS TypeOK Covered CountsOnce
PROPERTIES SyncEnds KeepsPromise
CHECK_DEADLOCK FALSE
