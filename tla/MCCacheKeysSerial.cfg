\* One invocation at a time, none killed: the lifecycle of accounts.
SPECIFICATION Spec
CONSTANTS
    Names = {a, b, c}
    Boxes = {box1, box2}
    Keys = {k1}
    Folders = {inbox}
    Procs = {p1}
    NoName = NoName
    NoSection = NoSection
    NoRow = NoRow
    Fallible = FALSE
SYMMETRY DataSymmetry
INVARIANT RowsFollowAccounts
PROPERTY InvalidationReachesRow
CHECK_DEADLOCK FALSE
