\* One invocation at a time, any of which may be killed.
SPECIFICATION Spec
CONSTANTS
    Names = {a, b}
    Boxes = {box1}
    Keys = {k1}
    Folders = {inbox}
    Procs = {p1}
    NoName = NoName
    NoSection = NoSection
    NoRow = NoRow
    Fallible = TRUE
PROPERTY ClearRecovers
CHECK_DEADLOCK FALSE
