\* One invocation at a time, none killed.
SPECIFICATION Spec
CONSTANTS
    Names = {a, b, c}
    Boxes = {box1}
    Keys = {k1}
    Folders = {inbox}
    Procs = {p1}
    NoName = NoName
    NoSection = NoSection
    NoRow = NoRow
    Fallible = FALSE
PROPERTY RenameKeepsLoadable
CHECK_DEADLOCK FALSE
