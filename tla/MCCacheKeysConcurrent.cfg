\* Two invocations at a time, either of which may be killed at any point.
SPECIFICATION Spec
CONSTANTS
    Names = {a, b}
    Boxes = {box1}
    Keys = {k1, k2}
    Folders = {inbox}
    Procs = {p1, p2}
    NoName = NoName
    NoSection = NoSection
    NoRow = NoRow
    Fallible = TRUE
SYMMETRY Symmetry
INVARIANTS TypeOK KeyMatchesOwner
PROPERTY RekeyIsAtomic
CHECK_DEADLOCK FALSE
