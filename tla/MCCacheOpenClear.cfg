\* One invocation at a time, of the binary before and after an upgrade.
SPECIFICATION OpenSpec
CONSTANTS
    Openers = {p1}
    Versions = {v1, v2}
    Tables = 3
    NoVersion = NoVersion
INVARIANT ClearIsNotRefused
CHECK_DEADLOCK FALSE
