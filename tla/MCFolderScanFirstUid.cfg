\* The message with UID 1 is in the window.
SPECIFICATION Spec
CONSTANTS
    Limit = 2
    FirstUid = 1
    MaxUid = 4
    MaxValidity = 1
INVARIANT PagesDescend
CHECK_DEADLOCK FALSE
