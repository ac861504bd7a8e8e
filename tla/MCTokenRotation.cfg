\* Three invocations at a time; the provider issues up to three tokens.
SPECIFICATION Spec
CONSTANTS
    Procs = {p1, p2, p3}
    MaxTokens = 3
    Empty = Empty
    Sentinel = Sentinel
    NoToken = NoToken
INVARIANTS TypeOK StoredIsLive
CHECK_DEADLOCK FALSE
