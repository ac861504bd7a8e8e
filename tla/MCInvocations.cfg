\* One invocation of each kind, or two where they meet.
SPECIFICATION MCSpec
CONSTANTS
    \* CacheOpen
    Openers = {p1, p2}
    Versions = {v1, v2}
    Tables = 3
    NoVersion = NoVersion
    \* CacheListing
    N = 4
    MaxDate = 3
    DefaultLimit = 2
    MaxLimit = 3
    Limits = {0, 1, 9}
    \* SendMail
    me = me
    ann = ann
    Mailboxes = {me, ann}
    Self = me
    Spellings = {1, 2}
    Unparseable = Unparseable
    MaxOthers = 3
    Ids = {i1, i2, i3}
    NoId = NoId
    MaxRefs = 2
    MaxRuns = 2
    Commands <- MCCommands
    \* AuthorizeFlow
    Flows = {f1, f2}
    NoFlow = NoFlow
    Calls = {c1, c2, c3}
    \* MessageIds
    MaxName = 3
    MaxWord = 2
    \* ThreadFetch
    MaxUid = 4
    \* ConfigUse
    Blocks <- MCBlocks
INVARIANTS
    TypesOK
    OpenIsWhole
    PagesGoBack MissedOnlyInTies
    ReachesAllOrNobody TwiceOnlyIfAnswerLost CopiesShowOpenRecipients RepliesKeepTheirPlace
    TokenOfOwnConsent
    AnswerIsTheThread InvalidMeansGone
    LoadedOpens DoctorVouches
PROPERTIES
    ListingEnds FlowsReturn IdsComeBack
CHECK_DEADLOCK FALSE
