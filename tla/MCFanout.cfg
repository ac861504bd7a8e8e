\* Two Gmail accounts and an IMAP one; -a lists of up to three names.
SPECIFICATION FairSpec
CONSTANTS
    a = a
    b = b
    c = c
    alias = alias
    typo = typo
    Accounts <- ThreeAccounts
    Names = {a, b, c, alias, typo}
    Canonical <- ThreeNames
    Sorted <- ThreeSorted
    Unknown = Unknown
    All = All
    Heeding = {a, b}
    MaxAsked = 3
    None = None
INVARIANTS TypeOK ListedAccountsForAll NoEchoReported
PROPERTY CancelEnds
