\* IMAP and Gmail accounts: two invocations and other clients at a time on one
\* message, and one invocation after the other on two; anything may fail.
SPECIFICATION Spec
CONSTANTS
    m1 = m1
    m2 = m2
    m3 = m3
    seen = seen
    deleted = deleted
    INBOX = INBOX
    inbox = inbox
    lists = lists
    Msgs = {m1, m2, m3}
    Flags = {seen, deleted, INBOX}
    Seen = seen
    Deleted = deleted
    Inbox = INBOX
    Folders = {inbox, lists}
    NoFolder = NoFolder
    FolderOf <- TwoFolders
    Procs = {p1, p2}
    Gone = Gone
    NoRow = NoRow
    Sites <- Accounts
SYMMETRY ProcSymmetry
INVARIANTS TypeOK WrongOnlyInDoubt
CHECK_DEADLOCK FALSE
