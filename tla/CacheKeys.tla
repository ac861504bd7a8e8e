------------------------------ MODULE CacheKeys ------------------------------
(***************************************************************************)
(* Which account a cached envelope belongs to.                             *)
(*                                                                         *)
(* Every mbx ID embeds an account name, names change by `mbx account       *)
(* rename` (the old one stays as an alias), and the SQLite cache keys its  *)
(* rows by ID and by an account column.  The module composes the three     *)
(* pieces of code that must agree on names:                                *)
(*   - the edits of config.toml (internal/account/configfile.go) and what  *)
(*     config.Load accepts (internal/config/config.go);                    *)
(*   - the canonicalise-on-write cache store (internal/cache);             *)
(*   - the verbs that resolve a name once and use the answer later         *)
(*     (cmd/mbx: cache sync, cache clear, message delete, account rename). *)
(*                                                                         *)
(* A process is one invocation of mbx at a time.  It takes a step at each  *)
(* point where the file system or SQLite makes its effect visible, so two  *)
(* invocations interleave, and a killed one stops between two such points. *)
(***************************************************************************)
EXTENDS Naturals, FiniteSets

CONSTANTS
    Names,      \* account names a user may type
    Boxes,      \* the mailboxes (servers, logins) an account block may point at
    Keys,       \* what is left of an mbx ID when its account is taken away
    Folders,    \* provider folder names, as sync_state records them
    Procs,      \* concurrently running invocations of mbx
    NoName, NoSection, NoRow,
    Fallible    \* TRUE: an invocation may be killed, or find SQLite busy

ASSUME NoNameFresh == NoName \notin Names
ASSUME FallibleType == Fallible \in BOOLEAN

VARIABLES
    file,       \* config.toml: the [accounts.<name>] block of each name
    rows,       \* table envelopes: primary key -> account column and mailbox
    stamped,    \* table sync_state, as the set of its primary keys
    proc,       \* what each invocation has in hand
    intact      \* history: every config.toml so far was one config.Load accepts

vars == <<file, rows, stamped, proc, intact>>

-----------------------------------------------------------------------------
(* config.toml *)

\* A block: the mailbox it configures, whether it is active or commented out,
\* and its aliases list.
Section == [box : Boxes, on : BOOLEAN, aliases : SUBSET Names]

ASSUME NoSectionFresh == NoSection \notin Section

File == [Names -> Section \union {NoSection}]

Accounts(f) == {n \in Names : f[n] # NoSection /\ f[n].on}

\* Load: at least one account, no alias equal to a canonical name, no alias
\* claimed twice.
Loadable(f) ==
    /\ Accounts(f) # {}
    /\ \A a \in Accounts(f) : f[a].aliases \intersect Accounts(f) = {}
    /\ \A a, b \in Accounts(f) :
           a # b => f[a].aliases \intersect f[b].aliases = {}

\* The canonical name of n, or NoName for a name the config does not know.
Resolve(f, n) ==
    IF n \in Accounts(f) THEN n
    ELSE IF \E a \in Accounts(f) : n \in f[a].aliases
         THEN CHOOSE a \in Accounts(f) : n \in f[a].aliases
         ELSE NoName

\* HasAccount: a block is present whether or not it is commented out.
HasAccount(f, n) == f[n] # NoSection

\* The text RenameAccount writes back: the block under its new name, with the
\* old name as its only alias.
Renamed(f, old, new) ==
    [f EXCEPT ![new] = [f[old] EXCEPT !.aliases = {old}], ![old] = NoSection]

-----------------------------------------------------------------------------
(* The cache store *)

ID == Names \X Keys                       \* mbx IDs: an account and the rest

Row == [owner : Names, box : Boxes]

ASSUME NoRowFresh == NoRow \notin Row

\* canonicalizeAccount and canonicalizeID: an unknown name passes through.
CanonicalAccount(f, n) == IF Resolve(f, n) = NoName THEN n ELSE Resolve(f, n)
CanonicalID(f, id) == <<CanonicalAccount(f, id[1]), id[2]>>

\* PutEnvelopes: upsert one row per ID of the page, in one transaction.
PutEnvelopes(f, account, ids, box) ==
    rows' = [i \in ID |->
                IF \E id \in ids : CanonicalID(f, id) = i
                THEN [owner |-> CanonicalAccount(f, account), box |-> box]
                ELSE rows[i]]

\* DeleteByIDs: one transaction, rows that are not cached are no error.
DeleteByIDs(f, ids) ==
    rows' = [i \in ID |->
                IF \E id \in ids : CanonicalID(f, id) = i THEN NoRow ELSE rows[i]]

Owned(account) == {i \in ID : rows[i] # NoRow /\ rows[i].owner = account}

\* ClearAccount: the rows and the sync_state of one account.
ClearAccount(f, account) ==
    LET cname == CanonicalAccount(f, account)
    IN  /\ rows' = [i \in ID |-> IF i \in Owned(cname) THEN NoRow ELSE rows[i]]
        /\ stamped' = {s \in stamped : s[1] # cname}

\* The re-stamped ID of a row, and the updates SQLite refuses: a primary key of
\* envelopes or of sync_state that is taken.
Rekeyed(i, new) == <<new, i[2]>>
RekeyConflict(old, new) ==
    \/ \E i \in Owned(old) : Rekeyed(i, new) # i /\ rows[Rekeyed(i, new)] # NoRow
    \/ \E i, j \in Owned(old) : i # j /\ Rekeyed(i, new) = Rekeyed(j, new)
    \/ \E fo \in Folders : {<<old, fo>>, <<new, fo>>} \subseteq stamped

\* (mutant) The primary keys move, the account column does not.
RekeyRowsKeepingOwner(old, new) ==
    /\ rows' = [i \in ID |->
           IF ~RekeyConflict(old, new) /\ \E o \in Owned(old) : Rekeyed(o, new) = i
           THEN rows[CHOOSE o \in Owned(old) : Rekeyed(o, new) = i]
           ELSE IF i \in Owned(old) /\ ~RekeyConflict(old, new) THEN NoRow ELSE rows[i]]
    /\ UNCHANGED stamped

\* (mutant) Each row in a transaction of its own: a refused one stays behind.
RekeyRowByRow(old, new) ==
    LET moved == {o \in Owned(old) : rows[Rekeyed(o, new)] = NoRow}
    IN  /\ rows' = [i \in ID |->
               IF \E o \in moved : Rekeyed(o, new) = i
               THEN [rows[CHOOSE o \in moved : Rekeyed(o, new) = i] EXCEPT !.owner = new]
               ELSE IF i \in moved THEN NoRow ELSE rows[i]]
        /\ UNCHANGED stamped

\* RenameAccount of the store: all rows of old or, when one update fails, none.
RekeyRows(old, new) ==
    IF old = new \/ RekeyConflict(old, new)
    THEN UNCHANGED <<rows, stamped>>
    ELSE /\ rows' = [i \in ID |->
              IF \E o \in Owned(old) : Rekeyed(o, new) = i
              THEN [rows[CHOOSE o \in Owned(old) : Rekeyed(o, new) = i]
                      EXCEPT !.owner = new]
              ELSE IF i \in Owned(old) THEN NoRow ELSE rows[i]]
         /\ stamped' = {<<IF s[1] = old THEN new ELSE s[1], s[2]>> : s \in stamped}

-----------------------------------------------------------------------------
(* Invocations *)

PCs == {"idle", "sync", "mutated", "invalidate", "clear", "write", "rekey"}

Process == [pc : PCs, cfg : File, acct : Names \union {NoName},
            to : Names \union {NoName}, keys : SUBSET Keys]

\* What is left in hand between two invocations.
Idle == [pc |-> "idle", cfg |-> [n \in Names |-> NoSection],
         acct |-> NoName, to |-> NoName, keys |-> {}]

Become(p, q) == proc' = [proc EXCEPT ![p] = q]
Goto(p, label) == Become(p, [proc[p] EXCEPT !.pc = label])
Finish(p) == Become(p, Idle)

\* The start of a verb: load the config, resolve the name that was typed.
Begin(p, label, n, keys) ==
    /\ proc[p].pc = "idle"
    /\ Loadable(file)
    /\ Resolve(file, n) # NoName
    /\ Become(p, [pc |-> label, cfg |-> file, acct |-> Resolve(file, n),
                  to |-> NoName, keys |-> keys])
    /\ UNCHANGED <<file, rows, stamped, intact>>

\* cache sync of one account: pages are written as they arrive, each in a
\* transaction of its own, with the resolver the verb loaded at its start.
SyncStart(p) == \E n \in Names : Begin(p, "sync", n, {})

SyncPut(p) ==
    LET cfg == proc[p].cfg
        acct == proc[p].acct
    IN  /\ proc[p].pc = "sync"
        /\ \E ks \in (SUBSET Keys) \ {{}} :
               PutEnvelopes(cfg, acct, {acct} \X ks, cfg[acct].box)
        /\ UNCHANGED <<file, stamped, proc, intact>>

\* (mutant) The stamp resolves the name again, in the config of that moment.
SyncStampReresolved(p) ==
    /\ proc[p].pc = "sync"
    /\ \E fo \in Folders : stamped' = stamped \union {<<Resolve(file, proc[p].acct), fo>>}
    /\ Finish(p)
    /\ UNCHANGED <<file, rows, intact>>

SyncStamp(p) ==
    LET cname == CanonicalAccount(proc[p].cfg, proc[p].acct)
    IN  /\ proc[p].pc = "sync"
        /\ \E fo \in Folders : stamped' = stamped \union {<<cname, fo>>}
        /\ Finish(p)
        /\ UNCHANGED <<file, rows, intact>>

\* The provider, or SQLite, failed: no stamp, and the pages written stay.
SyncFail(p) ==
    /\ proc[p].pc = "sync"
    /\ Finish(p)
    /\ UNCHANGED <<file, rows, stamped, intact>>

\* message move, archive or delete: the server has done it when the verb goes
\* on, and the invalidation then loads the config a second time.
Mutate(p) == \E n \in Names, k \in Keys : Begin(p, "mutated", n, {k})

ReloadConfig(p) ==
    /\ proc[p].pc = "mutated"
    /\ IF Loadable(file)
       THEN Become(p, [proc[p] EXCEPT !.pc = "invalidate", !.cfg = file])
       ELSE Finish(p)
    /\ UNCHANGED <<file, rows, stamped, intact>>

Invalidate(p) ==
    /\ proc[p].pc = "invalidate"
    /\ DeleteByIDs(proc[p].cfg, {proc[p].acct} \X proc[p].keys)
    /\ Finish(p)
    /\ UNCHANGED <<file, stamped, intact>>

\* cache clear of one account.
ClearStart(p) == \E n \in Names : Begin(p, "clear", n, {})

ClearRows(p) ==
    /\ proc[p].pc = "clear"
    /\ ClearAccount(proc[p].cfg, proc[p].acct)
    /\ Finish(p)
    /\ UNCHANGED <<file, intact>>

\* The three edits of config.toml read the whole file and write it back whole;
\* none of them loads it, so they work on a file config.Load refuses.
Edit(p, f, old, new) ==
    /\ proc[p].pc = "idle"
    /\ Become(p, [pc |-> "write", cfg |-> f, acct |-> old, to |-> new, keys |-> {}])
    /\ UNCHANGED <<file, rows, stamped, intact>>

\* RenameAccount.  The two HasAccount and the text to be edited are reads of the file
\* of their own in the code, and one here.
RenameRead(p) ==
    \E old, new \in Names :
        /\ old # new
        /\ ~HasAccount(file, new)
        /\ HasAccount(file, old)
        /\ file[old].on                     \* only an active header is rewritten
        /\ file[old].aliases = {}           \* an aliases line refuses the rename
        /\ Edit(p, Renamed(file, old, new), old, new)

\* AddTemplate; here, too, the check and the text are one read of the file.
AddRead(p) ==
    \E n \in Names, b \in Boxes :
        /\ ~HasAccount(file, n)
        /\ Edit(p, [file EXCEPT ![n] = [box |-> b, on |-> FALSE, aliases |-> {}]],
                NoName, NoName)

\* (mutant) The block is deleted instead of commented out.
RemoveReadDeleting(p) ==
    \E n \in Accounts(file) :
        Edit(p, [file EXCEPT ![n] = NoSection], NoName, NoName)

RemoveRead(p) ==
    \E n \in Accounts(file) :
        Edit(p, [file EXCEPT ![n].on = FALSE], NoName, NoName)

ConfigWrite(p) ==
    /\ proc[p].pc = "write"
    /\ file' = proc[p].cfg
    /\ intact' = (intact /\ Loadable(file'))
    /\ IF proc[p].to = NoName THEN Finish(p) ELSE Goto(p, "rekey")
    /\ UNCHANGED <<rows, stamped>>

\* (mutant) The cache is left alone when the old name is no account any more,
\* which after the rewrite it never is.
RenameRowsOfAccounts(p) ==
    /\ proc[p].pc = "rekey"
    /\ IF Loadable(file) /\ Resolve(file, proc[p].acct) = proc[p].acct
       THEN RekeyRows(proc[p].acct, proc[p].to)
       ELSE UNCHANGED <<rows, stamped>>
    /\ Finish(p)
    /\ UNCHANGED <<file, intact>>

\* renameCacheRows, after the TOML rewrite: nothing to do with a config that
\* does not load (the loaded value is used for the path of the cache only).
RenameRows(p) ==
    /\ proc[p].pc = "rekey"
    /\ IF Loadable(file) THEN RekeyRows(proc[p].acct, proc[p].to)
                         ELSE UNCHANGED <<rows, stamped>>
    /\ Finish(p)
    /\ UNCHANGED <<file, intact>>

\* Between two invocations the user removes the comment signs of a block in an
\* editor.
Activate(p) ==
    /\ proc[p].pc = "idle"
    /\ \E n \in Names :
           /\ HasAccount(file, n)
           /\ ~file[n].on
           /\ file' = [file EXCEPT ![n].on = TRUE]
    /\ intact' = (intact /\ Loadable(file'))
    /\ UNCHANGED <<rows, stamped, proc>>

\* The process is killed, or its best-effort cache step fails and is only
\* logged: what was written stays written, and nothing more is.
Abort(p) ==
    /\ Fallible
    /\ proc[p].pc # "idle"
    /\ Finish(p)
    /\ UNCHANGED <<file, rows, stamped, intact>>

-----------------------------------------------------------------------------
(* Initially some accounts are configured, under no alias, and nothing is   *)
(* cached.                                                                  *)
Init ==
    /\ file \in {f \in [Names -> [box : Boxes, on : {TRUE}, aliases : {{}}]
                                    \union {NoSection}] : Loadable(f)}
    /\ rows = [i \in ID |-> NoRow]
    /\ stamped = {}
    /\ proc = [p \in Procs |-> Idle]
    /\ intact = TRUE

Next ==
    \E p \in Procs :
          \/ SyncStart(p) \/ SyncPut(p) \/ SyncStamp(p) \/ SyncFail(p)
          \/ Mutate(p) \/ ReloadConfig(p) \/ Invalidate(p)
          \/ ClearStart(p) \/ ClearRows(p)
          \/ RenameRead(p) \/ AddRead(p) \/ RemoveRead(p)
          \/ ConfigWrite(p) \/ RenameRows(p)
          \/ Activate(p)
          \/ Abort(p)

Spec == Init /\ [][Next]_vars

-----------------------------------------------------------------------------
(* Properties *)

\* Every variable stays in its range.
TypeOK ==
    /\ file \in File
    /\ rows \in [ID -> Row \union {NoRow}]
    /\ stamped \in SUBSET (Names \X Folders)
    /\ proc \in [Procs -> Process]
    /\ intact \in BOOLEAN

\* The account column of a row and the account segment of its primary key never
\* part, whatever interleaves and wherever an invocation is killed: cache list
\* and cache clear select by the column, write-through by the key.
KeyMatchesOwner == \A i \in ID : rows[i] # NoRow => rows[i].owner = i[1]

\* A rename moves all the cached rows of an account or none (one transaction):
\* a step that moves one row from a name to another empties the first and loses
\* no row of it.
Moves(k, a, b) ==
    /\ rows[<<a, k>>] # NoRow /\ rows'[<<a, k>>] = NoRow
    /\ rows[<<b, k>>] = NoRow /\ rows'[<<b, k>>] # NoRow
RekeyIsAtomic ==
    [][\A a, b \in Names : (a # b /\ \E k \in Keys : Moves(k, a, b)) =>
           \A k \in Keys : /\ rows'[<<a, k>>] = NoRow
                           /\ rows[<<a, k>>] # NoRow => Moves(k, a, b)]_rows

Quiet == \A p \in Procs : proc[p].pc = "idle"

\* One invocation after the other, none failing, and every config.toml written
\* so far loadable: each cached row stands under a name that still has a block,
\* and holds an envelope of the mailbox that block configures -- through
\* renames, removals and re-additions of accounts.
RowsFollowAccounts ==
    intact /\ Quiet =>
        \A i \in ID : rows[i] # NoRow =>
            /\ HasAccount(file, rows[i].owner)
            /\ file[rows[i].owner].box = rows[i].box

\* Under the same conditions, when the invalidation after a move or a delete is
\* done, no row of the message is left under the account's name or under a name
\* that resolves to it and has no block of its own.
InvalidationReachesRow ==
    [][\A p \in Procs : intact /\ proc[p].pc = "invalidate" /\ proc'[p].pc = "idle" =>
           \A i \in ID : /\ i[2] \in proc[p].keys
                         /\ Resolve(file, i[1]) = Resolve(file, proc[p].acct)
                         /\ HasAccount(file, i[1]) => i[1] = proc[p].acct
                         => rows'[i] = NoRow]_vars

\* rename.go:18 and ADR-0008: after a rename whose cache step failed, clearing
\* the account recovers: no row under any of its names outlives the clear.
ClearRecovers ==
    [][\A p \in Procs : proc[p].pc = "clear" /\ ClearRows(p) =>
           \A i \in ID : /\ Resolve(file, i[1]) = proc[p].acct
                         /\ HasAccount(file, i[1]) => i[1] = proc[p].acct
                         => rows'[i] = NoRow]_vars

\* ADR-0007: the rename verb validates that the new name is no alias, so that a
\* rename never turns a config that loads into one that does not.
RenameKeepsLoadable ==
    [][\A p \in Procs : proc[p].pc = "write" /\ proc'[p].pc = "rekey" =>
           (Loadable(file) => Loadable(file'))]_vars
=============================================================================
