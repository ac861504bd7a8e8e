# Verification of mbx

TLA+ models of mbx, model-checked with TLC and, where a property should hold for
every size of the system, proved with TLAPS. mbx is a command-line mail client:
short-lived processes that talk to IMAP, Gmail and SMTP servers, and that share
a `config.toml`, a SQLite cache and a store of secrets. Nothing but SQLite's
transactions and one atomic file rename orders two invocations, and any of them
may be killed at any point. That is where the hard behaviour is, and what the
modules are about.

## 1. The system

| Component | State | Operations | Interacts with | What is hard, and what must hold |
|---|---|---|---|---|
| cache store (`internal/cache`) | tables `envelopes`, `envelope_flags`, `folders`, `sync_state`, `schema_meta` | Open, PutEnvelopes, UpdateFlags, DeleteByIDs, ClearAccount, RenameAccount, listing and search | every verb, through a resolver of account names | Rows are keyed twice, by an mbx ID that embeds an account name and by an account column. The two must agree, and follow the account through renames. The schema is created statement by statement. A page ends at a date. |
| write-through and cache verbs (`cmd/mbx/writethrough.go`, `cache.go`) | none of their own | invalidate after a mutation, re-key after a rename, sync, clear, list, search | cache, providers, config | Best effort: the live change may have happened and the cache step not. A row may be wrong only for a reason one can name. |
| account config (`internal/account`, `internal/config`) | `config.toml`: blocks, active or commented out, with aliases | Load, Resolve, account add, remove, rename, doctor | cache keys, every verb | Edits read the whole file and replace it without a lock, and work on files Load refuses. What Load accepts is trusted by all that follows. |
| IMAP provider (`internal/provider/imap`) | one connection per invocation | list, search, flag, move, delete, folder verbs, thread | the server, which other clients change | A page is SELECT, SEARCH and FETCH; the mailbox changes in between and between pages. EXPUNGE without UIDPLUS takes more than it was asked to. |
| Gmail provider (`internal/provider/gmail`) | none | the same, over HTTP | the API | One call per message; some succeed. |
| SMTP client (`internal/provider/smtp`) | one connection | send | the server | Some recipients may be refused; the answer to the final dot may be lost. |
| OAuth tokens and secrets (`internal/account/auth`, `internal/secret`) | the refresh token in the user's store; a loopback server while a consent is waited for | read, refresh, rotate and write back, preflight, consent | the OAuth provider, the browser, every live verb | The provider may drop the old token before the new one is written; the store has no compare-and-set; anybody may call the loopback port. |
| fanout (`cmd/mbx/fanout.go`) | goroutines, two maps under a mutex, an errgroup | envelope list and search over many accounts | providers, `--strict`, signals | One failure must neither hide an account nor be mistaken for another; cancellation must end the command. |
| conversation threading (`internal/envelope/thread.go` and the providers' `thread.go`) | local to one call | choose and fetch the messages, BuildGraph | providers | Headers are anybody's: cycles must not hang it, nor cost good links. Messages come and go between the choice and the fetch. |
| message composition (`internal/message`, `cmd/mbx/message.go`) | none | recipients and threading headers of send, reply and forward, then one transport | SMTP, Gmail | Who gets the message, how often, and what it shows, through two transports that take recipients from different places. |
| message identifiers (`internal/mbxid`) | none | build, parse | every verb | Folder names contain the separator and the escape character. |
| folder verbs (`cmd/mbx/folder.go`) | none | list, add, delete, expunge, purge | providers | All but the first two take messages away whose rows nobody tells; `delete --force` is a purge and a DELETE, either of which may fail. |
| reading (`message read`, `message.go` of the providers) | none | fetch and parse a message, mark it as seen | providers | It is a verb that changes a flag, best effort, and tells the cache nothing. |
| attachments, completion, output | none | one provider call each, or formatting | providers | I/O and text. |

`PROJECT.json` lists each with its sources, how far it is modelled, and why not
further; under `hazards` are the places where this code is hard to test, each
with the properties that cover it.

How the parts meet: a verb loads the config and resolves the names on its command
line; opens a provider, whose OAuth client reads the secret; changes the server;
and then, best effort, changes the cache, for which it loads the config again. A
sync pages through a folder and upserts page by page. A rename first replaces
`config.toml` and then re-keys the cache.

## 2. The modules

| Module | Models | Proofs |
|---|---|---|
| `CacheKeys` | config.toml, the keys of the cache and the verbs between them, for interleaving and dying invocations | `CacheKeys_proofs` |
| `WriteThrough` | live verbs on IMAP and Gmail messages, with and without write-through, folder verbs, sync, and other clients | `WriteThrough_proofs` |
| `FolderScan` | `cache sync` of one IMAP folder, UID page by UID page, against a mailbox that changes | `FolderScan_proofs` |
| `FolderSync` | the abstract specification: what a sync of a folder promises | |
| `CacheOpen` | opening the cache: creation and check of the schema, several versions of the binary | `Invocations_proofs` |
| `CacheListing` | `cache list` and `cache search`, page by page, while rows come and go | `Invocations_proofs` |
| `Fanout` | the multi-account fanout | `Fanout_proofs` |
| `TokenRotation` | the life of a refresh token | `TokenRotation_proofs` |
| `AuthorizeFlow` | the loopback server of a consent | `Invocations_proofs` |
| `ConfigUse` | an account block, from Load to the connection that is opened with it | `Invocations_proofs` |
| `SendMail` | send, reply and forward: recipients, transports, lost answers, running again | `Messages_proofs` |
| `ThreadFetch` | `envelope thread` up to BuildGraph | `Messages_proofs` |
| `ThreadGraph` | BuildGraph | `ThreadGraph_proofs` |
| `MessageIds` | writing and reading mbx IDs | `Messages_proofs` |
| `MCCacheKeys`, `MCWriteThrough`, `MCFanout`, `MCInvocations` | constants, symmetry and inputs for TLC | `MCInvocations`: `Invocations_proofs` |

`MCInvocations` checks the modules that are about one kind of invocation and share
no state (`CacheOpen`, `CacheListing`, `SendMail`, `AuthorizeFlow`, `MessageIds`,
`ThreadFetch`, `ConfigUse`) in one run: a behaviour of it is one of one of them,
while the others rest.

Definitions marked `(mutant)` are plausible bugs. No specification uses them;
each shows that a property notices the bug when it takes the definition's place.

### CacheKeys

`file` is config.toml: for each name its block, or none; a block is the mailbox
it points at, whether it is active, and its aliases. `rows` is `envelopes`, from
primary key to account column and mailbox. `stamped` is the key of `sync_state`.
`proc` is what each invocation carries from one step to the next: above all
`cfg`, the config it loaded. A step is taken wherever an effect becomes visible:
a file rename, a transaction, a load of the config. So `SyncStart` loads, each
`SyncPut` is one page's transaction, `Mutate` is the resolution of a move or
delete, `ReloadConfig` the second load in `cacheInvalidateAfterMutation`, and
`RenameRead`, `ConfigWrite`, `RenameRows` are the three steps of a rename. Each
edit of the file carries the whole text it will write, as the code does, so that
a later edit can undo an earlier one. `Abort` ends an invocation anywhere.
`Activate` is the user's editor: mbx adds accounts commented out.

`intact` is history: every file so far was one that `config.Load` accepts.
Mailboxes stand for the contents of rows, which is how `RowsFollowAccounts` sees
a row that ended up under the wrong account.

Reduced: one mbx ID is an account and a key; the folder of an ID, body columns
and `envelope_flags` (which follow their row by foreign key) are not told apart. An edit
reads the file once in the model: in the code the checks that a name is there or free
(`HasAccount`) and the text that is edited are reads of their own.

### WriteThrough

`site` is the account at hand: IMAP or Gmail, with UIDPLUS or without, with other
clients or without; the rest of it are the bounds of TLC. `server[m]` is the flags of a message (on Gmail, its
labels) or `Gone`; `row[m]` the flags in its row or `NoRow`.

On IMAP, `FlagStart`, `StoreAdd`, `StoreDel`, `WriteFlags` are `envelope flag`: per
folder group `+FLAGS` and then `-FLAGS`, then a transaction per ID. `MoveStart`,
`Move` or `Mark` and `ExpungeMarked`, and `DropRows` are move, archive and delete.
On Gmail the verbs of `GmailStart` are a `GmailCall` per message, the first failure of
which ends the verb. `SyncFetch` and `SyncPut` are a page of a sync, with what it fetched
in hand in between. `Fail` ends an invocation anywhere.

Several verbs change the server and tell the cache nothing, even when all goes
well. `ReadStart` and `MarkSeen` are `message read` without `--preview`, on IMAP
(`\Seen`) and on Gmail (the label UNREAD). `PurgeStart`, `PurgeMark` and `Sweep` are
`folder purge` and `folder expunge`; `DeleteFolder` is `folder delete`, alone, or after the
two others with `--force`. Gmail's purge and `message copy` are among the verbs of
`GmailStart`; on IMAP a copy changes nothing that has an ID yet.

A cache that is written best effort after the fact cannot always be right. The
history variable `doubt` says when it may be wrong, per aspect (one flag of one
message, or its being there): when an invocation concerning the aspect failed,
overlapped another, or wrote nothing through, or another client changed it, since the
last invocation that settled it undisturbed. `WrongOnlyInDoubt` is that there is no other
way: the verbs that write through never leave a wrong row by themselves. The verbs
without write-through settle nothing, however they end, and a flag that one command both
adds and removes stays in doubt: server and row end differently.

Reduced: of the labels of Gmail those that are flags and INBOX are there, user labels
are not, and so neither is `folder delete` on Gmail, which takes a user label off all
messages and leaves the rows as it found them.

### FolderScan and FolderSync

The server side of the mailbox is `validity`, `uids`, `uidnext`; the sync is
`pc`, `cursor`, `page`, `total`. `Search` is SELECT and UID SEARCH, cut to the page size;
`FetchPut` is UID FETCH, in which messages expunged since may be missing, and
the transaction that stores the page. In between, `Deliver`, `Expunge` and
`Recreate` (a new UIDVALIDITY) may happen. The upper bound `cursor - 1` is modelled
with what IMAP makes of 0.

`FolderSync` promises: a run that ends well has a row for each message that was
in the folder when it began and still is. `FolderScan` implements it with the
folder as the set of `<<uidvalidity, uid>>` that are present.

### Fanout

`worker[i]` is what goroutine `i` will do next: one provider call, one write to
a map, or its return to the errgroup. `asked` and `canonical` are the `-a` list
before and after resolution. `Heeding` are the accounts whose calls look at their
context: Gmail's do, IMAP's do not. `Return` is the errgroup: first error kept,
context cancelled.

### TokenRotation

`live` is what the provider accepts, `stored` what the secret store holds, `last`
the value an invocation has read or written last, `new` what it is about to
write. `Refresh` may rotate; `Persist` writes before the access token is used;
`PersistFails` may or may not have written. `Preflight`, `Rewrite`, `ReadBack`,
`Consent`, `Store` are `account auth`. `harm` is history: what has befallen the
stored value since the newest token was last written.

### ThreadGraph

BuildGraph is sequential; it is a state machine here, one action per turn of a
loop, because the hazard is a loop that does not end. Message-IDs are model
values, the headers of each message any sequence of them, and of the same ID the
later message wins, as in the code's map. The breadth-first queues are sets:
their order shows in no property.

### ThreadFetch

BuildGraph is given sets of messages by `ThreadFetch`, which is about the time
before: SELECT, then the UIDs that the server's THREAD or the newest-window rule
chooses, then FETCH; on Gmail the anchor's thread. `Expunge` and `Deliver` happen
in between. What BuildGraph does with a tree of well-formed references (hang each
message under the nearest that is there, and keep the anchor's component) is the
operator `Component`. The mailbox keeps its UIDVALIDITY; with another one `SelectFolder`
would end the verb before anything is fetched.

### CacheOpen

`disk` is the file: there or not, `schema_meta`, the version in it, and for each
statement of `schemaDDL` who has run it. Every statement is an action, since each
commits by itself; `OpenDies` (killed, or SQLite busy) may come between any two. `Versions`
are the schema versions of installed binaries: an upgrade is an opener of another
version. `told` is history: who has been told to run `cache clear`.

### CacheListing

A row is its date. `ListEnvelopes` is one page, as one query: the newest rows older
than the cursor; `Change` adds a row, drops it or changes whether it matches. The
flags of a page are read by a second query, which is not told apart from the first.

### SendMail

`mail` is the command line (and the source of a reply); an address is a mailbox and
a spelling, as only the spelling is compared by strings. `wire` follows MAIL, RCPT,
DATA and the final dot, or the one API call; each may be refused, and of the last
the answer may be lost, after which `RunAgain` is the user. `got` counts deliveries, and
`reads` is history: the addresses that those who got a message can read in it.

The two transports learn of the recipients in different ways, and both are there. A
composed message is its address headers (`raw`), the SMTP recipients, and the Bcc
addresses. SMTP delivers `raw` as it is to those the RCPT commands named. The Gmail
client adds a Bcc header (`InjectBccHeader`), and the API takes its recipients from all
address headers and delivers a copy without that header (`ApiStripped`). The last is what
the comment in `gmail/send.go` says of Gmail; it is outside this code, and assumed. So
`CopiesShowOpenRecipients` rests on it for Gmail, and on `Compose` for SMTP: a Bcc header
that was in `raw` to begin with would be shown to everybody that SMTP delivers to.
`ThreadingHeaders` are those of a reply, and `ParentIn` is where BuildGraph puts a
message with such headers.

### AuthorizeFlow

A flow binds the port, waits, exchanges the code of the first result, and shuts its
server down, for at most two seconds. A request is handled by a goroutine that judges it
against the state of the flow, sends its verdict into a channel of one, and
answers. `pages` are the consent pages open in a browser, which outlive their flow.

### ConfigUse

A block is the presence and kind of its fields. `Load` is the validation;
`OpenFor` is what the providers, the token source and `account auth` make of the
same block, each of which reads its own part; `Doctor` is the verdict of `account
doctor`. `works` are the secret backends that answer just now.

### MessageIds

A name is a sequence of symbols: the separator, the escape character, the two pairs
that follow it, and a letter for all others. `String` and `Parse` are translated as
they are, escape by escape.

## 3. The runs

| Run | Checks | Bounds |
|---|---|---|
| `accounts_serial` | `RowsFollowAccounts`, `InvalidationReachesRow`: whatever sequence of renames, removals, re-additions, syncs, clears and deletes is run one after the other | 3 names, 2 mailboxes, 1 key |
| `accounts_concurrent` | `TypeOK`, `KeyMatchesOwner`, `RekeyIsAtomic`, with two invocations interleaving and dying anywhere | 2 names, 2 keys, 2 invocations |
| `accounts_clear` | violates `ClearRecovers` | 2 names, 1 invocation |
| `accounts_rename` | violates `RenameKeepsLoadable` | 3 names, 1 invocation |
| `scan` | `TypeOK`, `Covered`, `CountsOnce`, `SyncEnds`, `KeepsPromise` | pages of 2, UIDs 2 to 4, two incarnations of the mailbox |
| `scan_first_uid` | violates `PagesDescend` | pages of 2, UIDs 1 to 4 |
| `write_through` | `TypeOK`, `WrongOnlyInDoubt` | IMAP and Gmail each: 1 message, 2 flags, 2 invocations and other clients; and 2 messages, 1 invocation at a time, on IMAP in one folder and in two, without UIDPLUS |
| `fanout` | `TypeOK`, `ListedAccountsForAll`, `NoEchoReported`, `CancelEnds` | 3 accounts, one IMAP; lists of up to 3 of 5 names, or all |
| `tokens` | `TypeOK`, `StoredIsLive` | 3 invocations, 3 tokens |
| `threading` | `TypeOK`, `ChainsEnd`, `OneLinkPerCycle`, `DepthsFollowParents`, `ThreadIsWhole`, `Returns` | every window of 4 messages, up to 2 Message-IDs in the headers of each |
| `cache_mismatch` | violates `ClearIsNotRefused` | 1 opener at a time, 2 versions, 3 statements |
| `invocations` | `TypesOK`, and the properties of the seven modules of `MCInvocations` | see below |

The properties of `invocations`, and the bounds of each part:

| Part | Properties | Bounds |
|---|---|---|
| `CacheOpen` | `OpenIsWhole`: an open cache has the whole schema of its own version | 2 openers, 2 versions, 3 statements |
| `CacheListing` | `PagesGoBack`, `MissedOnlyInTies`, `ListingEnds`: no row twice, and a row that matched throughout is missed only if it shares its date with the end of a full page | 4 rows, dates 0 (none) to 3, `--limit` 0, 1 and 9 against a default of 2 and a maximum of 3 |
| `SendMail` | `ReachesAllOrNobody`, `TwiceOnlyIfAnswerLost`, `CopiesShowOpenRecipients`, `RepliesKeepTheirPlace` | 2 mailboxes in 2 spellings, sources with up to 3 addresses in To and Cc, 3 Message-IDs, 2 runs of a command |
| `AuthorizeFlow` | `TokenOfOwnConsent`, `FlowsReturn` | 2 flows, 3 requests |
| `ThreadFetch` | `AnswerIsTheThread`, `InvalidMeansGone` | every forest of 4 messages, windows of 1, 2 and all |
| `ConfigUse` | `LoadedOpens`, `DoctorVouches` | 5 good blocks, with every change of one field that leaves them good, and any further change of one field |
| `MessageIds` | `IdsComeBack` | folder names of up to 3 symbols of 5, account and Gmail IDs of up to 2 |

Why these bounds. Three names allow a rename away and a rename back with an
alias left over, and an alias that belongs to a third account. Two mailboxes tell
a row of the old account from one of its namesake. A rename that conflicts in one
row and not in another needs two keys. Three UIDs and pages of two make a full page
followed by a short one, with an expunge or a delivery on either side; with
UIDs left over the page boundary can fall anywhere. For a write and a sync
to overlap, or for two writes, one message is enough; for the folder groups of a
verb, or the calls of a Gmail verb, two messages. Three tokens are a first one and
two rotations that race. Four messages are two cycles of two, a cycle of three
with a tail, and a tail of two leading into a cycle. Two openers may each have run
a part of the schema, and three statements put one between a first and a last. Four
rows with pages of two put a tie inside a page and across its end. Two flows and
three requests are a consent of the earlier flow, one of the later, and one that
finds the channel full. Three symbols are an escape character before a separator
with something after it.

Deadlock is not checked where the system may stop: an idle mbx with nothing to
do, a finished function, a mailbox at its bound. `Fanout` checks it, with `Done`
as the only way to stop.

### Fairness

- `FolderScan`: weak fairness of the sync's own steps. A sync is a sequential
  program, and each of its commands returns or fails. Deliveries are not fair.
- `Fanout`: weak fairness of the command's own steps and, per goroutine, of
  giving up, putting down a failure and returning. A provider that answers is
  *not* assumed; so `CancelEnds` says that cancellation alone ends a command
  whose providers heed it.
- `ThreadGraph`: weak fairness of the next step of a sequential function.
- `AuthorizeFlow`: weak fairness of each flow's own steps, which its five-minute
  deadline and the two seconds of its shutdown give it; none of the
  handlers', which may wait for ever for room in the channel, nor of browsers.
- `CacheListing`: weak fairness of the next page, that is of a reader that follows
  the cursors, and none of what changes the rows.

## 4. Where the code and its documents part

Each of the four `violation` runs checks one sentence of the repository, and TLC
finds a behaviour of the code that breaks it.

- **`ClearRecovers`**, `internal/cache/rename.go:18`: after a failed cache step of
  a rename "the user can `cache clear && cache sync` to recover". `ClearAccount`
  deletes by the canonical name; rows left under the old name, now an alias,
  outlive it.
- **`RenameKeepsLoadable`**, `docs/adr/0007-account-renames-via-aliases.md:42`:
  rename "validates the new name is free and isn't an alias of anything else".
  `RenameAccount` looks for a block of that name only, and can write a file
  `config.Load` refuses.
- **`PagesDescend`**, `internal/provider/imap/envelope.go:27`: "an
  exclusive-upper-bound cursor". When a full page ends with UID 1 the next bound
  is 0, which goes out as `*`: the scan starts over, and a sync of such a
  folder does not end.
- **`ClearIsNotRefused`**, `internal/cache/cache.go:24` and `docs/commands.md:73`: a
  schema mismatch is recovered from with `cache clear && cache sync`. `cache clear`
  opens the file in the same way as every verb and is refused for the mismatch.

Met while modelling, and not a run of its own:

- With `--strict` "the first failure cancels the rest" (`cmd/mbx/fanout.go:39`), but
  the IMAP client never looks at its context: such a fanout waits for its slowest
  IMAP account. `CancelEnds` is of the others.
- `--timeout` is parsed and never read (`cmd/mbx/root.go:50`).
- `message read` changes `\Seen` or UNREAD on the server and leaves the cached row as it
  was (`cmd/mbx/message.go:96-108`), and so do copies and the folder verbs. `docs/adr/0003`
  names `envelope flag`, `message move` and `message delete` for write-through, and `send`,
  `reply` and `forward` as the verbs without; of these others it says nothing. They are
  among what puts a row in doubt in `WrongOnlyInDoubt`.
- `docs/config.md:264` has `account doctor` check that OAuth refresh or IMAP LOGIN
  succeeds, that the folder list works, and capabilities. The code resolves the secrets and
  refreshes the OAuth token of the backend, and warns that the probes are to come
  (`internal/account/doctor.go:57-80`). `DoctorVouches` is about what it does.
- A rename whose cache step is lost, followed by a sync, leaves rows under the
  alias next to those under the canonical name, which `internal/cache/cache.go:6`
  excludes. It is the state from which `ClearRecovers` fails.
- A flag named in both `--add` and `--remove` ends off on the server and on in
  the row: the two apply them in opposite orders.
- `envelope thread` answers with an empty thread, and success, when the ID names its
  account by an alias (BuildGraph compares IDs as text), and when the anchor is
  expunged between the choice of the UIDs and their FETCH. These are the two
  exceptions in `AnswerIsTheThread`.
- A conversation that the server knows as a whole (Gmail, or THREAD) is cut down to
  BuildGraph's component of the anchor: when the first message is gone, replies to
  it that do not refer to each other are not in one answer (`CONTEXT.md:51`, `:108`).
- `docs/commands.md:71` has `envelope thread` end in `provider.unsupported` on
  IMAP without THREAD, and so has `internal/envelope/thread.go:32`; the code falls
  back to a window, as `docs/commands.md:296` says.
- `internal/mbxid/mbxid.go:12` says that account names with `:` or `%` are refused
  when the config is loaded; `config.validate` does not look.
- `docs/config.md:176` says that OAuth refresh tokens must have `write_cmd`, and
  `internal/config/config.go:143` that validators see to it; Load does not. Nor does it
  refuse a password for SMTP in clear, which the SMTP client does. `account doctor` sees
  neither on the send side. These are the exceptions in `LoadedOpens` and `DoctorVouches`.
- `internal/provider/imap/client.go:41`: "mbx does not expose an
  insecure-skip-verify knob". Line 51 is that knob.
- A process that dies in `cache.Open` leaves a file that no later Open accepts: the
  statements are plain CREATEs, and the version is stamped last.
- `PRAGMA foreign_keys=ON` is set on one connection of a pool
  (`internal/cache/cache.go:96`).
- Pages of cached rows continue at what is strictly older than the last date, so
  that rows of one second that straddle a page are dropped
  (`internal/cache/envelope.go:138`, `:196`, `:274`): the exception in
  `MissedOnlyInTies`.
- `drift_detected` (`docs/adr/0003-cache-as-derived-state.md:19`) does not exist in
  the code.

## 5. The proofs

All of them are about the specification of the module and use nothing of its fairness.
They hold for every value of the constants that satisfies the module's `ASSUME`s: bounds
are naturals, and "none" is no member of the set it is none of. Every invariant and
action property a passing run checks is proved, and so is the refinement
(`KeepsPromise`); what is left to TLC alone are the liveness properties (`SyncEnds`,
`CancelEnds`, `Returns`, `ListingEnds`, `FlowsReturn`), which rest on fairness and ENABLED
and are out of the prover's reach. Three of them are about loops (`SyncEnds`, `Returns`,
`ListingEnds`), and of these the half that can be proved is: that no loop goes round for
ever. What is left to TLC of them is that some step is always possible, and taken.

No proof is by induction over data, which the provers cannot do. Where a fact is about a
sequence of any length, a chain of parents or a recursive function, the proof takes a
smallest counterexample (`LeastOf`, from the well-foundedness of `<` on the naturals) and
goes one step down from it.

**CacheKeys.** `TypeCorrect`, and `KeysMatchOwners`: the account column of a row
is the account segment of its key, for any number of invocations. `TypeOK` alone
is not inductive: that a page is written under a name that exists needs that
an invocation that syncs holds an account of the config it loaded, which is part
of `HandOK`. On `IInv == TypeOK /\ HandOK` the key property is inductive:
`PutKeepsKeys` shows it for an upsert, as key and column are canonicalized by one
resolver, and `RekeyKeepsKeys` for a rename, as both move to the same name.
`RenamesAreAtomic` (`RekeyIsAtomic`) follows from it: only a re-keying both empties
one place and fills another, and it finds the rows of its account by the column.

`RowsFollow` (`RowsFollowAccounts`) and `InvalidationsReach` (`InvalidationReachesRow`)
are for serial invocations of which none fails (`Serial`: one process, not `Fallible`),
and any number of names, mailboxes and keys. The invariant `Settled` is what each label
may rely on: a verb that the config it loaded is still the file; an edit that what it
will write drops no block, or is a rename to a free name (`EditInHand`); a rename
between its two halves that all rows and stamps of the account are still under the old
name and none under the new (`Halfway`). The last is why no update of the re-keying is
refused (`RekeyCompletes`), and it needs stamps to follow accounts as rows do.

**WriteThrough.** `WrongIsInDoubt` (`WrongOnlyInDoubt`), for any number of messages,
folders, flags, invocations and kinds of accounts. The property says nothing of what an
invocation knows, and is far from inductive. The invariant says what each may rely on in
the aspects in which nobody raced it (`Claims`): what it has pushed is on the server
(`Pushed`, and `Half` between the two STOREs of a folder group), what it has written
is in the rows (`Written`), and what a sync has fetched is still so (`Fresh`). Two invocations
that concern one aspect both know that they are raced in it (`Shared`). And whatever
is wrong is in doubt or under way by an invocation other than a sync (`Covered`: a sync
alone never excuses a wrong row, since it changes nothing on the server and its page may lack
messages). The frame is `OnlyTouches`: a step that touches only some aspects makes no
others wrong (`WrongOnlyTouched`) and leaves what others rely on (`OthersKeep`,
from `ClaimsStay`). `StepKeeps` puts these together; `BeginKeeps`, `BecomeKeeps` and
`EndKeeps` are its three uses, and each action is one of them but for a page of a sync
and an EXPUNGE that takes messages nobody named. The verbs without write-through end as a
failure does: nothing they concern is settled.

**FolderScan.** `ScanCovers` (`Covered`) and `ScanKeepsPromise`: the scan
implements `FolderSync`. The invariant says what the scan has done for each message
that was there at the beginning and still is (`Behind`): at or above the cursor it
has a row; between SEARCH and FETCH it has a row, or is in the page, or is below a
full page; after a short page it has a row. A page keeps this since it is the newest
part of the search result (`CutCases`), and since FETCH may lack only what is gone;
a delivery does since the messages of the beginning are `Old`, below UIDNEXT. The
refinement maps each step to a step of `FolderSync` or to a stutter
(`StepKeepsPromise`); `MapInv` adds that the folder's history is one of old messages
and relates `outcome` to the program counter. `CountIsOfListed` (`CountsOnce`) is for
folders without a UID 1: what the run has listed is at or above the cursor, or of an
earlier incarnation (`Counted`). With a UID 1 a bound may be 0, which is `PagesDescend`.
`SyncRunsDown` is the safety half of `SyncEnds`, for the same folders: `StepsToGo`, at most
three steps for each UID a page may yet begin at, falls with each step of the sync and not
with the server's. It needs that a page lies below its cursor (`Bounded`).

**CacheOpen.** `OpenCacheIsWhole` (`OpenIsWhole`), for any number of openers, versions
and statements. An opener that has come to statement `n` has run all before it itself
(`Knows`), since a plain CREATE that another opener has run is an error; so a version is
only ever stamped on a schema all of which was run by one opener (`StampedIsWhole`).
`OthersKnow` is the frame: the file only grows.

**Fanout.** `AnswerAccountsForAll` and `ReportsNoEcho`. The invariant: the resolved
accounts are distinct (`Distinct`); the maps hold accounts that were asked (`Filled`);
each goroutine has put down, where it stands, exactly what it should (`PutDown`); a
cancelled context has a cause, an interrupt or a first error that is a provider's
own (`Cause`); and an answer was judged from full maps (`Judged`). "All failed"
compares sizes, for which `DistinctCardinality` counts the accounts of a sequence
without repetition.

**TokenRotation.** `StoredStaysLive`: the stored token is dead only through one of
three mishaps. The invariant adds that the token issued last is always live
(`LastIsLive`), that what an invocation is about to write is newer than what it
read (`InHand`), and that while no harm is done the token issued last is in the
store or held by an invocation about to write it (`LastIsKept`).

**AuthorizeFlow.** `AuthTypeCorrect`, and `TokensAreOwn` (`TokenOfOwnConsent`), for any
number of flows and requests. The invariant (`Heard`) follows a verdict on its way: in the
hands of a handler, in the channel, taken by the flow, it was judged against the state
of the flow it is on its way to. A handler outlives the port's change of hands, and so a
verdict must be tied to its addressee, not to whoever has the port.

**ThreadGraph.** `TypeCorrect`, and `ChainsAlwaysEnd`: after `breakParentCycles`
there is no cycle, for a window of any size and any headers. The invariant of the
outer loop is a set of messages, holding all those before `i`, whose parent chains
stay in it and end (`Grounded`); that of the inner loop is that `visited` is a
path along parents to `cur` that was nowhere twice (`Walked`). `Join` is the heart:
a path that is cut at its end, or has ended, can be added to the grounded set.
`OneLostPerCycle` (`OneLinkPerCycle`): where a walk has run back into itself the links
hold a cycle through `cur`, the only one, and none of it is cut yet (`CycleUnderCut`).
`DepthsAreRight` (`DepthsFollowParents`): a set of messages left unmeasured when all
roots are measured would be a cycle (`AllMeasured`). `ThreadsAreWhole`
(`ThreadIsWhole`): whatever is collected is in every whole set the anchor is in
(`Together`), and only the queue may still lack replies (`ThreadInv`).
`GraphComesToItsEnd` is the safety half of `Returns`: each step goes down in the
lexicographic order of the loops to come, the messages the outer loop has still before it, and
what the inner loop has left: messages not visited, not measured or queued, not collected or
queued, and on the way up the depth of `cur`, which the walk measured and so is finite.

**SendMail.** `AllAreReached` (`ReachesAllOrNobody`), `SentOncePerLoss`
(`TwiceOnlyIfAnswerLost`), `CopiesShowOpen`
(`CopiesShowOpenRecipients`) and `RepliesStayInPlace`. The invariant follows
the RCPT commands (`NamedInTurn`): recipients still to be named and those named are apart, and
together all of them; only when none is left does DATA go out. So each delivery is to all
recipients (`Deliveries`), and there are at most as many as answers were lost, and one
(`LossesPerRun`: a lost answer ends its run). That those recipients are the
mailboxes the message is meant for is `RecipientsAreMeant`; it rests on
`DedupedMailboxes`: `dedupeExcept` drops spellings, but of the mailboxes only one's own.
Whoever got a message reads in it what is in the headers of `raw` (`CopiesOfRaw`): the same
for SMTP, which relays it, and for Gmail, where a header is added and stripped again
(`DeliversToAll`, for either).
`PlaceIsKept` is about references of any length: an ID appended that the window lacks is
passed over (`AppendedIsPassedOver`).

**ThreadFetch.** `ThreadsAreTheAnchors` (`AnswerIsTheThread`), `InvalidIsGone`. The
invariant (`Chosen`) says what the UIDs in hand between choice and FETCH hold: the anchor,
if it is still there, and the whole conversation where THREAD or a window over the whole
mailbox chose them. The rest is about the forest of replies: `LineDefined` shows that the
recursive `Line` satisfies its equation (the intersection of the closed sets of a message
does), `OneRoot` that the messages of a line have one root, and `ComponentOf` and
`ConversationOf` that BuildGraph's component of the anchor is the conversation when its root
is among the nodes. `ComponentIsTheThread` ties this module to `ThreadGraph`: the set by which
it abstracts BuildGraph is the smallest one with the anchor that has the parent and the
replies of its members, which `ThreadsAreWhole` proves of BuildGraph itself.

**MessageIds.** `EveryIdComesBack` (`IdsComeBack`), for names of any length. `Escape` is a
flattened sequence, the reading a recursive function of positions. `FlattenDefined` and
`FlattenAppend` give the flattening of a sequence one longer, `ReadOne` and `ReadTwo` what
the reader makes of one more symbol, escaped or not, and `EscapeComesBack` takes the
shortest text that does not come back. `IMAPComesBack` and `GmailComesBack` show that the
cuts fall between the segments: an escaped segment holds no separator.

**CacheListing.** `PagesAlwaysGoBack` and `MissedAreTied` (`MissedOnlyInTies`), for any
rows, dates and limits. The invariant: the cursor is not above a date that was shown
(`CursorIsBehind`), and a row that stayed is accounted for or older than it (`RestIsOlder`).
A page keeps this since it is the newest part of what matches (`NewestOf`).
`ListingRunsDown` is the safety half of `ListingEnds`: the cursor goes down, so that there
are at most as many pages as dates, and one.

**ConfigUse.** `LoadedBlocksOpen` (`LoadedOpens`), `DoctorIsRight` (`DoctorVouches`), for
any set of blocks. `TokenSourceOfValid`, `DialOfValid`, `ReadOfValid` and `SendOfValid`
say, for each place that opens something, which of its refusals a block can still meet
that Load has accepted. The invariant adds what a good report of doctor is worth
(`Vouched`): all secrets resolve, and the account's own token has a write_cmd.

**MCInvocations.** `InstanceTypeCorrect` (`TypesOK`): the composition of these modules
keeps every part in its range. A part that rests is in a state of its own (`RestsAreStates`),
and a step of the composition is a step or a stutter of each (`InstanceStep`).

## 6. Not modelled

Formatting, MIME, HTML, tables and completion, fetching and parsing of bodies and attachments:
text and I/O (that `message read` marks what it read as seen is modelled). TOML syntax: blocks, their activation and aliases are the data, comments
and keys are not. Network failures are one failure. SQLite is its transactions.
The choice of folders and the date window of a sync are fixed per run; sync stamps
are written but `cache status`, their only reader, is not modelled. `folder add` is one
call to the server and leaves the cache alone; user labels of Gmail are left out, and
`folder delete` of them. `envelope thread` and `message read` of an ID with a stale
UIDVALIDITY end before they do anything, and are left out. The secret commands are a store that can fail before or after it has written.

## 7. What is left

1. The choice of folders by `cache sync` (configured, or the inbox), and the days each
   stamp covers, with `cache status` as the reader that must not claim more than was synced.
2. The merge of a fanout's pages and its per-account cursors.
3. To be proved: that `Fanout` and `AuthorizeFlow` take boundedly many steps of their own.

A run is added only with a question of its own: modules about one kind of invocation
share one.
