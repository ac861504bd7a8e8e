----------------------------- MODULE WriteThrough -----------------------------
(***************************************************************************)
(* What the cache says about a message after the live verbs have changed   *)
(* it: `envelope flag`, `message move`, `message archive` and `message     *)
(* delete` with their best-effort write-through to the cache; `message     *)
(* read`, which marks what it reads as seen, `message copy` and `folder    *)
(* purge`, `expunge` and `delete`, which write nothing through; `cache     *)
(* sync`; and the user's other mail clients.                               *)
(*                                                                         *)
(* A verb first does its work on the server, on IMAP one folder after the  *)
(* other and on Gmail one message after the other, and then, only if all   *)
(* of it went through, repeats it on the cache.  Nothing orders the two    *)
(* parts of one invocation against those of another, and each may fail on  *)
(* its own.                                                                *)
(*                                                                         *)
(* Which message is in doubt is tracked by a history variable at the grain *)
(* of one flag of one message, or of its being there at all: an aspect.    *)
(* An aspect comes to be in doubt when an invocation that concerns it      *)
(* fails, overlaps another one or has no write-through, or when another    *)
(* client changes it; and an invocation that concerns it, overlaps         *)
(* nothing, goes through and writes through settles it again.              *)
(***************************************************************************)
EXTENDS Naturals, FiniteSets

CONSTANTS
    Msgs,           \* messages, under the IDs they have in their folders
    Flags,          \* the mbx flag vocabulary, and the labels of Gmail
    Seen,           \* the flag \Seen, and the absence of the label UNREAD
    Deleted,        \* the flag \Deleted, which Gmail does not have
    Inbox,          \* the label INBOX, which IMAP does not have
    Folders, NoFolder,
    FolderOf,       \* the folder an ID names
    Procs,          \* concurrently running invocations of mbx
    Gone, NoRow,
    Sites           \* the accounts that are looked at

ASSUME MarksType ==
    /\ {Seen, Deleted, Inbox} \subseteq Flags
    /\ Deleted # Inbox /\ Seen \notin {Deleted, Inbox}
ASSUME FolderOfType == FolderOf \in [Msgs -> Folders]
ASSUME NamesDiffer ==
    /\ NoFolder \notin Folders
    /\ Gone \notin Flags
    /\ \A fs \in SUBSET Flags : fs # Gone /\ fs # NoRow
ASSUME SitesType ==
    Sites \subseteq [gmail : BOOLEAN,
                    uidPlus : BOOLEAN,      \* the server has UID EXPUNGE
                    others : BOOLEAN,       \* other clients change the mailbox
                    atOnce : Nat,           \* bounds: invocations at a time, ...
                    msgs : SUBSET Msgs,     \* ... messages, and the flags they have
                    marks : SUBSET Flags]
ASSUME SitesMarks == \A s \in Sites : (IF s.gmail THEN Inbox ELSE Deleted) \in s.marks

VARIABLES
    site,       \* the account at hand
    server,     \* the flags of each message, or Gone from the folder of its ID
    row,        \* the flags in its cached row, or NoRow
    proc,       \* what each invocation has in hand
    doubt       \* history: the aspects in which server and row may differ

vars == <<site, server, row, proc, doubt>>

Aspects == site.marks \union {Gone}
Value == SUBSET Flags

PCs == {"idle", "store", "unstore", "flags", "move", "mark", "expunge", "drop", "put",
        "read", "purge", "sweep", "delete", "call"}

\* What a Gmail call asks for.
GmailVerbs == {"flag", "relabel", "copy", "erase", "purge"}

Process == [pc : PCs,
            ids : SUBSET Msgs,              \* the IDs on the command line
            add : Value, rem : Value,       \* --add and --remove
            left : SUBSET Folders,          \* folder groups not done, the folder to delete
            at : Folders \union {NoFolder}, \* the group in hand
            todo : SUBSET Msgs,             \* IDs the cache has not got yet
            verb : GmailVerbs,              \* the Gmail calls, ...
            rest : SUBSET Msgs,             \* ... and the IDs still to be called for
            got : [Msgs -> Value \union {Gone}],    \* what a sync fetched
            raced : SUBSET (Msgs \X (Flags \union {Gone}))]       \* history: not settled by it

Idle == [pc |-> "idle", ids |-> {}, add |-> {}, rem |-> {}, left |-> {},
         at |-> NoFolder, todo |-> {}, verb |-> "flag", rest |-> {},
         got |-> [m \in Msgs |-> Gone], raced |-> {}]

-----------------------------------------------------------------------------
(* History *)

\* The aspects an invocation changes, or copies, between its start and its end.
Concern(q) ==
    CASE q.pc = "idle" -> {}
      [] \/ q.pc \in {"store", "unstore", "flags", "read"}
         \/ q.pc = "call" /\ q.verb \in {"flag", "copy"}
             -> q.ids \X (q.add \union q.rem)
      [] OTHER -> q.ids \X Aspects

InFlight == UNION {Concern(proc[q]) : q \in Procs}

\* Changing the aspects c disturbs every other invocation they concern.
Disturbed(c) == [q \in Procs |-> [proc[q] EXCEPT !.raced = @ \union (Concern(proc[q]) \intersect c)]]

Begin(p, q) ==
    /\ proc[p].pc = "idle"
    /\ Cardinality({r \in Procs : proc[r].pc # "idle"}) < site.atOnce
    /\ proc' = [Disturbed(Concern(q)) EXCEPT
                   ![p] = [q EXCEPT !.raced = InFlight \intersect Concern(q)]]
    /\ UNCHANGED <<site, server, row, doubt>>

\* The end of p: what it settled is no longer in doubt, the rest of its concern
\* is.
End(p, settled) ==
    LET q == proc[p]
    IN  /\ doubt' = (doubt \ (settled \ q.raced)) \union (Concern(q) \ settled) \union q.raced
        /\ proc' = [proc EXCEPT ![p] = Idle]
        /\ UNCHANGED site

Become(p, q) == proc' = [proc EXCEPT ![p] = q] /\ UNCHANGED <<site, doubt>>

\* The IDs a command line may have.
IdLists == (SUBSET site.msgs) \ {{}}

-----------------------------------------------------------------------------
(* The server *)

In(fo) == {m \in Msgs : FolderOf[m] = fo}
There == {m \in Msgs : server[m] # Gone}

\* STORE of one folder group: UIDs that are gone are passed over.
Stored(ms, plus, minus) ==
    [m \in Msgs |-> IF m \in ms \intersect There
                    THEN (server[m] \union plus) \ minus ELSE server[m]]

Removed(ms) == [m \in Msgs |-> IF m \in ms THEN Gone ELSE server[m]]

\* Another client sets or clears a flag, or takes a message away.
OtherClient ==
    /\ site.others
    /\ \E m \in There, a \in Aspects :
           /\ server' = [server EXCEPT ![m] =
                            IF a = Gone THEN Gone
                            ELSE IF a \in @ THEN @ \ {a} ELSE @ \union {a}]
           /\ doubt' = doubt \union {<<m, a>>}
           /\ proc' = Disturbed({<<m, a>>})
    /\ UNCHANGED <<site, row>>

-----------------------------------------------------------------------------
(* The cache *)

\* UpdateFlags of one ID: --remove first, then --add.  A flag of an ID without
\* a row is refused by the foreign key, and the transaction rolled back.
UpdateFlags(m, add, rem) ==
    row' = IF row[m] = NoRow THEN row
           ELSE [row EXCEPT ![m] = (row[m] \ rem) \union add]

DeleteByIDs(ids) == row' = [m \in Msgs |-> IF m \in ids THEN NoRow ELSE row[m]]

\* (mutant) The fetched flags are added to those the row has.
MergeEnvelopes(got) ==
    row' = [m \in Msgs |-> IF got[m] = Gone THEN row[m]
                           ELSE IF row[m] = NoRow THEN got[m] ELSE row[m] \union got[m]]

\* PutEnvelopes: the row's flags are replaced by those fetched.
PutEnvelopes(got) ==
    row' = [m \in Msgs |-> IF got[m] = Gone THEN row[m] ELSE got[m]]

-----------------------------------------------------------------------------
(* envelope flag *)

FlagStart(p) ==
    \E ids \in IdLists, add, rem \in SUBSET site.marks :
        /\ add \union rem # {}
        /\ Inbox \notin add \union rem
        /\ site.gmail => Deleted \notin add \union rem
        /\ Begin(p, IF site.gmail
                    THEN [Idle EXCEPT !.pc = "call", !.verb = "flag", !.ids = ids,
                                      !.add = add, !.rem = rem, !.rest = ids, !.todo = ids]
                    ELSE [Idle EXCEPT !.pc = "store", !.ids = ids, !.add = add, !.rem = rem,
                                      !.left = {FolderOf[m] : m \in ids}, !.todo = ids])

\* Per folder group: SELECT and STORE +FLAGS, then STORE -FLAGS.
StoreAdd(p) ==
    LET q == proc[p]
    IN  /\ q.pc = "store"
        /\ \E fo \in q.left :
               /\ server' = Stored(q.ids \intersect In(fo), q.add, {})
               /\ Become(p, [q EXCEPT !.pc = "unstore", !.at = fo])
        /\ UNCHANGED row

\* (mutant) The group just done stays in hand.
StoreDelKeepingGroup(p) ==
    LET q == proc[p]
        left == q.left \ {q.at}
    IN  /\ q.pc = "unstore"
        /\ server' = Stored(q.ids \intersect In(q.at), {}, q.rem)
        /\ Become(p, [q EXCEPT !.pc = IF left = {} THEN "flags" ELSE "store",
                               !.left = left])
        /\ UNCHANGED row

StoreDel(p) ==
    LET q == proc[p]
        left == q.left \ {q.at}
    IN  /\ q.pc = "unstore"
        /\ server' = Stored(q.ids \intersect In(q.at), {}, q.rem)
        /\ Become(p, [q EXCEPT !.pc = IF left = {} THEN "flags" ELSE "store",
                               !.left = left, !.at = NoFolder])
        /\ UNCHANGED row

\* writeThroughFlags: a transaction per ID, and one that fails is passed over.  A
\* flag that is both added and removed is not settled: the server ends without
\* it, and the row with it.
WriteFlags(p) ==
    LET q == proc[p]
        Unsettled(m, written) ==
            {m} \X (IF written THEN q.add \intersect q.rem ELSE q.add \union q.rem)
    IN  /\ q.pc = "flags"
        /\ \E m \in q.todo, written \in BOOLEAN :
               /\ IF written THEN UpdateFlags(m, q.add, q.rem) ELSE UNCHANGED row
               /\ IF q.todo = {m}
                  THEN End(p, Concern(q) \ Unsettled(m, written))
                  ELSE Become(p, [q EXCEPT !.todo = @ \ {m},
                                           !.raced = @ \union Unsettled(m, written)])
        /\ UNCHANGED server

-----------------------------------------------------------------------------
(* message move, archive, delete of an IMAP account.  A COPY changes nothing that *)
(* has an ID yet.                                                              *)

MoveStart(p) ==
    /\ ~site.gmail
    /\ \E ids \in IdLists, pc \in {"move", "mark"} :
           Begin(p, [Idle EXCEPT !.pc = pc, !.ids = ids, !.left = {FolderOf[m] : m \in ids}])

\* relocate: SELECT and MOVE, one folder group after the other.  (Without MOVE the
\* library copies, marks and expunges, as a permanent delete does.)
Move(p) ==
    LET q == proc[p]
    IN  /\ q.pc = "move"
        /\ \E fo \in q.left :
               /\ server' = Removed(q.ids \intersect In(fo))
               /\ Become(p, [q EXCEPT !.left = @ \ {fo},
                                      !.pc = IF q.left = {fo} THEN "drop" ELSE "move"])
        /\ UNCHANGED row

\* permanentDeleteGroup: STORE \Deleted, then an EXPUNGE that without UIDPLUS
\* takes every message of the folder that has the flag.
Mark(p) ==
    LET q == proc[p]
    IN  /\ q.pc = "mark"
        /\ \E fo \in q.left :
               /\ server' = Stored(q.ids \intersect In(fo), {Deleted}, {})
               /\ Become(p, [q EXCEPT !.pc = "expunge", !.at = fo])
        /\ UNCHANGED row

ExpungeMarked(p) ==
    LET q == proc[p]
        marked == {m \in In(q.at) \intersect There : Deleted \in server[m]}
        taken == IF site.uidPlus THEN marked \intersect q.ids ELSE marked
        left == q.left \ {q.at}
        aside == (taken \ q.ids) \X {Gone}
    IN  /\ q.pc = "expunge"
        /\ server' = Removed(taken)
        /\ proc' = [Disturbed(aside) EXCEPT
                       ![p] = [q EXCEPT !.pc = IF left = {} THEN "drop" ELSE "mark",
                                        !.left = left, !.at = NoFolder]]
        /\ doubt' = doubt \union aside
        /\ UNCHANGED <<site, row>>

\* writeThroughDelete: all IDs in one transaction.
DropRows(p) ==
    LET q == proc[p]
    IN  /\ q.pc = "drop"
        /\ DeleteByIDs(q.ids)
        /\ End(p, Concern(q))
        /\ UNCHANGED server

-----------------------------------------------------------------------------
(* message read *)

\* Without --preview.
ReadStart(p) ==
    /\ Seen \in site.marks
    /\ \E m \in site.msgs : Begin(p, [Idle EXCEPT !.pc = "read", !.ids = {m}, !.add = {Seen}])

\* The message is fetched, and marked as seen if it is not.  Whether that went
\* through is not looked at, and the cache is not told.
MarkSeen(p) ==
    LET q == proc[p]
    IN  /\ q.pc = "read"
        /\ server' = Stored(q.ids, q.add, {})
        /\ End(p, {})
        /\ UNCHANGED row

-----------------------------------------------------------------------------
(* folder purge, expunge and delete of an IMAP account.  None of them tells the *)
(* cache.                                                                      *)

\* delete starts with a purge if it is given --force.
PurgeStart(p) ==
    /\ ~site.gmail
    /\ \E fo \in Folders, pc \in {"purge", "sweep", "delete"} :
           /\ In(fo) \intersect site.msgs # {}
           /\ \E left \in SUBSET {fo} :
                  /\ pc = "sweep" => left = {}
                  /\ pc = "delete" => left = {fo}
                  /\ Begin(p, [Idle EXCEPT !.pc = pc, !.ids = In(fo), !.left = left])

\* STORE \Deleted of 1:*.
PurgeMark(p) ==
    LET q == proc[p]
    IN  /\ q.pc = "purge"
        /\ server' = Stored(q.ids, {Deleted}, {})
        /\ Become(p, [q EXCEPT !.pc = "sweep"])
        /\ UNCHANGED row

\* EXPUNGE, after which --force goes on to delete the folder.
Sweep(p) ==
    LET q == proc[p]
    IN  /\ q.pc = "sweep"
        /\ server' = Removed({m \in q.ids \intersect There : Deleted \in server[m]})
        /\ IF q.left = {} THEN End(p, {}) ELSE Become(p, [q EXCEPT !.pc = "delete"])
        /\ UNCHANGED row

\* DELETE, if the server does not refuse it, takes what is left in the folder.
DeleteFolder(p) ==
    LET q == proc[p]
    IN  /\ q.pc = "delete"
        /\ server' = Removed(q.ids)
        /\ End(p, {})
        /\ UNCHANGED row

-----------------------------------------------------------------------------
(* The verbs of a Gmail account: a call per message, and the first that is not *)
(* found, or fails otherwise, ends the verb.                                   *)

\* move takes a message out of INBOX and archive and trash do no more, as far as
\* INBOX goes; copy puts it there, if INBOX is the destination; delete --permanent
\* erases it; purge lists the messages of a label and erases them.
GmailStart(p) ==
    /\ site.gmail
    /\ \/ \E ids \in IdLists :
              \/ Begin(p, [Idle EXCEPT !.pc = "call", !.verb = "relabel", !.ids = ids,
                                       !.rem = {Inbox}, !.rest = ids])
              \/ Begin(p, [Idle EXCEPT !.pc = "call", !.verb = "copy", !.ids = ids,
                                       !.add = {Inbox}, !.rest = ids])
              \/ Begin(p, [Idle EXCEPT !.pc = "call", !.verb = "erase", !.ids = ids,
                                       !.rest = ids])
       \/ LET ids == {m \in There : Inbox \in server[m]}
          IN  /\ ids # {}
              /\ Begin(p, [Idle EXCEPT !.pc = "call", !.verb = "purge", !.ids = ids,
                                       !.rest = ids])

\* Modify, Trash or Delete of the next message.  What a diff does that both adds
\* and removes a label is the API's business.
GmailCall(p) ==
    LET q == proc[p]
        After(v) == IF q.verb \in {"erase", "purge"} THEN {Gone}
                    ELSE {(v \union q.add) \ q.rem, (v \ q.rem) \union q.add}
    IN  /\ q.pc = "call"
        /\ \E m \in q.rest \intersect There :
               /\ \E v \in After(server[m]) : server' = [server EXCEPT ![m] = v]
               /\ IF q.rest # {m} THEN Become(p, [q EXCEPT !.rest = @ \ {m}])
                  ELSE IF q.verb \in {"copy", "purge"} THEN End(p, {})
                  ELSE Become(p, [q EXCEPT !.rest = {},
                                           !.pc = IF q.verb = "flag" THEN "flags" ELSE "drop"])
        /\ UNCHANGED row

-----------------------------------------------------------------------------
(* cache sync of one folder, one page *)

\* The messages of a folder, or of the label INBOX.
Listed(fo) == IF site.gmail THEN {m \in There : Inbox \in server[m]} ELSE In(fo)

\* (A sync of a folder that never had a message does nothing.)
SyncFetch(p) ==
    \E fo \in Folders :
        /\ In(fo) \intersect site.msgs # {}
        /\ Begin(p, [Idle EXCEPT !.pc = "put", !.ids = IF site.gmail THEN Msgs ELSE In(fo),
                        !.got = [m \in Msgs |-> IF m \in Listed(fo) THEN server[m] ELSE Gone]])

\* What was not fetched keeps its row, and is not settled.
SyncPut(p) ==
    LET q == proc[p]
        put == {m \in Msgs : q.got[m] # Gone}
    IN  /\ q.pc = "put"
        /\ PutEnvelopes(q.got)
        /\ doubt' = (doubt \ ((put \X Aspects) \ q.raced)) \union q.raced
        /\ proc' = [proc EXCEPT ![p] = Idle]
        /\ UNCHANGED <<site, server>>

-----------------------------------------------------------------------------
\* A command to the server or the write to the cache fails, or the invocation
\* is killed: what is done stays done, and nothing more follows.
Fail(p) ==
    /\ proc[p].pc # "idle"
    /\ End(p, {})
    /\ UNCHANGED <<server, row>>

Init ==
    /\ site \in Sites
    /\ server \in [Msgs -> (SUBSET site.marks) \union {Gone}]
    /\ \A m \in Msgs : server[m] = Gone <=> m \notin site.msgs
    /\ row = [m \in Msgs |-> NoRow]
    /\ proc = [p \in Procs |-> Idle]
    /\ doubt = {}

Next ==
    \/ \E p \in Procs :
          \/ FlagStart(p) \/ StoreAdd(p) \/ StoreDel(p) \/ WriteFlags(p)
          \/ MoveStart(p) \/ Move(p) \/ Mark(p) \/ ExpungeMarked(p) \/ DropRows(p)
          \/ ReadStart(p) \/ MarkSeen(p)
          \/ PurgeStart(p) \/ PurgeMark(p) \/ Sweep(p) \/ DeleteFolder(p)
          \/ GmailStart(p) \/ GmailCall(p)
          \/ SyncFetch(p) \/ SyncPut(p)
          \/ Fail(p)
    \/ OtherClient

Spec == Init /\ [][Next]_vars

-----------------------------------------------------------------------------
(* Properties *)

\* Every variable stays in its range, and a verb that works on folder groups
\* has in hand a group that is still to be done, or none.
TypeOK ==
    /\ site \in Sites
    /\ server \in [Msgs -> Value \union {Gone}]
    /\ row \in [Msgs -> Value \union {NoRow}]
    /\ proc \in [Procs -> Process]
    /\ \A p \in Procs : proc[p].at \in proc[p].left \union {NoFolder}
    /\ doubt \subseteq Msgs \X Aspects

\* The aspects in which the row of m is wrong.
Wrong(m) ==
    IF row[m] = NoRow THEN {}
    ELSE IF server[m] = Gone THEN {<<m, Gone>>}
    ELSE {m} \X ((row[m] \ server[m]) \union (server[m] \ row[m]))

\* A cached row is wrong only in aspects that some invocation has under way, or
\* that a failure, an overlap, a verb without write-through or another client has
\* put in doubt since the last undisturbed invocation that settled them: the
\* verbs that do write through never leave a wrong row by themselves.
WrongOnlyInDoubt == \A m \in Msgs : Wrong(m) \subseteq doubt \union InFlight
=============================================================================
