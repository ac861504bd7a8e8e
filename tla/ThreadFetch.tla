------------------------------ MODULE ThreadFetch ------------------------------
(***************************************************************************)
(* `envelope thread` from the ID on the command line to the answer: which  *)
(* messages are fetched for BuildGraph (ThreadGraph.tla), in a mailbox     *)
(* where messages are delivered and expunged between the calls.  Gmail     *)
(* and IMAP servers with THREAD know the conversation; from other servers  *)
(* the newest messages of the folder are taken, and the anchor.            *)
(*                                                                         *)
(* Messages are numbered by their UIDs, and each is a reply to an older    *)
(* one, or to none; its References name all messages above it, so that     *)
(* BuildGraph hangs it under the nearest of them that was fetched.         *)
(***************************************************************************)
EXTENDS Naturals, FiniteSets, FiniteSetsExt

CONSTANT MaxUid

ASSUME MaxUidType == MaxUid \in Nat \ {0}

VARIABLES
    above,      \* the message each is a reply to, or 0
    newest,     \* the highest UID delivered
    box,        \* the messages of the mailbox
    thread,     \* the command: what it asks for, and how far it is
    remained    \* history: messages there from the beginning of the command on

threadVars == <<above, newest, box, thread, remained>>

Uids == 1..MaxUid

ThreadPCs == {"select", "uids", "fetch", "done", "invalidated", "notfound"}

Thread == [pc : ThreadPCs,
           anchor : Uids,
           alias : BOOLEAN,     \* the ID names the account by an alias
           server : {"gmail", "thread", "plain"},
           window : Uids,       \* backend.thread_window
           uids : SUBSET Uids,
           answer : SUBSET Uids]

\* A message and everything above it.
Line == LET f[u \in 0..MaxUid] == IF u = 0 THEN {} ELSE {u} \union f[above[u]] IN f

\* The messages of one conversation with a, as a server that knows all of it says.
Conversation(a) == {u \in Uids : Min(Line[u]) = Min(Line[a])}

\* BuildGraph over some messages: those that hang under the same one as the anchor,
\* and nothing at all if the anchor, by the ID that was typed, is not among them.
Component(nodes, a, alias) ==
    IF alias \/ a \notin nodes THEN {}
    ELSE {u \in nodes : Min(Line[u] \intersect nodes) = Min(Line[a] \intersect nodes)}

\* (mutant) The window as it is.
WindowOnly(a) == {u \in box : Cardinality({v \in box : v > u}) < thread.window}

\* threadWindowUIDs: the newest messages, and the anchor, there or not.
WindowUids(a) == {u \in box : Cardinality({v \in box : v > u}) < thread.window} \union {a}

\* (mutant) A message that nobody has replied to is in no tree.
RepliedUids(a) ==
    IF a \in box /\ Conversation(a) \intersect box # {a} THEN Conversation(a) \intersect box ELSE {}

\* findThreadContaining: the whole tree the anchor is in, if it is in any.
ServerUids(a) == IF a \in box THEN Conversation(a) \intersect box ELSE {}

Proceed(pc) == thread' = [thread EXCEPT !.pc = pc]

-----------------------------------------------------------------------------
\* SELECT, or messages.get of the anchor.  (The mailbox keeps its UIDVALIDITY here;
\* with another one the verb ends at once, in provider.id_invalidated.)
SelectFolder ==
    /\ thread.pc = "select"
    /\ Proceed(IF thread.server = "gmail" /\ thread.anchor \notin box THEN "notfound" ELSE "uids")
    /\ UNCHANGED <<above, newest, box, remained>>

\* threadUIDs; none are an error, since the anchor must have been expunged.
ThreadUids ==
    /\ thread.pc = "uids"
    /\ thread.server # "gmail"
    /\ LET uids == IF thread.server = "thread" THEN ServerUids(thread.anchor)
                   ELSE WindowUids(thread.anchor)
       IN  thread' = [thread EXCEPT !.uids = uids,
                                    !.pc = IF uids = {} THEN "invalidated" ELSE "fetch"]
    /\ UNCHANGED <<above, newest, box, remained>>

Answer(nodes) ==
    thread' = [thread EXCEPT !.pc = "done",
                             !.answer = Component(nodes, thread.anchor, thread.alias)]

\* FETCH, which says nothing of messages that are gone, and BuildGraph.
FetchNodes ==
    /\ thread.pc = "fetch"
    /\ Answer(thread.uids \intersect box)
    /\ UNCHANGED <<above, newest, box, remained>>

\* threads.get of the anchor's thread, if anything is left of it, and BuildGraph.
ThreadGet ==
    /\ thread.pc = "uids"
    /\ thread.server = "gmail"
    /\ LET nodes == Conversation(thread.anchor) \intersect box
       IN  IF nodes = {} THEN Proceed("notfound") ELSE Answer(nodes)
    /\ UNCHANGED <<above, newest, box, remained>>

Expunge ==
    /\ \E u \in box : box' = box \ {u}
    /\ remained' = remained \intersect box'
    /\ UNCHANGED <<above, newest, thread>>

Deliver ==
    /\ newest < MaxUid
    /\ newest' = newest + 1
    /\ box' = box \union {newest'}
    /\ UNCHANGED <<above, thread, remained>>

ThreadInit ==
    /\ above \in {f \in [Uids -> 0..MaxUid] : \A u \in Uids : f[u] < u}
    /\ newest \in Uids
    /\ box \in SUBSET (1..newest)
    /\ thread \in [pc : {"select"}, anchor : 1..newest, alias : BOOLEAN,
                   server : {"gmail", "thread", "plain"}, window : Uids, uids : {{}}, answer : {{}}]
    /\ thread.server # "plain" => thread.window = 1
    /\ remained = box

ThreadNext == SelectFolder \/ ThreadUids \/ FetchNodes \/ ThreadGet \/ Expunge \/ Deliver

ThreadSpec == ThreadInit /\ [][ThreadNext]_threadVars

-----------------------------------------------------------------------------
(* Properties *)

\* Every variable stays in its range, and an IMAP answer is of UIDs that were chosen.
ThreadTypeOK ==
    /\ box \subseteq 1..newest
    /\ thread \in Thread
    /\ thread.server = "gmail" \/ thread.answer \subseteq thread.uids
    /\ remained \subseteq box

\* A command that succeeds answers with the anchor, unless that was expunged in the
\* middle of it or is named by an alias of its account; the answer has no message of
\* another conversation; and a conversation whose first message is there is whole, if
\* the server knows it or the window spans the mailbox.
AnswerIsTheThread ==
    LET a == thread.anchor
        knows == thread.server # "plain" \/ thread.window >= newest
    IN  thread.pc = "done" =>
            /\ thread.answer \subseteq Conversation(a)
            /\ a \in remained /\ ~thread.alias => a \in thread.answer
            /\ {a, Min(Line[a])} \subseteq remained /\ ~thread.alias /\ knows
                   => Conversation(a) \intersect remained \subseteq thread.answer

\* An ID is called invalid, or not found, only when its message is gone.
InvalidMeansGone ==
    thread.pc \in {"invalidated", "notfound"} => thread.anchor \notin remained
=============================================================================
