------------------------------- MODULE SendMail -------------------------------
(***************************************************************************)
(* `message send`, `reply` and `forward`, from the addresses on the        *)
(* command line or in the source message to the mailboxes they reach: who  *)
(* is written to, what the message shows of it, and what becomes of it on  *)
(* the way through SMTP or the Gmail API, where any command may be         *)
(* rejected and any answer lost, after which the user may run the same     *)
(* command again.                                                          *)
(*                                                                         *)
(* An address is a mailbox and a spelling: mail servers tell the two       *)
(* spellings of a mailbox no more apart than net/mail's users do, but      *)
(* strings that differ in case differ.  Unparseable is text that is no     *)
(* address.                                                                *)
(***************************************************************************)
EXTENDS Naturals, Sequences, FiniteSets, SequencesExt

CONSTANTS
    Mailboxes, Self,    \* Self is that of the account's own email
    Spellings,
    Unparseable,
    MaxOthers,          \* how many addresses To and Cc of a source have
    Ids, NoId,          \* Message-IDs
    MaxRefs,            \* how many of them a References header has
    MaxRuns,            \* how often a command is run until it succeeds
    Commands            \* the commands that are given

ASSUME BoundsType == {MaxOthers, MaxRefs} \subseteq Nat /\ MaxRuns \in Nat \ {0}
ASSUME SelfIsMailbox == Self \in Mailboxes
ASSUME NoIdFresh == NoId \notin Ids

VARIABLES
    mail,       \* the command, and the source message of a reply
    wire,       \* how far the run has come
    got,        \* how often each address has been delivered the message
    reads       \* history: the addresses each can read in its copies

sendVars == <<mail, wire, got, reads>>

Addresses == Mailboxes \X Spellings
Texts == Addresses \union {Unparseable}
MailboxOf(a) == a[1]
MailboxesOf(S) == {MailboxOf(a) : a \in S \ {Unparseable}}

-----------------------------------------------------------------------------
(* Who is written to *)

\* What a message says of its place in the conversation.
Place == [id : Ids \union {NoId}, inReplyTo : Ids \union {NoId}, refs : SeqOf(Ids, MaxRefs)]
Nowhere == [id |-> NoId, inReplyTo |-> NoId, refs |-> <<>>]

\* Everything a command may be.
Command == [verb : {"send", "reply", "forward"},
            gmail : BOOLEAN,                    \* via the API, or via SMTP
            to : SUBSET Texts, cc : SUBSET Texts, bcc : SUBSET Texts,
            from : Texts,                       \* of the source
            others : SeqOf(Texts, MaxOthers),   \* To and Cc of the source, in order
            all : BOOLEAN,
            place : Place]                      \* of the source

ASSUME CommandsType == Commands \subseteq Command

\* dedupeExcept: the first text of each mailbox but self; text that is no address
\* stays, for Compose to complain of.
DedupeExcept(s, self) ==
    LET key(t) == IF t = Unparseable THEN t ELSE MailboxOf(t)
    IN  {s[i] : i \in {k \in DOMAIN s : /\ key(s[k]) # self
                                        /\ \A j \in 1..(k - 1) : key(s[j]) # key(s[k])}}

\* replyRecipients and threadingHeaders.
BuildReply(m) ==
    [to |-> {m.from},
     cc |-> IF m.all THEN DedupeExcept(m.others, Self) ELSE {},
     bcc |-> {}]

BuildForward(m) == [to |-> m.to, cc |-> m.cc, bcc |-> m.bcc]

Written(m) == IF m.verb = "reply" THEN BuildReply(m) ELSE BuildForward(m)

\* validateSpec and the parsing of addresses.
Composes(s) == s.to # {} /\ Unparseable \notin s.to \union s.cc \union s.bcc

\* (mutant) The Bcc header is in the message as composed, for whichever transport.
ComposeWithBccHeader(s) ==
    [raw |-> [to |-> s.to, cc |-> s.cc, bcc |-> s.bcc], recipients |-> s.to \union s.cc \union s.bcc,
     bcc |-> s.bcc]

\* Compose: Raw, by its address headers, of which Bcc is none; the SMTP recipients;
\* and the Bcc addresses, for a transport that learns of recipients from headers.
Compose(s) ==
    [raw |-> [to |-> s.to, cc |-> s.cc, bcc |-> {}], recipients |-> s.to \union s.cc \union s.bcc,
     bcc |-> s.bcc]

\* What the Gmail client sends in place of Raw.
InjectBccHeader(raw, bcc) == [raw EXCEPT !.bcc = @ \union bcc]

HeaderAddresses(raw) == raw.to \union raw.cc \union raw.bcc

\* The Gmail API delivers to everybody in the headers, a copy without the Bcc header.
ApiStripped(raw) == [raw EXCEPT !.bcc = {}]

-----------------------------------------------------------------------------
(* On the wire *)

WirePCs == {"open", "compose", "mail", "rcpt", "data", "answer", "api", "sent", "failed"}

Wire == [pc : WirePCs, run : 1..MaxRuns,
         left : SUBSET Addresses,       \* recipients not yet named to the server
         named : SUBSET Addresses,      \* recipients the server has accepted
         through : BOOLEAN,             \* history: this run's message was accepted
         lost : Nat]                    \* history: answers to a message that got lost

At(pc) == [wire EXCEPT !.pc = pc]

DeliverTo(S, raw) ==
    /\ got' = [a \in Addresses |-> IF a \in S THEN got[a] + 1 ELSE got[a]]
    /\ reads' = [a \in Addresses |->
                    IF a \in S THEN reads[a] \union HeaderAddresses(raw) ELSE reads[a]]

\* The body and the account are there, the source message can be read, and the
\* sender connects and logs in; or one of them is not so.
OpenSender ==
    /\ wire.pc = "open"
    /\ wire' \in {At("compose"), At("failed")}
    /\ UNCHANGED <<mail, got, reads>>

ComposeMessage ==
    /\ wire.pc = "compose"
    /\ wire' = IF Composes(Written(mail))
               THEN [wire EXCEPT !.pc = IF mail.gmail THEN "api" ELSE "mail",
                                 !.left = Compose(Written(mail)).recipients]
               ELSE At("failed")
    /\ UNCHANGED <<mail, got, reads>>

\* MAIL FROM: accepted, or not.
MailFrom ==
    /\ wire.pc = "mail"
    /\ wire' \in {At("rcpt"), At("failed")}
    /\ UNCHANGED <<mail, got, reads>>

\* (mutant) A rejected recipient is passed over.
RcptToPassingOver ==
    /\ wire.pc = "rcpt"
    /\ \E a \in wire.left, accepted \in BOOLEAN :
           wire' = [wire EXCEPT !.left = @ \ {a},
                                !.named = IF accepted THEN @ \union {a} ELSE @,
                                !.pc = IF wire.left = {a} THEN "data" ELSE "rcpt"]
    /\ UNCHANGED <<mail, got, reads>>

\* RCPT TO of the next recipient: the first one that is not accepted ends the run.
RcptTo ==
    /\ wire.pc = "rcpt"
    /\ \E a \in wire.left :
           wire' \in {[wire EXCEPT !.left = @ \ {a}, !.named = @ \union {a},
                                   !.pc = IF wire.left = {a} THEN "data" ELSE "rcpt"],
                      At("failed")}
    /\ UNCHANGED <<mail, got, reads>>

\* DATA and the message, up to the final dot.
Data ==
    /\ wire.pc = "data"
    /\ wire' \in {At("answer"), At("failed")}
    /\ UNCHANGED <<mail, got, reads>>

\* (mutant) What the server says to the final dot is not looked at.
EndOfDataUnheard ==
    /\ wire.pc = "answer"
    /\ \/ /\ DeliverTo(wire.named, Compose(Written(mail)).raw)
          /\ wire' = [At("sent") EXCEPT !.through = TRUE]
       \/ /\ wire' = At("sent")
          /\ UNCHANGED <<got, reads>>
    /\ UNCHANGED mail

\* The final dot of Raw, which the server relays as it is: it takes it and says so, or takes it and its
\* answer is lost, or does not take it.
EndOfData ==
    /\ wire.pc = "answer"
    /\ \/ /\ DeliverTo(wire.named, Compose(Written(mail)).raw)
          /\ wire' \in {[At("sent") EXCEPT !.through = TRUE],
                        [At("failed") EXCEPT !.through = TRUE, !.lost = @ + 1]}
       \/ /\ wire' = At("failed")
          /\ UNCHANGED <<got, reads>>
    /\ UNCHANGED mail

\* users.messages.send, with the same three ends.
ApiSend ==
    LET o == Compose(Written(mail))
        raw == InjectBccHeader(o.raw, o.bcc)
    IN  /\ wire.pc = "api"
        /\ \/ /\ DeliverTo(HeaderAddresses(raw), ApiStripped(raw))
              /\ wire' \in {[At("sent") EXCEPT !.through = TRUE],
                            [At("failed") EXCEPT !.through = TRUE, !.lost = @ + 1]}
           \/ /\ wire' = At("failed")
              /\ UNCHANGED <<got, reads>>
        /\ UNCHANGED mail

\* The user runs the command that failed again.
RunAgain ==
    /\ wire.pc = "failed"
    /\ wire.run < MaxRuns
    /\ wire' = [pc |-> "open", run |-> wire.run + 1, left |-> {}, named |-> {},
                through |-> FALSE, lost |-> wire.lost]
    /\ UNCHANGED <<mail, got, reads>>

SendInit ==
    /\ mail \in Commands
    /\ wire = [pc |-> "open", run |-> 1, left |-> {}, named |-> {}, through |-> FALSE, lost |-> 0]
    /\ got = [a \in Addresses |-> 0]
    /\ reads = [a \in Addresses |-> {}]

SendNext ==
    \/ OpenSender \/ ComposeMessage \/ MailFrom \/ RcptTo \/ Data \/ EndOfData
    \/ ApiSend \/ RunAgain

SendSpec == SendInit /\ [][SendNext]_sendVars

-----------------------------------------------------------------------------
(* The place of a reply in its conversation *)

\* (mutant) The References of a reply are the source's and its Message-ID.
ThreadingHeadersOfRefs(p) ==
    IF p.id = NoId THEN [inReplyTo |-> NoId, refs |-> <<>>]
    ELSE [inReplyTo |-> p.id, refs |-> Append(p.refs, p.id)]

\* threadingHeaders: In-Reply-To stands in for References the source lacks.
ThreadingHeaders(p) ==
    IF p.id = NoId THEN [inReplyTo |-> NoId, refs |-> <<>>]
    ELSE [inReplyTo |-> p.id,
          refs |-> Append(IF p.refs = <<>> /\ p.inReplyTo # NoId THEN <<p.inReplyTo>> ELSE p.refs,
                          p.id)]

\* The message of a window that BuildGraph puts a message under: the one it is in
\* reply to, or else the last of its references that is there.
ParentIn(window, h) ==
    IF h.inReplyTo \in window THEN h.inReplyTo
    ELSE LET found == {i \in DOMAIN h.refs : h.refs[i] \in window}
         IN  IF found = {} THEN NoId
             ELSE h.refs[CHOOSE i \in found : \A j \in found : j <= i]

-----------------------------------------------------------------------------
(* Properties *)

\* Every variable stays in its range, and a run names each recipient to the server
\* once.
SendTypeOK ==
    /\ wire \in Wire
    /\ wire.left \intersect wire.named = {}
    /\ got \in [Addresses -> 0..MaxRuns]
    /\ reads \in [Addresses -> SUBSET Addresses]

\* The mailboxes a command is meant for: those named, or the sender of the source
\* and with --all everyone it was sent to but oneself.
Meant ==
    IF mail.verb = "reply"
    THEN MailboxesOf({mail.from}) \union
         (IF mail.all THEN MailboxesOf(ToSet(mail.others)) \ {Self} ELSE {})
    ELSE MailboxesOf(mail.to \union mail.cc \union mail.bcc)

\* Whatever is rejected and lost, a message has at any moment reached all the
\* mailboxes it is meant for equally often, and no other one: not some of them, and
\* with --all not the replying account itself.  This is so through both transports.
ReachesAllOrNobody ==
    \A a \in Addresses :
        /\ MailboxOf(a) \notin Meant => got[a] = 0
        /\ MailboxOf(a) \in Meant /\ (\E b \in Addresses : got[b] > 0)
               => \E s \in Spellings : \A b \in Addresses : got[<<MailboxOf(a), s>>] >= got[b]

\* The exit code tells what happened to the run's message, unless the answer to it
\* was lost; so a command run until it succeeds has sent one message more than
\* answers were lost.
TwiceOnlyIfAnswerLost ==
    /\ wire.pc = "sent" => wire.through
    /\ \A a \in Addresses : got[a] <= wire.lost + (IF wire.pc = "sent" THEN 1 ELSE 0)

\* The mailboxes a command writes to openly: all it is meant for but those of --bcc.
Openly == IF mail.verb = "reply" THEN Meant ELSE MailboxesOf(mail.to \union mail.cc)

\* Everyone a message has reached, by whichever transport and in whichever run, can
\* read in it all the mailboxes it was written to openly and no other: nobody is
\* shown a Bcc recipient, though Gmail is sent a Bcc header and SMTP is not.
CopiesShowOpenRecipients ==
    \A a \in Addresses : got[a] > 0 => MailboxesOf(reads[a]) = Openly

\* A reply keeps its place when the message it replies to is not in the window, or
\* gone: it then hangs where that message would hang.  (For a source whose
\* References, if any, end with what it is in reply to.)
RepliesKeepTheirPlace ==
    LET p == mail.place
        reply == ThreadingHeaders(p)
        source == [inReplyTo |-> p.inReplyTo, refs |-> p.refs]
        wellFormed == \/ p.refs = <<>>
                      \/ p.inReplyTo \in {NoId, p.refs[Len(p.refs)]}
    IN  mail.verb = "reply" /\ p.id # NoId /\ wellFormed =>
            \A window \in SUBSET Ids :
                IF p.id \in window THEN ParentIn(window, reply) = p.id
                ELSE ParentIn(window, reply) = ParentIn(window, source)
=============================================================================
