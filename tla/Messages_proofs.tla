---------------------------- MODULE Messages_proofs ----------------------------
(***************************************************************************)
(* Proofs about SendMail, ThreadFetch and MessageIds, for any addresses,   *)
(* any number of runs, any forest of replies, and names of any length.     *)
(***************************************************************************)
EXTENDS SendMail, ThreadFetch, MessageIds, FiniteSetTheorems, SequenceTheorems,
        WellFoundedInduction, TLAPS

\* Numbers have a least one among them: what induction is replaced by.
LEMMA LeastOf ==
    ASSUME NEW T \in SUBSET Nat, T # {}
    PROVE  \E x \in T : \A y \in T : x <= y
  <1> DEFINE R == OpToRel(<, Nat)
  <1>1. \E x \in T : \A y \in T : <<y, x>> \notin R
    <2>1. IsWellFoundedOn(R, Nat)
      BY NatLessThanWellFounded
    <2> QED BY <2>1, WFMin
  <1>2. \A x, y \in Nat : <<y, x>> \notin R => x <= y
    BY DEF OpToRel
  <1> QED BY <1>1, <1>2

LEMMA GreatestOf ==
    ASSUME NEW T \in SUBSET Nat, T # {}, NEW n \in Nat, \A t \in T : t <= n
    PROVE  \E x \in T : \A y \in T : y <= x
  <1> DEFINE U == {u \in Nat : \A t \in T : t <= u}
  <1>1. PICK u \in U : \A v \in U : u <= v
    <2>1. U \in SUBSET Nat /\ n \in U
      OBVIOUS
    <2> HIDE DEF U
    <2> QED BY <2>1, LeastOf
  <1>2. u \in T
    <2> SUFFICES ASSUME u \notin T PROVE FALSE
      OBVIOUS
    <2>1. \A t \in T : t <= u - 1
      BY <1>1
    <2>2. u - 1 \in Nat
      <3>1. PICK t \in T : TRUE
        OBVIOUS
      <3> QED BY <1>1, <2>1, <3>1
    <2> QED BY <1>1, <2>1, <2>2
  <1> QED BY <1>1, <1>2

-----------------------------------------------------------------------------
(* Sending *)

\* Who the command writes to, as composed.
Recipients == Compose(Written(mail)).recipients

\* What the server knows of the recipients at each step of a run.
NamedInTurn ==
    /\ wire.pc \in {"mail", "rcpt", "data", "answer", "api"} => Composes(Written(mail))
    /\ wire.pc \in {"open", "compose"} => wire.left = {} /\ wire.named = {}
    /\ wire.pc \in {"mail", "api"} => wire.left = Recipients /\ wire.named = {}
    /\ wire.pc = "rcpt" => wire.left \union wire.named = Recipients
    /\ wire.pc \in {"data", "answer"} => wire.left = {} /\ wire.named = Recipients

\* The message has been delivered to all its recipients equally often, n times, and to
\* nobody else.
DeliveredTo(n) == got = [a \in Addresses |-> IF a \in Recipients THEN n ELSE 0]

\* It was delivered once for each answer that was lost, and once if it was sent.
Deliveries ==
    \E n \in Nat :
        /\ DeliveredTo(n)
        /\ n > 0 => Composes(Written(mail))
        /\ n <= wire.lost + (IF wire.pc = "sent" THEN 1 ELSE 0)

\* An answer is lost at most once in a run, and ends it.
LossesPerRun ==
    /\ wire.lost <= IF wire.pc = "failed" THEN wire.run ELSE wire.run - 1
    /\ wire.pc = "sent" => wire.through

\* Who has been delivered the message reads the headers of Raw in it.
CopiesOfRaw ==
    reads = [a \in Addresses |->
                IF got[a] > 0 THEN HeaderAddresses(Compose(Written(mail)).raw) ELSE {}]

SendInv ==
    /\ mail \in Command
    /\ wire \in Wire
    /\ wire.left \intersect wire.named = {}
    /\ NamedInTurn
    /\ Deliveries
    /\ LossesPerRun
    /\ CopiesOfRaw

-----------------------------------------------------------------------------

LEMMA RecipientsAreAddresses ==
    ASSUME mail \in Command, Composes(Written(mail))
    PROVE  Recipients \subseteq Addresses
  <1>2. mail.others \in Seq(Texts)
    BY BoundsType DEF Command, SeqOf
  <1>3. DedupeExcept(mail.others, Self) \subseteq Texts
    BY <1>2 DEF DedupeExcept
  <1>4. Recipients \subseteq Texts
    BY <1>3 DEF Recipients, Compose, Written, BuildReply, BuildForward, Command
  <1> QED BY <1>4 DEF Composes, Recipients, Compose, Texts

LEMMA SendBegins == SendInit => SendInv
  <1> SUFFICES ASSUME SendInit PROVE SendInv
    OBVIOUS
  <1>1. wire \in Wire
    BY BoundsType DEF SendInit, Wire, WirePCs
  <1>2. DeliveredTo(0)
    BY DEF SendInit, DeliveredTo
  <1>3. Deliveries
    BY <1>2 DEF SendInit, Deliveries
  <1>4. CopiesOfRaw
    BY DEF SendInit, CopiesOfRaw
  <1> QED BY <1>1, <1>3, <1>4, CommandsType DEF SendInit, SendInv, NamedInTurn, LossesPerRun

\* A step that only moves the wire and delivers nothing.
LEMMA DeliversNothing ==
    ASSUME SendInv, UNCHANGED <<mail, got, reads>>, wire' \in Wire,
           wire'.lost = wire.lost, wire.pc # "sent"
    PROVE  Deliveries'
  BY DEF SendInv, Deliveries, DeliveredTo, Recipients, Wire

LEMMA CopiesStay ==
    ASSUME SendInv, UNCHANGED <<mail, got, reads>> PROVE CopiesOfRaw'
  BY DEF SendInv, CopiesOfRaw

\* A step that hands the message to everybody it is for, at most one of them a step.
LEMMA DeliversToAll ==
    ASSUME SendInv, NEW raw, HeaderAddresses(raw) = HeaderAddresses(Compose(Written(mail)).raw),
           DeliverTo(Recipients, raw), UNCHANGED mail, Composes(Written(mail)),
           wire.pc \in {"answer", "api"},
           wire' \in {[At("sent") EXCEPT !.through = TRUE],
                      [At("failed") EXCEPT !.through = TRUE, !.lost = @ + 1]}
    PROVE  SendInv'
  <1>1. wire \in Wire /\ wire.lost \in Nat /\ wire.run \in Nat
    BY BoundsType DEF SendInv, Wire
  <1>2. PICK n \in Nat : DeliveredTo(n) /\ n <= wire.lost
    <2>1. wire.lost + (IF wire.pc = "sent" THEN 1 ELSE 0) = wire.lost
      BY <1>1
    <2> QED BY <2>1 DEF SendInv, Deliveries
  <1>3. DeliveredTo(n + 1)'
    BY <1>2 DEF DeliveredTo, DeliverTo, Recipients
  <1>4. /\ wire' \in Wire
        /\ UNCHANGED <<wire.run, wire.left, wire.named>>
        /\ wire'.pc \in {"sent", "failed"}
        /\ n + 1 <= wire'.lost + (IF wire'.pc = "sent" THEN 1 ELSE 0)
        /\ LossesPerRun'
    <2>1. wire.lost <= wire.run - 1
      BY DEF SendInv, LossesPerRun
    <2>2. CASE wire' = [At("sent") EXCEPT !.through = TRUE]
      <3>1. wire' = [wire EXCEPT !.pc = "sent", !.through = TRUE]
        BY <1>1, <2>2 DEF At, Wire
      <3>2. wire' \in Wire
        BY <1>1, <3>1 DEF Wire, WirePCs
      <3>3. /\ wire'.pc = "sent" /\ wire'.through /\ wire'.lost = wire.lost
            /\ UNCHANGED <<wire.run, wire.left, wire.named>>
        BY <1>1, <3>1 DEF Wire
      <3> QED BY <1>1, <1>2, <2>1, <3>2, <3>3 DEF LossesPerRun
    <2>3. CASE wire' = [At("failed") EXCEPT !.through = TRUE, !.lost = @ + 1]
      <3>1. wire' = [wire EXCEPT !.pc = "failed", !.through = TRUE, !.lost = @ + 1]
        BY <1>1, <2>3 DEF At, Wire
      <3>2. wire' \in Wire
        <4>1. wire.lost + 1 \in Nat
          BY <1>1
        <4> QED BY <1>1, <3>1, <4>1 DEF Wire, WirePCs
      <3>3. /\ wire'.pc = "failed" /\ wire'.through /\ wire'.lost = wire.lost + 1
            /\ UNCHANGED <<wire.run, wire.left, wire.named>>
        BY <1>1, <3>1 DEF Wire
      <3> QED BY <1>1, <1>2, <2>1, <3>2, <3>3 DEF LossesPerRun
    <2> QED BY <2>2, <2>3
  <1>5. Deliveries'
    BY <1>3, <1>4 DEF Deliveries
  <1>6. CopiesOfRaw'
    <2>1. \A a \in Addresses : got[a] \in Nat /\ got'[a] = IF a \in Recipients THEN got[a] + 1 ELSE got[a]
      BY <1>2 DEF DeliveredTo, DeliverTo
    <2>2. \A a \in Addresses :
              reads'[a] = IF got'[a] > 0 THEN HeaderAddresses(Compose(Written(mail)).raw) ELSE {}
      BY <2>1 DEF DeliverTo, SendInv, CopiesOfRaw
    <2>3. reads' = [a \in Addresses |-> reads'[a]]
      BY DEF DeliverTo
    <2> QED BY <2>2, <2>3 DEF CopiesOfRaw
  <1> QED BY <1>4, <1>5, <1>6 DEF SendInv, NamedInTurn

\* The run fails without the message having been taken.
LEMMA FailingKeeps ==
    ASSUME SendInv, UNCHANGED <<mail, got, reads>>, wire.pc \notin {"sent", "failed"},
           wire' = At("failed")
    PROVE  SendInv'
  <1>1. wire \in Wire /\ wire' \in Wire
    BY DEF SendInv, At, Wire, WirePCs
  <1>2. /\ wire'.pc = "failed" /\ wire'.run = wire.run /\ wire'.lost = wire.lost
        /\ wire'.left = wire.left /\ wire'.named = wire.named
    BY <1>1 DEF At, Wire
  <1>3. Deliveries'
    BY <1>1, <1>2, DeliversNothing
  <1>4. LossesPerRun'
    BY <1>1, <1>2 DEF SendInv, LossesPerRun, Wire
  <1> QED BY <1>1, <1>2, <1>3, <1>4, CopiesStay DEF SendInv, NamedInTurn

\* The run goes on to another step, without the message being taken.
LEMMA AdvancingKeeps ==
    ASSUME SendInv, UNCHANGED <<mail, got, reads>>, wire.pc \notin {"sent", "failed"},
           NEW pc \in WirePCs \ {"sent", "failed"},
           wire'.pc = pc, wire'.run = wire.run, wire'.lost = wire.lost, wire' \in Wire,
           wire'.left \intersect wire'.named = {},
           NamedInTurn'
    PROVE  SendInv'
  <1>1. Deliveries'
    BY DeliversNothing
  <1>2. LossesPerRun'
    BY DEF SendInv, LossesPerRun
  <1> QED BY <1>1, <1>2, CopiesStay DEF SendInv

LEMMA SendStep == ASSUME SendInv, [SendNext]_sendVars PROVE SendInv'
  <1>0. /\ wire \in Wire /\ wire.run \in Nat /\ wire.lost \in Nat
        /\ mail \in Command
    BY BoundsType DEF SendInv, Wire
  <1>1. CASE OpenSender
    <2>1. CASE wire' = At("compose")
      <3>1. wire' \in Wire /\ wire' = [wire EXCEPT !.pc = "compose"]
        BY <1>0, <2>1 DEF At, Wire, WirePCs
      <3> QED BY <1>0, <1>1, <3>1, AdvancingKeeps DEF OpenSender, SendInv, NamedInTurn, Wire, WirePCs
    <2>2. CASE wire' = At("failed")
      BY <1>1, <2>2, FailingKeeps DEF OpenSender
    <2> QED BY <1>1, <2>1, <2>2 DEF OpenSender
  <1>2. CASE ComposeMessage
    <2>1. CASE Composes(Written(mail))
      <3>1. /\ wire' \in Wire
            /\ wire'.pc \in {"api", "mail"} /\ wire'.left = Recipients /\ wire'.named = wire.named
            /\ wire'.run = wire.run /\ wire'.lost = wire.lost
        BY <1>0, <1>2, <2>1, RecipientsAreAddresses DEF ComposeMessage, Wire, WirePCs, Recipients
      <3>2. wire.named = {}
        BY <1>2 DEF SendInv, NamedInTurn, ComposeMessage
      <3>3. NamedInTurn'
        BY <1>2, <2>1, <3>1, <3>2 DEF ComposeMessage, NamedInTurn, Recipients
      <3> QED BY <1>2, <3>1, <3>2, <3>3, AdvancingKeeps DEF ComposeMessage, WirePCs
    <2>2. CASE ~Composes(Written(mail))
      BY <1>2, <2>2, FailingKeeps DEF ComposeMessage
    <2> QED BY <2>1, <2>2
  <1>3. CASE MailFrom
    <2>1. CASE wire' = At("rcpt")
      <3>1. wire' \in Wire /\ wire' = [wire EXCEPT !.pc = "rcpt"]
        BY <1>0, <2>1 DEF At, Wire, WirePCs
      <3>2. /\ wire'.pc = "rcpt"
            /\ UNCHANGED <<wire.left, wire.named, wire.run, wire.lost>>
        BY <1>0, <3>1 DEF Wire
      <3>3. NamedInTurn'
        BY <1>3, <3>2 DEF MailFrom, SendInv, NamedInTurn, Recipients
      <3>4. wire'.left \intersect wire'.named = {}
        BY <3>2 DEF SendInv
      <3> QED BY <1>3, <3>1, <3>2, <3>3, <3>4, AdvancingKeeps DEF MailFrom, WirePCs
    <2>2. CASE wire' = At("failed")
      BY <1>3, <2>2, FailingKeeps DEF MailFrom
    <2> QED BY <1>3, <2>1, <2>2 DEF MailFrom
  <1>4. CASE RcptTo
    <2>1. PICK a \in wire.left :
              wire' \in {[wire EXCEPT !.left = @ \ {a}, !.named = @ \union {a},
                                      !.pc = IF wire.left = {a} THEN "data" ELSE "rcpt"],
                         At("failed")}
      BY <1>4 DEF RcptTo
    <2>2. CASE wire' = At("failed")
      BY <1>4, <2>2, FailingKeeps DEF RcptTo
    <2>3. CASE wire' # At("failed")
      <3>1. /\ wire' \in Wire
            /\ wire'.pc = (IF wire.left = {a} THEN "data" ELSE "rcpt")
            /\ wire'.left = wire.left \ {a} /\ wire'.named = wire.named \union {a}
            /\ wire'.run = wire.run /\ wire'.lost = wire.lost
        <4> DEFINE pc == IF wire.left = {a} THEN "data" ELSE "rcpt"
        <4>1. wire' = [wire EXCEPT !.left = wire.left \ {a}, !.named = wire.named \union {a},
                                   !.pc = pc]
          BY <2>1, <2>3
        <4>2. /\ wire.left \ {a} \in SUBSET Addresses
              /\ wire.named \union {a} \in SUBSET Addresses
              /\ pc \in WirePCs
          BY <1>0 DEF Wire, WirePCs
        <4> HIDE DEF pc
        <4>3. /\ wire' \in Wire
              /\ wire'.pc = pc
              /\ wire'.left = wire.left \ {a} /\ wire'.named = wire.named \union {a}
              /\ wire'.run = wire.run /\ wire'.lost = wire.lost
          BY <1>0, <4>1, <4>2 DEF Wire
        <4> QED BY <4>3 DEF pc
      <3>2. NamedInTurn'
        BY <1>4, <3>1 DEF RcptTo, SendInv, NamedInTurn, Recipients
      <3>3. wire'.left \intersect wire'.named = {}
        BY <3>1 DEF SendInv
      <3> QED BY <1>4, <3>1, <3>2, <3>3, AdvancingKeeps DEF RcptTo, WirePCs
    <2> QED BY <2>2, <2>3
  <1>5. CASE Data
    <2>1. CASE wire' = At("answer")
      <3>1. wire' \in Wire /\ wire' = [wire EXCEPT !.pc = "answer"]
        BY <1>0, <2>1 DEF At, Wire, WirePCs
      <3>2. /\ wire'.pc = "answer"
            /\ UNCHANGED <<wire.left, wire.named, wire.run, wire.lost>>
        BY <1>0, <3>1 DEF Wire
      <3>3. NamedInTurn'
        BY <1>5, <3>2 DEF Data, SendInv, NamedInTurn, Recipients
      <3>4. wire'.left \intersect wire'.named = {}
        BY <3>2 DEF SendInv
      <3> QED BY <1>5, <3>1, <3>2, <3>3, <3>4, AdvancingKeeps DEF Data, WirePCs
    <2>2. CASE wire' = At("failed")
      BY <1>5, <2>2, FailingKeeps DEF Data
    <2> QED BY <1>5, <2>1, <2>2 DEF Data
  <1>6. CASE EndOfData
    <2>1. wire.pc = "answer" /\ wire.named = Recipients /\ Composes(Written(mail))
      BY <1>6 DEF EndOfData, SendInv, NamedInTurn
    <2>2. CASE wire' = At("failed") /\ UNCHANGED <<got, reads>>
      BY <1>6, <2>1, <2>2, FailingKeeps DEF EndOfData
    <2>3. CASE DeliverTo(wire.named, Compose(Written(mail)).raw)
      BY <1>6, <2>1, <2>2, <2>3, DeliversToAll DEF EndOfData
    <2> QED BY <1>6, <2>2, <2>3 DEF EndOfData
  <1>7. CASE ApiSend
    <2>1. wire.pc = "api" /\ Composes(Written(mail))
      BY <1>7 DEF ApiSend, SendInv, NamedInTurn
    <2>2. CASE wire' = At("failed") /\ UNCHANGED <<got, reads>>
      BY <1>7, <2>1, <2>2, FailingKeeps DEF ApiSend
    <2>3. PICK o, raw : o = Compose(Written(mail)) /\ raw = InjectBccHeader(o.raw, o.bcc)
      OBVIOUS
    <2>4. CASE DeliverTo(HeaderAddresses(raw), ApiStripped(raw))
      <3>1. HeaderAddresses(raw) = Recipients
        BY <2>3 DEF HeaderAddresses, InjectBccHeader, Recipients, Compose
      <3>2. HeaderAddresses(ApiStripped(raw)) = HeaderAddresses(o.raw)
        BY <2>3 DEF HeaderAddresses, ApiStripped, InjectBccHeader, Compose
      <3> QED BY <1>7, <2>1, <2>2, <2>3, <2>4, <3>1, <3>2, DeliversToAll DEF ApiSend
    <2> QED BY <1>7, <2>2, <2>3, <2>4 DEF ApiSend
  <1>8. CASE RunAgain
    <2>1. /\ wire' \in Wire
          /\ wire'.pc = "open" /\ wire'.lost = wire.lost /\ wire'.run - 1 = wire.run
          /\ wire'.left = {} /\ wire'.named = {}
      BY <1>0, <1>8, BoundsType DEF RunAgain, Wire, WirePCs
    <2>2. Deliveries'
      BY <1>0, <1>8, <2>1, DeliversNothing DEF RunAgain
    <2>3. LossesPerRun'
      BY <1>8, <2>1 DEF RunAgain, SendInv, LossesPerRun
    <2> QED BY <1>8, <2>1, <2>2, <2>3, CopiesStay DEF RunAgain, SendInv, NamedInTurn
  <1>9. CASE UNCHANGED sendVars
    BY <1>9 DEF sendVars, SendInv, NamedInTurn, Deliveries, DeliveredTo, LossesPerRun, Recipients,
                  CopiesOfRaw
  <1> QED BY <1>1, <1>2, <1>3, <1>4, <1>5, <1>6, <1>7, <1>8, <1>9 DEF SendNext

LEMMA SendInvAlways == SendSpec => []SendInv
  <1>1. SendInit => SendInv
    BY SendBegins
  <1>2. SendInv /\ [SendNext]_sendVars => SendInv'
    BY SendStep
  <1> QED BY <1>1, <1>2, PTL DEF SendSpec

\* How often a delivered message has been delivered is bounded by the runs.
LEMMA SendTypes == SendInv => SendTypeOK
  <1> SUFFICES ASSUME SendInv PROVE SendTypeOK
    OBVIOUS
  <1>1. PICK n \in Nat : /\ DeliveredTo(n)
                         /\ n > 0 => Composes(Written(mail))
                         /\ n <= wire.lost + (IF wire.pc = "sent" THEN 1 ELSE 0)
    BY DEF SendInv, Deliveries
  <1>2. wire.run \in 1..MaxRuns /\ wire.lost \in Nat
    BY DEF SendInv, Wire
  <1>3. n <= MaxRuns
    BY <1>1, <1>2, BoundsType DEF SendInv, LossesPerRun
  <1>4. got \in [Addresses -> 0..MaxRuns]
    BY <1>1, <1>3, BoundsType DEF DeliveredTo
  <1>5. reads \in [Addresses -> SUBSET Addresses]
    <2>1. \A a \in Addresses : got[a] > 0 =>
              HeaderAddresses(Compose(Written(mail)).raw) \subseteq Addresses
      <3> SUFFICES ASSUME n > 0 PROVE HeaderAddresses(Compose(Written(mail)).raw) \subseteq Addresses
        BY <1>1 DEF DeliveredTo
      <3>1. Composes(Written(mail))
        BY <1>1
      <3>2. Recipients \subseteq Addresses
        BY <3>1, RecipientsAreAddresses DEF SendInv
      <3> QED BY <3>2 DEF HeaderAddresses, Recipients, Compose
    <2> QED BY <2>1 DEF SendInv, CopiesOfRaw
  <1> QED BY <1>4, <1>5 DEF SendInv, SendTypeOK

\* Every variable of a send stays in its range.
THEOREM SendTypeCorrect == SendSpec => []SendTypeOK
  BY SendInvAlways, SendTypes, PTL

\* Of the texts DedupeExcept is given, it keeps one of each mailbox but self, and
\* none of self.
LEMMA DedupedMailboxes ==
    ASSUME NEW s \in Seq(Texts), Unparseable \notin DedupeExcept(s, Self)
    PROVE  MailboxesOf(DedupeExcept(s, Self)) = MailboxesOf(ToSet(s)) \ {Self}
  <1> DEFINE key(t) == IF t = Unparseable THEN t ELSE MailboxOf(t)
             First == {k \in DOMAIN s : /\ key(s[k]) # Self
                                        /\ \A j \in 1..(k - 1) : key(s[j]) # key(s[k])}
             D == DedupeExcept(s, Self)
  <1>1. D = {s[i] : i \in First}
    BY DEF DedupeExcept
  <1>2. ASSUME NEW m \in MailboxesOf(D)
        PROVE  m \in MailboxesOf(ToSet(s)) \ {Self}
    <2>1. PICK a \in D : a # Unparseable /\ m = MailboxOf(a)
      BY DEF MailboxesOf
    <2>2. PICK i \in First : a = s[i]
      BY <1>1
    <2>3. key(s[i]) = m
      BY <2>1, <2>2
    <2>4. i \in DOMAIN s /\ key(s[i]) # Self
      OBVIOUS
    <2>5. a \in ToSet(s) \ {Unparseable}
      BY <2>1, <2>2, <2>4 DEF ToSet
    <2> HIDE DEF First, key
    <2> QED BY <2>1, <2>3, <2>4, <2>2, <2>5 DEF MailboxesOf
  <1>3. ASSUME NEW m \in MailboxesOf(ToSet(s)) \ {Self}
        PROVE  m \in MailboxesOf(D)
    <2>1. PICK i \in DOMAIN s : s[i] # Unparseable /\ m = MailboxOf(s[i])
      BY DEF MailboxesOf, ToSet
    <2> DEFINE T == {k \in 1..Len(s) : key(s[k]) = m}
    <2>2. T \in SUBSET Nat /\ T # {}
      BY <2>1
    <2>3. PICK k \in T : \A j \in T : k <= j
      <3> HIDE DEF T
      <3> QED BY <2>2, LeastOf
    <2>4. k \in DOMAIN s /\ key(s[k]) = m /\ \A j \in 1..(k - 1) : key(s[j]) # m
      BY <2>3
    <2>5. k \in First
      BY <2>4
    <2>6. s[k] \in D
      BY <1>1, <2>5
    <2>7. s[k] \in D \ {Unparseable} /\ MailboxOf(s[k]) = m
      BY <2>4, <2>6
    <2> QED BY <2>7 DEF MailboxesOf
  <1> QED BY <1>2, <1>3

\* A command that composes writes to the mailboxes it is meant for.
LEMMA RecipientsAreMeant ==
    ASSUME mail \in Command, Composes(Written(mail))
    PROVE  MailboxesOf(Recipients) = Meant
  <1>2. mail.others \in Seq(Texts)
    BY BoundsType DEF Command, SeqOf
  <1>3. CASE mail.verb = "reply"
    <2>1. Recipients = {mail.from} \union (IF mail.all THEN DedupeExcept(mail.others, Self) ELSE {})
      BY <1>3 DEF Recipients, Compose, Written, BuildReply
    <2>2. mail.all => Unparseable \notin DedupeExcept(mail.others, Self)
      BY <1>3 DEF Composes, Written, BuildReply
    <2>3. mail.all =>
              MailboxesOf(DedupeExcept(mail.others, Self)) = MailboxesOf(ToSet(mail.others)) \ {Self}
      BY <1>2, <2>2, DedupedMailboxes
    <2>4. MailboxesOf(Recipients) =
              MailboxesOf({mail.from}) \union
              (IF mail.all THEN MailboxesOf(DedupeExcept(mail.others, Self)) ELSE {})
      BY <2>1 DEF MailboxesOf
    <2> QED BY <1>3, <2>3, <2>4 DEF Meant
  <1>4. CASE mail.verb # "reply"
    BY <1>4 DEF Recipients, Compose, Written, BuildForward, Meant
  <1> QED BY <1>3, <1>4

LEMMA AllOrNobody == SendInv => ReachesAllOrNobody
  <1> SUFFICES ASSUME SendInv, NEW a \in Addresses
               PROVE  /\ MailboxOf(a) \notin Meant => got[a] = 0
                      /\ MailboxOf(a) \in Meant /\ (\E b \in Addresses : got[b] > 0) =>
                             \E s \in Spellings :
                                 \A b \in Addresses : got[<<MailboxOf(a), s>>] >= got[b]
    BY DEF ReachesAllOrNobody
  <1>1. PICK n \in Nat : DeliveredTo(n) /\ (n > 0 => Composes(Written(mail)))
    BY DEF SendInv, Deliveries
  <1>2. \A b \in Addresses : got[b] = IF b \in Recipients THEN n ELSE 0
    BY <1>1 DEF DeliveredTo
  <1>3. CASE n = 0
    <2>1. \A b \in Addresses : got[b] = 0
      BY <1>2, <1>3
    <2> QED BY <2>1
  <1>4. CASE n > 0
    <2>1. MailboxesOf(Recipients) = Meant /\ Recipients \subseteq Addresses
          /\ Unparseable \notin Recipients
      BY <1>1, <1>4, RecipientsAreMeant, RecipientsAreAddresses
         DEF SendInv, Composes, Recipients, Compose
    <2>2. a \in Recipients => MailboxOf(a) \in Meant
      BY <2>1 DEF MailboxesOf
    <2>3. ASSUME MailboxOf(a) \in Meant
          PROVE  \E s \in Spellings : \A b \in Addresses : got[<<MailboxOf(a), s>>] >= got[b]
      <3>1. PICK t \in Recipients : MailboxOf(t) = MailboxOf(a)
        BY <2>1, <2>3 DEF MailboxesOf
      <3>2. t \in Addresses /\ t = <<MailboxOf(a), t[2]>> /\ t[2] \in Spellings
        BY <2>1, <3>1 DEF Addresses, MailboxOf
      <3>3. got[<<MailboxOf(a), t[2]>>] = n
        BY <1>2, <3>1, <3>2
      <3>4. \A b \in Addresses : n >= got[b]
        BY <1>2
      <3> QED BY <3>2, <3>3, <3>4
    <2> QED BY <1>2, <2>2, <2>3
  <1> QED BY <1>3, <1>4

\* Whatever is rejected and lost, and however often the command is run again, a message
\* reaches all mailboxes it is meant for equally often, and no other.
THEOREM AllAreReached == SendSpec => []ReachesAllOrNobody
  BY SendInvAlways, AllOrNobody, PTL

LEMMA TwiceOnly == SendInv => TwiceOnlyIfAnswerLost
  <1> SUFFICES ASSUME SendInv PROVE TwiceOnlyIfAnswerLost
    OBVIOUS
  <1>1. PICK n \in Nat : /\ DeliveredTo(n)
                         /\ n <= wire.lost + (IF wire.pc = "sent" THEN 1 ELSE 0)
    BY DEF SendInv, Deliveries
  <1>2. wire.lost \in Nat
    BY DEF SendInv, Wire
  <1>3. \A a \in Addresses : got[a] <= wire.lost + (IF wire.pc = "sent" THEN 1 ELSE 0)
    BY <1>1, <1>2 DEF DeliveredTo
  <1> QED BY <1>3 DEF SendInv, LossesPerRun, TwiceOnlyIfAnswerLost

\* A message is delivered again only by a run after one whose answer was lost.
THEOREM SentOncePerLoss == SendSpec => []TwiceOnlyIfAnswerLost
  BY SendInvAlways, TwiceOnly, PTL

LEMMA CopiesShowAll == SendInv => CopiesShowOpenRecipients
  <1> SUFFICES ASSUME SendInv, NEW a \in Addresses, got[a] > 0
               PROVE  MailboxesOf(reads[a]) = Openly
    BY DEF CopiesShowOpenRecipients
  <1>1. Composes(Written(mail))
    <2>1. PICK n \in Nat : DeliveredTo(n) /\ (n > 0 => Composes(Written(mail)))
      BY DEF SendInv, Deliveries
    <2> QED BY <2>1 DEF DeliveredTo
  <1>2. reads[a] = Written(mail).to \union Written(mail).cc
    BY DEF SendInv, CopiesOfRaw, HeaderAddresses, Compose
  <1>3. CASE mail.verb = "reply"
    <2>1. reads[a] = Recipients
      BY <1>2, <1>3 DEF Recipients, Compose, Written, BuildReply
    <2> QED BY <1>1, <1>3, <2>1, RecipientsAreMeant DEF SendInv, Openly
  <1>4. CASE mail.verb # "reply"
    BY <1>2, <1>4 DEF Written, BuildForward, Openly
  <1> QED BY <1>3, <1>4

\* Every copy of a message names all the mailboxes it was written to openly, and no Bcc
\* recipient: by SMTP, where Compose keeps Bcc out of Raw, and by the Gmail API, which is
\* sent a Bcc header and strips it.
THEOREM CopiesShowOpen == SendSpec => []CopiesShowOpenRecipients
  BY SendInvAlways, CopiesShowAll, PTL

-----------------------------------------------------------------------------

(* The place of a reply *)

FoundIn(window, refs) == {i \in DOMAIN refs : refs[i] \in window}
LastOf(found) == CHOOSE i \in found : \A j \in found : j <= i

\* Of the references in the window, the last one there is.
LEMMA LastFound ==
    ASSUME NEW window \in SUBSET Ids, NEW refs \in Seq(Ids), FoundIn(window, refs) # {}
    PROVE  /\ LastOf(FoundIn(window, refs)) \in FoundIn(window, refs)
           /\ \A j \in FoundIn(window, refs) : j <= LastOf(FoundIn(window, refs))
  <1>1. /\ FoundIn(window, refs) \in SUBSET Nat
        /\ Len(refs) \in Nat
        /\ \A i \in FoundIn(window, refs) : i <= Len(refs)
    BY DEF FoundIn
  <1>2. \E i \in FoundIn(window, refs) : \A j \in FoundIn(window, refs) : j <= i
    BY <1>1, GreatestOf
  <1> QED BY <1>2 DEF LastOf

LEMMA ParentByReferences ==
    ASSUME NEW window, NEW irt, irt \notin window, NEW refs
    PROVE  ParentIn(window, [inReplyTo |-> irt, refs |-> refs]) =
           IF FoundIn(window, refs) = {} THEN NoId ELSE refs[LastOf(FoundIn(window, refs))]
  BY DEF ParentIn, FoundIn, LastOf

\* Appending an ID that is not in the window changes no place.
LEMMA AppendedIsPassedOver ==
    ASSUME NEW window \in SUBSET Ids, NEW mid \in Ids \ window, NEW refs \in Seq(Ids)
    PROVE  ParentIn(window, [inReplyTo |-> mid, refs |-> Append(refs, mid)]) =
           ParentIn(window, [inReplyTo |-> NoId, refs |-> refs])
  <1> DEFINE all == Append(refs, mid)
  <1>1. FoundIn(window, all) = FoundIn(window, refs)
    <2>1. /\ DOMAIN all = DOMAIN refs \union {Len(refs) + 1}
          /\ \A i \in DOMAIN refs : all[i] = refs[i]
          /\ all[Len(refs) + 1] = mid
      OBVIOUS
    <2> QED BY <2>1 DEF FoundIn
  <1>2. ASSUME FoundIn(window, refs) # {}
        PROVE  all[LastOf(FoundIn(window, refs))] = refs[LastOf(FoundIn(window, refs))]
    <2>1. LastOf(FoundIn(window, refs)) \in DOMAIN refs
      BY <1>2, LastFound DEF FoundIn
    <2> QED BY <2>1
  <1>3. NoId \notin window
    BY NoIdFresh
  <1> HIDE DEF all
  <1> QED BY <1>1, <1>2, <1>3, ParentByReferences DEF all

\* What a message is in reply to may as well be known from References that end with it.
LEMMA InReplyToIsLast ==
    ASSUME NEW window \in SUBSET Ids, NEW refs \in Seq(Ids), refs # <<>>
    PROVE  ParentIn(window, [inReplyTo |-> refs[Len(refs)], refs |-> refs]) =
           ParentIn(window, [inReplyTo |-> NoId, refs |-> refs])
  <1> DEFINE last == LastOf(FoundIn(window, refs))
             latest == refs[Len(refs)]
  <1>1. ParentIn(window, [inReplyTo |-> NoId, refs |-> refs]) =
            IF FoundIn(window, refs) = {} THEN NoId ELSE refs[last]
    BY NoIdFresh, ParentByReferences
  <1>2. CASE latest \in window
    <2>1. Len(refs) \in FoundIn(window, refs)
      BY <1>2 DEF FoundIn
    <2>2. last \in FoundIn(window, refs) /\ Len(refs) <= last
      BY <2>1, LastFound
    <2>3. last = Len(refs)
      BY <2>2 DEF FoundIn
    <2>4. ParentIn(window, [inReplyTo |-> latest, refs |-> refs]) = latest
      BY <1>2 DEF ParentIn
    <2> QED BY <1>1, <2>1, <2>3, <2>4
  <1>3. CASE latest \notin window
    BY <1>1, <1>3, ParentByReferences
  <1> QED BY <1>2, <1>3

LEMMA SinglePlace ==
    ASSUME NEW window \in SUBSET Ids, NEW mid \in Ids
    PROVE  ParentIn(window, [inReplyTo |-> NoId, refs |-> <<mid>>]) =
           ParentIn(window, [inReplyTo |-> mid, refs |-> <<>>])
  <1>1. <<mid>> \in Seq(Ids) /\ <<mid>> # <<>> /\ <<mid>>[Len(<<mid>>)] = mid
    OBVIOUS
  <1>2. ParentIn(window, [inReplyTo |-> mid, refs |-> <<mid>>]) =
        ParentIn(window, [inReplyTo |-> NoId, refs |-> <<mid>>])
    BY <1>1, InReplyToIsLast
  <1>3. FoundIn(window, <<>>) = {} /\ (mid \notin window => FoundIn(window, <<mid>>) = {})
    BY DEF FoundIn
  <1>4. CASE mid \in window
    BY <1>2, <1>4 DEF ParentIn
  <1>5. CASE mid \notin window
    BY <1>2, <1>3, <1>5, ParentByReferences
  <1> QED BY <1>4, <1>5

LEMMA PlaceIsKept == SendInv => RepliesKeepTheirPlace
  <1> DEFINE p == mail.place
             reply == ThreadingHeaders(p)
             source == [inReplyTo |-> p.inReplyTo, refs |-> p.refs]
             base == IF p.refs = <<>> /\ p.inReplyTo # NoId THEN <<p.inReplyTo>> ELSE p.refs
  <1> SUFFICES ASSUME SendInv, p.id # NoId,
                      p.refs = <<>> \/ p.inReplyTo \in {NoId, p.refs[Len(p.refs)]},
                      NEW window \in SUBSET Ids
               PROVE  IF p.id \in window THEN ParentIn(window, reply) = p.id
                      ELSE ParentIn(window, reply) = ParentIn(window, source)
    BY DEF RepliesKeepTheirPlace
  <1>1. p \in Place
    BY DEF SendInv, Command
  <1>2. p.id \in Ids /\ p.inReplyTo \in Ids \union {NoId} /\ p.refs \in Seq(Ids)
    BY <1>1, BoundsType DEF Place, SeqOf
  <1>3. base \in Seq(Ids)
    BY <1>2
  <1>4. reply = [inReplyTo |-> p.id, refs |-> Append(base, p.id)]
    BY DEF ThreadingHeaders
  <1> HIDE DEF p, reply, base
  <1>5. CASE p.id \in window
    BY <1>4, <1>5 DEF ParentIn
  <1>6. CASE p.id \notin window
    <2>1. ParentIn(window, reply) = ParentIn(window, [inReplyTo |-> NoId, refs |-> base])
      BY <1>2, <1>3, <1>4, <1>6, AppendedIsPassedOver
    <2>2. CASE p.inReplyTo = NoId
      BY <1>6, <2>1, <2>2 DEF base
    <2>3. CASE p.inReplyTo # NoId /\ p.refs = <<>>
      BY <1>2, <1>6, <2>1, <2>3, SinglePlace DEF base
    <2>4. CASE p.inReplyTo # NoId /\ p.refs # <<>>
      BY <1>2, <1>6, <2>1, <2>4, InReplyToIsLast DEF base
    <2> QED BY <1>6, <2>2, <2>3, <2>4
  <1> QED BY <1>5, <1>6

\* A reply hangs under the message it replies to, and where that one hangs in a window
\* that lacks it, for any window and References of any length.
THEOREM RepliesStayInPlace == SendSpec => []RepliesKeepTheirPlace
  BY SendInvAlways, PlaceIsKept, PTL

-----------------------------------------------------------------------------
(* Threads *)

RepliesTo == {f \in [Uids -> 0..MaxUid] : \A u \in Uids : f[u] < u}

\* Sets that are closed under what a message is a reply to.
Closed(C) == \A w \in C : above[w] = 0 \/ above[w] \in C

Root(u) == Min(Line[u])

\* What has been chosen to be fetched: the anchor, and what the server knows to be its
\* conversation or the window spans, as far as it has been there all along.
Chosen ==
    LET a == thread.anchor
    IN  thread.pc = "fetch" =>
            /\ thread.server # "gmail"
            /\ a \in remained => a \in thread.uids
            /\ thread.server = "thread" /\ a \in remained =>
                   Conversation(a) \intersect remained \subseteq thread.uids
            /\ thread.server = "plain" /\ thread.window >= newest => remained \subseteq thread.uids

FetchInv ==
    /\ above \in RepliesTo
    /\ newest \in Uids
    /\ ThreadTypeOK
    /\ thread.pc # "done" => thread.answer = {}
    /\ Chosen
    /\ AnswerIsTheThread
    /\ InvalidMeansGone

-----------------------------------------------------------------------------

\* Line satisfies the equation it is defined by: what lies above a message is what is
\* in every closed set with it.
LEMMA LineDefined ==
    ASSUME above \in RepliesTo
    PROVE  Line = [u \in 0..MaxUid |-> IF u = 0 THEN {} ELSE {u} \union Line[above[u]]]
  <1> DEFINE g == [u \in 0..MaxUid |->
                      IF u = 0 THEN {}
                      ELSE {v \in Uids : \A C \in SUBSET Uids : u \in C /\ Closed(C) => v \in C}]
             F(h) == [u \in 0..MaxUid |-> IF u = 0 THEN {} ELSE {u} \union h[above[u]]]
  <1>0. MaxUid \in Nat
    BY MaxUidType
  <1>1. \A u \in Uids : above[u] \in 0..MaxUid /\ u \in 0..MaxUid /\ u # 0
    BY <1>0 DEF RepliesTo, Uids
  <1>2. ASSUME NEW u \in Uids
        PROVE  g[u] = {u} \union g[above[u]]
    <2>1. g[u] = {v \in Uids : \A C \in SUBSET Uids : u \in C /\ Closed(C) => v \in C}
      BY <1>1
    <2>2. CASE above[u] = 0
      <3>1. g[above[u]] = {}
        BY <1>1, <2>2
      <3>2. {u} \in SUBSET Uids /\ Closed({u})
        BY <2>2 DEF Closed
      <3> HIDE DEF g
      <3> QED BY <2>1, <3>1, <3>2
    <2>3. CASE above[u] # 0
      <3> DEFINE a == above[u]
      <3>1. a \in Uids
        BY <1>1, <2>3, <1>0 DEF Uids
      <3>2. g[a] = {v \in Uids : \A C \in SUBSET Uids : a \in C /\ Closed(C) => v \in C}
        BY <1>1, <3>1
      <3> HIDE DEF g
      <3>3. {u} \union g[a] \subseteq g[u]
        BY <2>1, <3>2, <2>3 DEF Closed
      <3>4. {u} \union g[a] \in SUBSET Uids
        BY <3>2
      <3>5. Closed({u} \union g[a])
        <4>1. a \in g[a]
          BY <3>1, <3>2
        <4>2. ASSUME NEW w \in g[a], above[w] # 0 PROVE above[w] \in g[a]
          <5>1. above[w] \in Uids
            BY <1>0, <1>1, <3>2, <4>2 DEF Uids
          <5>2. ASSUME NEW C \in SUBSET Uids, a \in C, Closed(C) PROVE above[w] \in C
            <6>1. w \in C
              BY <3>2, <5>2
            <6> QED BY <4>2, <5>2, <6>1 DEF Closed
          <5> QED BY <3>2, <5>1, <5>2
        <4> QED BY <4>1, <4>2 DEF Closed
      <3>6. g[u] \subseteq {u} \union g[a]
        BY <2>1, <3>4, <3>5
      <3> QED BY <3>3, <3>6
    <2> QED BY <2>2, <2>3
  <1>3. g = F(g)
    <2>1. g[0] = {} /\ DOMAIN g = 0..MaxUid
      BY <1>0
    <2>2. g = [u \in 0..MaxUid |-> g[u]]
      OBVIOUS
    <2> HIDE DEF g
    <2>3. \A u \in 0..MaxUid : g[u] = IF u = 0 THEN {} ELSE {u} \union g[above[u]]
      BY <1>0, <1>2, <2>1 DEF Uids
    <2> QED BY <2>2, <2>3
  <1>4. Line = CHOOSE h : h = F(h)
    BY DEF Line
  <1>5. \E h : h = F(h)
    <2> HIDE DEF g, F
    <2> QED BY <1>3
  <1>6. Line = F(Line)
    <2> HIDE DEF F
    <2> QED BY <1>4, <1>5
  <1> QED BY <1>6

\* A message is in its own line, with none above it that is not older.
LEMMA LineIsOlder ==
    ASSUME above \in RepliesTo, NEW u \in Uids
    PROVE  u \in Line[u] /\ Line[u] \subseteq 1..u
  <1>0. MaxUid \in Nat
    BY MaxUidType
  <1>1. /\ Line[0] = {}
        /\ \A v \in Uids : Line[v] = {v} \union Line[above[v]] /\ above[v] \in 0..MaxUid /\ above[v] < v
    <2>1. /\ 0 \in 0..MaxUid
          /\ \A v \in Uids : v \in 0..MaxUid /\ v # 0 /\ above[v] \in 0..MaxUid /\ above[v] < v
      BY <1>0 DEF Uids, RepliesTo
    <2> QED BY <2>1, LineDefined
  <1> DEFINE T == {v \in Uids : ~(Line[v] \subseteq 1..v)}
  <1>2. T = {}
    <2> SUFFICES ASSUME T # {} PROVE FALSE
      OBVIOUS
    <2>1. T \in SUBSET Nat
      BY <1>0 DEF Uids
    <2>2. PICK v \in T : \A w \in T : v <= w
      <3> HIDE DEF T
      <3> QED BY <2>1, LeastOf
    <2>3. CASE above[v] = 0
      BY <1>0, <1>1, <2>2, <2>3 DEF Uids
    <2>4. CASE above[v] # 0
      <3>1. above[v] \in Uids /\ above[v] < v
        BY <1>0, <1>1, <2>2, <2>4 DEF Uids
      <3>2. Line[above[v]] \subseteq 1..above[v]
        <4>1. ~(v <= above[v])
          BY <1>0, <2>2, <3>1 DEF Uids
        <4> QED BY <2>2, <3>1, <4>1
      <3> QED BY <1>0, <1>1, <2>2, <3>1, <3>2 DEF Uids
    <2> QED BY <2>3, <2>4
  <1> QED BY <1>1, <1>2

\* Numbers have one least one, Min.
LEMMA MinOf ==
    ASSUME NEW S \in SUBSET Nat, S # {}
    PROVE  /\ Min(S) \in S
           /\ \A x \in S : Min(S) <= x
           /\ \A m \in S : (\A x \in S : m <= x) => m = Min(S)
  <1>1. \E m \in S : \A x \in S : m <= x
    BY LeastOf
  <1>2. Min(S) \in S /\ \A x \in S : Min(S) <= x
    BY <1>1 DEF Min
  <1>3. ASSUME NEW m \in S, \A x \in S : m <= x PROVE m = Min(S)
    <2>1. m <= Min(S) /\ Min(S) <= m /\ m \in Nat /\ Min(S) \in Nat
      BY <1>2, <1>3
    <2> QED BY <2>1
  <1> QED BY <1>2, <1>3

LEMMA RootOf ==
    ASSUME above \in RepliesTo, NEW u \in Uids
    PROVE  Root(u) \in Line[u] /\ Root(u) \in Uids /\ \A m \in Line[u] : Root(u) <= m
  <1>1. Line[u] \in SUBSET Nat /\ Line[u] # {} /\ Line[u] \subseteq Uids
    BY LineIsOlder, MaxUidType DEF Uids
  <1> QED BY <1>1, MinOf DEF Root

\* All that lie above a message begin where it does.
LEMMA OneRoot ==
    ASSUME above \in RepliesTo, NEW u \in Uids, NEW m \in Line[u]
    PROVE  m \in Uids /\ Root(m) = Root(u)
  <1>0. MaxUid \in Nat /\ \A v \in Uids : v \in Nat /\ v # 0 /\ 1..v \subseteq Uids
    BY MaxUidType DEF Uids
  <1>1. /\ Line[0] = {}
        /\ \A v \in Uids : Line[v] = {v} \union Line[above[v]] /\ above[v] \in 0..MaxUid /\ above[v] < v
    <2>1. /\ 0 \in 0..MaxUid
          /\ \A v \in Uids : v \in 0..MaxUid /\ v # 0 /\ above[v] \in 0..MaxUid /\ above[v] < v
      BY <1>0 DEF Uids, RepliesTo
    <2> QED BY <2>1, LineDefined
  <1> DEFINE T == {v \in Uids : \E w \in Line[v] : Root(w) # Root(v)}
  <1>2. T = {}
    <2> SUFFICES ASSUME T # {} PROVE FALSE
      OBVIOUS
    <2>1. T \in SUBSET Nat
      BY <1>0
    <2>2. PICK v \in T : \A w \in T : v <= w
      <3> HIDE DEF T
      <3> QED BY <2>1, LeastOf
    <2>3. PICK w \in Line[v] : Root(w) # Root(v)
      BY <2>2
    <2>4. v \in Uids
      BY <2>2
    <2>5. CASE above[v] = 0
      BY <1>1, <2>3, <2>4, <2>5
    <2>6. CASE above[v] # 0
      <3> DEFINE a == above[v]
      <3>1. a \in Uids /\ a < v
        BY <1>0, <1>1, <2>4, <2>6 DEF Uids
      <3>2. a \notin T
        BY <1>0, <2>2, <2>4, <3>1
      <3>3. w \in Line[a]
        BY <1>1, <2>3, <2>4
      <3>4. Root(w) = Root(a)
        BY <3>1, <3>2, <3>3
      <3>5. Root(a) = Root(v)
        <4>1. Root(a) \in Line[a] /\ \A x \in Line[a] : Root(a) <= x
          BY <3>1, RootOf
        <4>2. Line[a] \subseteq 1..a /\ a \in Line[a]
          BY <3>1, LineIsOlder
        <4>3. Line[v] = {v} \union Line[a]
          BY <1>1, <2>4
        <4>4. Line[v] \in SUBSET Nat
          BY <1>0, <2>4, <3>1, <4>2, <4>3
        <4>5. Root(a) \in Line[v] /\ \A x \in Line[v] : Root(a) <= x
          BY <1>0, <2>4, <3>1, <4>1, <4>2, <4>3
        <4> QED BY <4>4, <4>5, MinOf DEF Root
      <3> QED BY <2>3, <3>4, <3>5
    <2> QED BY <2>5, <2>6
  <1>3. m \in Uids
    BY <1>0, LineIsOlder
  <1> QED BY <1>2, <1>3

\* Of the messages of a conversation, BuildGraph makes a tree of those that hang under
\* one of them, and finds no others.
LEMMA ComponentOf ==
    ASSUME above \in RepliesTo, NEW nodes \in SUBSET Uids, NEW a \in Uids, NEW alias \in BOOLEAN
    PROVE  /\ Component(nodes, a, alias) \subseteq Conversation(a) \intersect nodes
           /\ a \in nodes /\ ~alias => a \in Component(nodes, a, alias)
           /\ {a, Root(a)} \subseteq nodes /\ ~alias =>
                  Conversation(a) \intersect nodes \subseteq Component(nodes, a, alias)
  <1> DEFINE Top(u) == Min(Line[u] \intersect nodes)
  <1>0. \A u \in Uids : /\ Line[u] \intersect nodes \in SUBSET Nat
                        /\ u \in nodes => Line[u] \intersect nodes # {}
    BY LineIsOlder DEF Uids
  <1>1. CASE alias \/ a \notin nodes
    BY <1>1 DEF Component
  <1>2. CASE ~alias /\ a \in nodes
    <2>1. Component(nodes, a, alias) = {u \in nodes : Top(u) = Top(a)}
      BY <1>2 DEF Component
    <2>2. ASSUME NEW u \in nodes, Top(u) = Top(a)
          PROVE  u \in Conversation(a)
      <3>1. Top(u) \in Line[u] /\ Top(a) \in Line[a]
        <4>1. ASSUME NEW v \in nodes PROVE Top(v) \in Line[v] \intersect nodes
          <5>1. Line[v] \intersect nodes \in SUBSET Nat /\ Line[v] \intersect nodes # {}
            BY <1>0
          <5> QED BY <5>1, MinOf
        <4> QED BY <1>2, <4>1
      <3>2. Root(Top(u)) = Root(u) /\ Root(Top(a)) = Root(a)
        BY <3>1, OneRoot
      <3> QED BY <2>2, <3>2 DEF Conversation, Root
    <2>3. ASSUME Root(a) \in nodes, NEW u \in nodes, u \in Conversation(a)
          PROVE  Top(u) = Top(a)
      <3>1. Root(u) = Root(a)
        BY <2>3 DEF Conversation, Root
      <3>2. ASSUME NEW v \in nodes, Root(v) = Root(a) PROVE Top(v) = Root(a)
        <4>1. Root(a) \in Line[v] \intersect nodes
              /\ \A x \in Line[v] \intersect nodes : Root(a) <= x
          BY <2>3, <3>2, RootOf
        <4> QED BY <1>0, <3>2, <4>1, MinOf
      <3> QED BY <1>2, <3>1, <3>2
    <2> QED BY <1>2, <2>1, <2>2, <2>3
  <1> QED BY <1>1, <1>2

\* The conversation of a message has the message and where it begins.
LEMMA ConversationOf ==
    ASSUME above \in RepliesTo, NEW a \in Uids
    PROVE  a \in Conversation(a) /\ Root(a) \in Conversation(a)
  <1>1. Root(a) \in Line[a] /\ Root(a) \in Uids
    BY RootOf
  <1>2. Root(Root(a)) = Root(a)
    BY <1>1, OneRoot
  <1> QED BY <1>1, <1>2 DEF Conversation, Root

LEMMA SameReplies ==
    ASSUME above' = above
    PROVE  Line' = Line
  <1> DEFINE L(f) == CHOOSE h : h = [u \in 0..MaxUid |->
                                       IF u = 0 THEN {} ELSE {u} \union h[f[u]]]
  <1>1. Line = L(above) /\ Line' = L(above')
    BY DEF Line
  <1> HIDE DEF L
  <1> QED BY <1>1

LEMMA SameConversation ==
    ASSUME above' = above, thread'.anchor = thread.anchor
    PROVE  /\ Conversation(thread.anchor)' = Conversation(thread.anchor)
           /\ Min(Line[thread.anchor])' = Min(Line[thread.anchor])
  BY SameReplies DEF Conversation

-----------------------------------------------------------------------------

LEMMA ThreadBegins == ThreadInit => FetchInv
  <1> SUFFICES ASSUME ThreadInit PROVE FetchInv
    OBVIOUS
  <1>0. MaxUid \in Nat
    BY MaxUidType
  <1>1. above \in RepliesTo
    BY DEF ThreadInit, RepliesTo
  <1>2. /\ thread \in Thread
        /\ thread.pc = "select" /\ thread.uids = {} /\ thread.answer = {}
    BY <1>0 DEF ThreadInit, Thread, ThreadPCs, Uids
  <1> QED BY <1>1, <1>2 DEF ThreadInit, FetchInv, ThreadTypeOK, Chosen, AnswerIsTheThread, InvalidMeansGone

LEMMA SelectKeeps == ASSUME FetchInv, SelectFolder PROVE FetchInv'
  <1>1. /\ UNCHANGED <<above, newest, box, remained>> /\ thread \in Thread
        /\ thread.pc = "select" /\ thread.answer = {}
    BY DEF FetchInv, ThreadTypeOK, SelectFolder
  <1>2. CASE thread.server = "gmail" /\ thread.anchor \notin box
    <2>1. thread' = [thread EXCEPT !.pc = "notfound"]
      BY <1>2 DEF SelectFolder, Proceed
    <2>2. thread' \in Thread /\ thread'.pc = "notfound"
          /\ UNCHANGED <<thread.anchor, thread.answer, thread.server, thread.uids>>
      BY <1>1, <2>1 DEF Thread, ThreadPCs
    <2> QED BY <1>1, <1>2, <2>2
            DEF FetchInv, ThreadTypeOK, Chosen, AnswerIsTheThread, InvalidMeansGone
  <1>3. CASE ~(thread.server = "gmail" /\ thread.anchor \notin box)
    <2>1. thread' = [thread EXCEPT !.pc = "uids"]
      BY <1>3 DEF SelectFolder, Proceed
    <2>2. thread' \in Thread /\ thread'.pc = "uids"
          /\ UNCHANGED <<thread.anchor, thread.answer, thread.server, thread.uids>>
      BY <1>1, <2>1 DEF Thread, ThreadPCs
    <2> QED BY <1>1, <2>2
            DEF FetchInv, ThreadTypeOK, Chosen, AnswerIsTheThread, InvalidMeansGone
  <1> QED BY <1>2, <1>3

\* The newest messages up to a window that spans the mailbox are all of them.
LEMMA WindowSpans ==
    ASSUME FetchInv, thread.window >= newest
    PROVE  box \subseteq WindowUids(thread.anchor)
  <1> SUFFICES ASSUME NEW u \in box
               PROVE  Cardinality({v \in box : v > u}) < thread.window
    BY DEF WindowUids
  <1>1. /\ box \subseteq 1..newest /\ newest \in Nat /\ thread.window \in Nat
        /\ u \in 1..newest
    BY MaxUidType DEF FetchInv, ThreadTypeOK, Thread, Uids
  <1> DEFINE younger == {v \in box : v > u}
  <1>2. IsFiniteSet((u + 1)..newest) /\ Cardinality((u + 1)..newest) = newest - u
    <2>1. u + 1 \in Int /\ newest \in Int
      BY <1>1
    <2>2. /\ IsFiniteSet((u + 1)..newest)
          /\ Cardinality((u + 1)..newest) =
                 IF u + 1 > newest THEN 0 ELSE newest - (u + 1) + 1
      BY <2>1, FS_Interval
    <2> QED BY <1>1, <2>2
  <1>3. younger \in SUBSET ((u + 1)..newest)
    <2>1. ASSUME NEW v \in box, v > u PROVE v \in (u + 1)..newest
      BY <1>1, <2>1
    <2> QED BY <2>1
  <1>4. Cardinality(younger) <= newest - u /\ Cardinality(younger) \in Nat
    <2> HIDE DEF younger
    <2> QED BY <1>2, <1>3, FS_Subset, FS_CardinalityType
  <1> QED BY <1>1, <1>4

LEMMA ThreadUidsKeeps == ASSUME FetchInv, ThreadUids PROVE FetchInv'
  <1> DEFINE a == thread.anchor
             uids == IF thread.server = "thread" THEN ServerUids(a) ELSE WindowUids(a)
  <1>1. /\ UNCHANGED <<above, newest, box, remained>> /\ thread \in Thread
        /\ thread.pc = "uids" /\ thread.server \in {"thread", "plain"} /\ thread.answer = {}
        /\ a \in Uids /\ remained \subseteq box /\ box \subseteq Uids
        /\ above \in RepliesTo
    BY MaxUidType DEF FetchInv, ThreadTypeOK, ThreadUids, Thread, Uids
  <1>2. thread' = [thread EXCEPT !.uids = uids, !.pc = IF uids = {} THEN "invalidated" ELSE "fetch"]
    BY DEF ThreadUids
  <1>3. uids \in SUBSET Uids
    BY <1>1 DEF ServerUids, WindowUids
  <1>4. /\ a \in remained => a \in uids
        /\ thread.server = "thread" /\ a \in remained => Conversation(a) \intersect remained \subseteq uids
        /\ thread.server = "plain" /\ thread.window >= newest => remained \subseteq uids
    BY <1>1, ConversationOf, WindowSpans DEF ServerUids, WindowUids
  <1> HIDE DEF uids
  <1>5. /\ thread' \in Thread
        /\ thread'.pc = (IF uids = {} THEN "invalidated" ELSE "fetch") /\ thread'.uids = uids
        /\ UNCHANGED <<thread.anchor, thread.answer, thread.server, thread.window, thread.alias>>
    BY <1>1, <1>2, <1>3 DEF Thread, ThreadPCs
  <1>6. Conversation(thread.anchor)' = Conversation(thread.anchor)
    BY <1>1, <1>5, SameConversation
  <1>7. Chosen'
    BY <1>1, <1>4, <1>5, <1>6 DEF Chosen
  <1> QED BY <1>1, <1>4, <1>5, <1>7
          DEF FetchInv, ThreadTypeOK, AnswerIsTheThread, InvalidMeansGone

\* A command that answers from some messages answers rightly if they have the anchor,
\* and all of its conversation if they should.
LEMMA AnsweringKeeps ==
    ASSUME FetchInv, NEW nodes \in SUBSET Uids, Answer(nodes), thread.pc # "done",
           UNCHANGED <<above, newest, box, remained>>,
           thread.server = "gmail" \/ nodes \subseteq thread.uids,
           thread.anchor \in remained => thread.anchor \in nodes,
           /\ thread.anchor \in remained
           /\ thread.server # "plain" \/ thread.window >= newest
           => Conversation(thread.anchor) \intersect remained \subseteq nodes
    PROVE  FetchInv'
  <1> DEFINE a == thread.anchor
             C == Component(nodes, a, thread.alias)
  <1>1. /\ thread \in Thread /\ a \in Uids /\ thread.alias \in BOOLEAN /\ above \in RepliesTo
        /\ remained \subseteq Uids
    BY MaxUidType DEF FetchInv, ThreadTypeOK, Thread, Uids
  <1>2. /\ C \subseteq Conversation(a) \intersect nodes
        /\ a \in nodes /\ ~thread.alias => a \in C
        /\ {a, Root(a)} \subseteq nodes /\ ~thread.alias =>
               Conversation(a) \intersect nodes \subseteq C
    BY <1>1, ComponentOf
  <1>3. thread' = [thread EXCEPT !.pc = "done", !.answer = C]
    BY DEF Answer
  <1>4. C \in SUBSET Uids
    BY <1>2
  <1> HIDE DEF C
  <1>5. /\ thread' \in Thread /\ thread'.pc = "done" /\ thread'.answer = C
        /\ UNCHANGED <<thread.anchor, thread.alias, thread.server, thread.window, thread.uids>>
    BY <1>1, <1>3, <1>4 DEF Thread, ThreadPCs
  <1>6. /\ Conversation(thread.anchor)' = Conversation(a)
        /\ Min(Line[thread.anchor])' = Root(a)
    BY <1>5, SameConversation DEF Root
  <1>7. Root(a) \in Conversation(a)
    BY <1>1, ConversationOf
  <1>8. AnswerIsTheThread'
    <2>1. C \subseteq Conversation(a)
      BY <1>2
    <2>2. a \in remained /\ ~thread.alias => a \in C
      BY <1>2
    <2>3. ASSUME {a, Root(a)} \subseteq remained, ~thread.alias,
                 thread.server # "plain" \/ thread.window >= newest
          PROVE  Conversation(a) \intersect remained \subseteq C
      <3>1. Conversation(a) \intersect remained \subseteq nodes
        BY <2>3
      <3>2. {a, Root(a)} \subseteq nodes
        BY <1>7, <2>3, <3>1
      <3> QED BY <1>2, <2>3, <3>1, <3>2
    <2> QED BY <1>5, <1>6, <2>1, <2>2, <2>3 DEF AnswerIsTheThread
  <1>9. ThreadTypeOK'
    BY <1>2, <1>5 DEF FetchInv, ThreadTypeOK
  <1> QED BY <1>5, <1>8, <1>9 DEF FetchInv, Chosen, InvalidMeansGone

LEMMA FetchKeeps == ASSUME FetchInv, FetchNodes PROVE FetchInv'
  <1> DEFINE nodes == thread.uids \intersect box
  <1>1. /\ thread \in Thread /\ remained \subseteq box
        /\ thread.pc = "fetch" /\ Answer(nodes) /\ UNCHANGED <<above, newest, box, remained>>
    BY DEF FetchInv, ThreadTypeOK, FetchNodes
  <1>2. nodes \in SUBSET Uids /\ nodes \subseteq thread.uids /\ thread.server \in {"gmail", "thread", "plain"}
    BY <1>1 DEF Thread
  <1>3. thread.anchor \in remained => thread.anchor \in nodes
    BY <1>1 DEF FetchInv, Chosen
  <1>4. /\ thread.anchor \in remained
        /\ thread.server # "plain" \/ thread.window >= newest
        => Conversation(thread.anchor) \intersect remained \subseteq nodes
    BY <1>1, <1>2 DEF FetchInv, Chosen
  <1> QED BY <1>1, <1>2, <1>3, <1>4, AnsweringKeeps

LEMMA GetKeeps == ASSUME FetchInv, ThreadGet PROVE FetchInv'
  <1> DEFINE nodes == Conversation(thread.anchor) \intersect box
  <1>1. /\ thread \in Thread /\ remained \subseteq box /\ above \in RepliesTo
        /\ thread.anchor \in Uids
        /\ thread.pc = "uids" /\ thread.server = "gmail" /\ thread.answer = {}
        /\ UNCHANGED <<above, newest, box, remained>>
    BY DEF FetchInv, ThreadTypeOK, ThreadGet, Thread
  <1>2. thread.anchor \in remained => thread.anchor \in nodes
    BY <1>1, ConversationOf
  <1>3. CASE nodes = {}
    <2>1. thread' = [thread EXCEPT !.pc = "notfound"]
      BY <1>3 DEF ThreadGet, Proceed
    <2>2. thread' \in Thread /\ thread'.pc = "notfound"
          /\ UNCHANGED <<thread.anchor, thread.answer, thread.server, thread.uids>>
      BY <1>1, <2>1 DEF Thread, ThreadPCs
    <2> HIDE DEF nodes
    <2> QED BY <1>1, <1>2, <1>3, <2>2
            DEF FetchInv, ThreadTypeOK, Chosen, AnswerIsTheThread, InvalidMeansGone
  <1>4. CASE nodes # {}
    <2>1. Answer(nodes)
      BY <1>4 DEF ThreadGet
    <2>2. nodes \in SUBSET Uids /\ Conversation(thread.anchor) \intersect remained \subseteq nodes
      BY <1>1 DEF Conversation
    <2> QED BY <1>1, <1>2, <2>1, <2>2, AnsweringKeeps
  <1> QED BY <1>3, <1>4

\* Of what has been there from the beginning there is only ever less, and of what was
\* delivered more.
LEMMA MailboxKeeps ==
    ASSUME FetchInv, UNCHANGED <<above, thread>>,
           newest' \in Uids, newest <= newest', box' \subseteq 1..newest',
           remained' \subseteq remained, remained' \subseteq box'
    PROVE  FetchInv'
  <1>1. thread' = thread /\ thread \in Thread
    BY DEF FetchInv, ThreadTypeOK
  <1>2. /\ Conversation(thread.anchor)' = Conversation(thread.anchor)
        /\ Min(Line[thread.anchor])' = Min(Line[thread.anchor])
    BY SameConversation
  <1>3. thread.window \in Nat /\ newest \in Nat /\ newest' \in Nat
    BY <1>1, MaxUidType DEF FetchInv, Thread, Uids
  <1>4. thread.window >= newest' => thread.window >= newest
    BY <1>3
  <1>5. Chosen'
    BY <1>1, <1>2, <1>4 DEF FetchInv, Chosen
  <1>6. AnswerIsTheThread'
    BY <1>1, <1>2, <1>4 DEF FetchInv, AnswerIsTheThread
  <1>7. ThreadTypeOK' /\ InvalidMeansGone'
    BY <1>1 DEF FetchInv, ThreadTypeOK, InvalidMeansGone
  <1> QED BY <1>1, <1>5, <1>6, <1>7 DEF FetchInv

LEMMA ThreadStep == ASSUME FetchInv, [ThreadNext]_threadVars PROVE FetchInv'
  <1>1. newest \in Uids /\ box \subseteq 1..newest /\ remained \subseteq box
        /\ MaxUid \in Nat /\ newest \in Nat
    BY MaxUidType DEF FetchInv, ThreadTypeOK, Uids
  <1>2. CASE Expunge
    BY <1>1, <1>2, MailboxKeeps DEF Expunge
  <1>3. CASE Deliver
    <2>1. newest' = newest + 1 /\ newest' \in Uids /\ box' = box \union {newest'}
          /\ remained' = remained /\ UNCHANGED <<above, thread>>
      BY <1>1, <1>3 DEF Deliver, Uids
    <2>2. box' \subseteq 1..newest' /\ newest <= newest'
      BY <1>1, <2>1
    <2> QED BY <1>1, <2>1, <2>2, MailboxKeeps
  <1>4. CASE UNCHANGED threadVars
    BY <1>1, <1>4, MailboxKeeps DEF threadVars
  <1> QED BY <1>2, <1>3, <1>4, SelectKeeps, ThreadUidsKeeps, FetchKeeps, GetKeeps DEF ThreadNext

LEMMA FetchInvAlways == ThreadSpec => []FetchInv
  BY ThreadBegins, ThreadStep, PTL DEF ThreadSpec

\* The variables of a thread command stay in their ranges, and an answer is of UIDs that
\* were chosen.
THEOREM ThreadTypeCorrect == ThreadSpec => []ThreadTypeOK
  <1>1. FetchInv => ThreadTypeOK
    BY DEF FetchInv
  <1> QED BY <1>1, FetchInvAlways, PTL

\* Whatever is delivered and expunged meanwhile, the thread answered is the anchor's
\* conversation.
THEOREM ThreadsAreTheAnchors == ThreadSpec => []AnswerIsTheThread
  <1>1. FetchInv => AnswerIsTheThread
    BY DEF FetchInv
  <1> QED BY <1>1, FetchInvAlways, PTL

\* An ID is only called invalid when its message is gone.
THEOREM InvalidIsGone == ThreadSpec => []InvalidMeansGone
  <1>1. FetchInv => InvalidMeansGone
    BY DEF FetchInv
  <1> QED BY <1>1, FetchInvAlways, PTL

-----------------------------------------------------------------------------
(* Threads, as BuildGraph makes them *)

\* Message u hangs under v: the nearest of those above it that were fetched.
Hangs(nodes, u, v) ==
    /\ v \in (Line[u] \intersect nodes) \ {u}
    /\ \A w \in (Line[u] \intersect nodes) \ {u} : w <= v

\* With a message of s its parent and its replies are in s (Whole, in ThreadGraph).
WholeAmong(nodes, s) ==
    \A u, v \in nodes : Hangs(nodes, u, v) => (u \in s <=> v \in s)

\* What lies above a message of a line is the rest of that line.
LEMMA LineAbove ==
    ASSUME above \in RepliesTo, NEW u \in Uids, NEW v \in Line[u]
    PROVE  Line[v] = {w \in Line[u] : w <= v}
  <1>0. MaxUid \in Nat /\ \A x \in Uids : x \in Nat /\ x # 0 /\ 1..x \subseteq Uids
    BY MaxUidType DEF Uids
  <1>1. /\ Line[0] = {}
        /\ \A x \in Uids : Line[x] = {x} \union Line[above[x]] /\ above[x] \in 0..MaxUid /\ above[x] < x
    <2>1. /\ 0 \in 0..MaxUid
          /\ \A x \in Uids : x \in 0..MaxUid /\ x # 0 /\ above[x] \in 0..MaxUid /\ above[x] < x
      BY <1>0 DEF Uids, RepliesTo
    <2> QED BY <2>1, LineDefined
  <1> DEFINE T == {x \in Uids : \E y \in Line[x] : Line[y] # {w \in Line[x] : w <= y}}
  <1> SUFFICES ASSUME T # {} PROVE FALSE
    OBVIOUS
  <1>2. PICK x \in T : \A y \in T : x <= y
    <2>1. T \in SUBSET Nat
      BY <1>0
    <2> HIDE DEF T
    <2> QED BY <2>1, LeastOf
  <1>3. PICK y \in Line[x] : Line[y] # {w \in Line[x] : w <= y}
    BY <1>2
  <1>4. x \in Uids /\ Line[x] \subseteq 1..x /\ Line[x] \subseteq Nat
    BY <1>0, <1>2, LineIsOlder
  <1>5. y # x
    BY <1>3, <1>4
  <1> DEFINE a == above[x]
  <1>6. y \in Line[a] /\ a \in Uids /\ a < x
    BY <1>0, <1>1, <1>3, <1>4, <1>5 DEF Uids
  <1>7. Line[y] = {w \in Line[a] : w <= y}
    BY <1>0, <1>2, <1>4, <1>6
  <1>8. y <= a /\ y \in Nat
    BY <1>4, <1>6, LineIsOlder
  <1> QED BY <1>0, <1>1, <1>3, <1>4, <1>6, <1>7, <1>8

\* The message that a fetched one hangs under, of all those that hang together.
TopAmong(nodes, u) == Min(Line[u] \intersect nodes)

LEMMA TopOf ==
    ASSUME above \in RepliesTo, NEW nodes \in SUBSET Uids, NEW u \in nodes
    PROVE  /\ Line[u] \intersect nodes \in SUBSET Nat /\ u \in Line[u] \intersect nodes
           /\ TopAmong(nodes, u) \in Line[u] \intersect nodes
           /\ \A w \in Line[u] \intersect nodes : TopAmong(nodes, u) <= w
           /\ \A m \in Line[u] \intersect nodes :
                  (\A w \in Line[u] \intersect nodes : m <= w) => m = TopAmong(nodes, u)
  <1>1. Line[u] \intersect nodes \in SUBSET Nat /\ u \in Line[u] \intersect nodes
    BY LineIsOlder DEF Uids
  <1> QED BY <1>1, MinOf DEF TopAmong

LEMMA ParentHasTheTop ==
    ASSUME above \in RepliesTo, NEW nodes \in SUBSET Uids, NEW u \in nodes, NEW v \in nodes,
           Hangs(nodes, u, v)
    PROVE  TopAmong(nodes, v) = TopAmong(nodes, u)
  <1>1. v \in Line[u] /\ v # u /\ Line[v] = {w \in Line[u] : w <= v}
    BY LineAbove DEF Hangs
  <1>2. u \in Nat /\ v \in Nat /\ v < u
    BY <1>1, LineIsOlder DEF Uids
  <1>3. Line[v] \intersect nodes = (Line[u] \intersect nodes) \ {u}
    BY <1>1, <1>2 DEF Hangs
  <1>4. /\ TopAmong(nodes, v) \in Line[v] \intersect nodes /\ v \in Line[v] \intersect nodes
        /\ \A w \in Line[v] \intersect nodes : TopAmong(nodes, v) <= w
        /\ Line[v] \intersect nodes \in SUBSET Nat
    BY TopOf
  <1>5. TopAmong(nodes, v) \in Nat /\ TopAmong(nodes, v) <= v
    BY <1>4
  <1>6. \A w \in Line[u] \intersect nodes : TopAmong(nodes, v) <= w
    BY <1>2, <1>3, <1>4, <1>5
  <1>7. TopAmong(nodes, v) \in Line[u] \intersect nodes
    BY <1>3, <1>4
  <1>8. \A m \in Line[u] \intersect nodes :
            (\A w \in Line[u] \intersect nodes : m <= w) => m = TopAmong(nodes, u)
    BY TopOf
  <1> QED BY <1>6, <1>7, <1>8

\* From a message up, a whole set comes to the top.
LEMMA WholeHasTheTop ==
    ASSUME above \in RepliesTo, NEW nodes \in SUBSET Uids, NEW s \in SUBSET nodes,
           WholeAmong(nodes, s), NEW u \in s
    PROVE  TopAmong(nodes, u) \in s
  <1> DEFINE T == Line[u] \intersect s
  <1>1. Line[u] \in SUBSET Nat /\ u \in T
    <2>1. u \in Uids
      OBVIOUS
    <2>2. u \in Line[u] /\ Line[u] \subseteq 1..u /\ u \in Nat
      BY <2>1, LineIsOlder DEF Uids
    <2> QED BY <2>2
  <1>2. PICK x \in T : \A y \in T : x <= y
    <2> HIDE DEF T
    <2>1. T \in SUBSET Nat /\ T # {}
      BY <1>1 DEF T
    <2> QED BY <2>1, LeastOf
  <1>3. x \in Uids /\ x \in nodes /\ x \in Nat /\ Line[x] \subseteq 1..x /\ Line[x] = {w \in Line[u] : w <= x}
    BY <1>1, LineIsOlder, LineAbove
  <1> DEFINE R == (Line[x] \intersect nodes) \ {x}
  <1>4. R = {}
    <2> SUFFICES ASSUME R # {} PROVE FALSE
      OBVIOUS
    <2>1. PICK v \in R : \A w \in R : w <= v
      <3>1. R \in SUBSET Nat /\ \A w \in R : w <= x
        BY <1>3
      <3> HIDE DEF R
      <3> QED BY <1>3, <3>1, GreatestOf
    <2>2. Hangs(nodes, x, v)
      BY <2>1 DEF Hangs
    <2>3. v \in s /\ v \in Line[u]
      BY <1>3, <2>1, <2>2 DEF WholeAmong
    <2>4. v < x /\ v \in Nat
      BY <1>3, <2>1
    <2> QED BY <1>2, <1>3, <2>3, <2>4
  <1>5. x \in Line[u] \intersect nodes /\ \A w \in Line[u] \intersect nodes : x <= w
    BY <1>1, <1>3, <1>4
  <1>6. x = TopAmong(nodes, u)
    BY <1>5, TopOf
  <1> QED BY <1>6

\* The component ThreadFetch answers with is what ThreadIsWhole says of BuildGraph's
\* thread: the smallest set with the anchor that has the parent and the replies of each
\* of its members, for a mailbox of any size and whatever of it was fetched.
THEOREM ComponentIsTheThread ==
    ASSUME above \in RepliesTo, NEW nodes \in SUBSET Uids, NEW a \in nodes
    PROVE  LET c == Component(nodes, a, FALSE)
           IN  /\ a \in c /\ c \subseteq nodes /\ WholeAmong(nodes, c)
               /\ \A s \in SUBSET nodes : a \in s /\ WholeAmong(nodes, s) => c \subseteq s
  <1> DEFINE c == Component(nodes, a, FALSE)
  <1>1. c = {u \in nodes : TopAmong(nodes, u) = TopAmong(nodes, a)}
    BY DEF Component, TopAmong
  <1>2. WholeAmong(nodes, c)
    BY <1>1, ParentHasTheTop DEF WholeAmong
  <1>3. ASSUME NEW s \in SUBSET nodes, a \in s, WholeAmong(nodes, s), NEW u \in c
        PROVE  u \in s
    <2>1. TopAmong(nodes, u) = TopAmong(nodes, a) /\ u \in nodes
      BY <1>1
    <2>2. TopAmong(nodes, a) \in s
      BY <1>3, WholeHasTheTop
    <2>3. WholeAmong(nodes, nodes \ s)
      BY <1>3 DEF WholeAmong
    <2>4. u \in nodes \ s => TopAmong(nodes, u) \in nodes \ s
      BY <2>3, WholeHasTheTop
    <2> QED BY <2>1, <2>2, <2>4
  <1> QED BY <1>1, <1>2, <1>3

-----------------------------------------------------------------------------
(* Identifiers: sequences of sequences, escapes, and texts *)

\* Sequences up to the i-th of ss, one after the other.
IsFlattening(f, ss) ==
    /\ DOMAIN f = 1..Len(ss)
    /\ \A i \in 1..Len(ss) : f[i] = IF i = 1 THEN ss[1] ELSE f[i - 1] \o ss[i]

\* There is one, however many sequences: recursion over their number.
LEMMA FlatteningExists ==
    ASSUME NEW ss
    PROVE  Len(ss) \in Nat => \E f : IsFlattening(f, ss)
  <1> DEFINE Upto(f, n) == /\ DOMAIN f = 1..n
                           /\ \A i \in 1..n : f[i] = IF i = 1 THEN ss[1] ELSE f[i - 1] \o ss[i]
             T == {n \in Nat : ~\E f : Upto(f, n)}
  <1> SUFFICES ASSUME T # {} PROVE FALSE
    BY DEF IsFlattening
  <1>1. PICK n \in T : \A m \in T : n <= m
    <2> HIDE DEF T
    <2> QED BY LeastOf DEF T
  <1>2. n # 0
    <2>1. Upto(<<>>, 0)
      OBVIOUS
    <2> QED BY <2>1, <1>1
  <1>3. PICK f : Upto(f, n - 1)
    BY <1>1, <1>2
  <1> DEFINE g == [i \in 1..n |-> IF i = n THEN IF i = 1 THEN ss[1] ELSE f[n - 1] \o ss[n] ELSE f[i]]
  <1>4. Upto(g, n)
    <2>1. ASSUME NEW i \in 1..n
          PROVE  g[i] = IF i = 1 THEN ss[1] ELSE g[i - 1] \o ss[i]
      <3>1. CASE i = n
        <4>1. i # 1 => g[i - 1] = f[n - 1]
          BY <1>1, <3>1
        <4> QED BY <1>1, <3>1, <4>1
      <3>2. CASE i < n
        <4>1. g[i] = f[i] /\ (i # 1 => g[i - 1] = f[i - 1])
          BY <1>1, <3>2
        <4>2. f[i] = IF i = 1 THEN ss[1] ELSE f[i - 1] \o ss[i]
          <5>1. i \in 1..(n - 1)
            BY <1>1, <3>2
          <5> QED BY <1>3, <5>1
        <4> QED BY <4>1, <4>2
      <3> QED BY <1>1, <3>1, <3>2
    <2> QED BY <2>1
  <1> QED BY <1>1, <1>4

\* FlattenSeq, which is defined by recursion, is one of them.
LEMMA FlattenDefined ==
    ASSUME NEW ss, Len(ss) \in Nat \ {0}
    PROVE  \E f : IsFlattening(f, ss) /\ FlattenSeq(ss) = f[Len(ss)]
  <1> DEFINE F(f) == [i \in 1..Len(ss) |-> IF i = 1 THEN ss[i] ELSE f[i - 1] \o ss[i]]
             flat == CHOOSE f : f = F(f)
  <1>1. PICK f : IsFlattening(f, ss)
    BY FlatteningExists
  <1>2. \E h : h = F(h)
    <2> DEFINE h == [i \in 1..Len(ss) |-> f[i]]
    <2>1. ASSUME NEW i \in 1..Len(ss)
          PROVE  h[i] = IF i = 1 THEN ss[i] ELSE h[i - 1] \o ss[i]
      <3>1. i # 1 => i - 1 \in 1..Len(ss)
        OBVIOUS
      <3> QED BY <1>1, <3>1 DEF IsFlattening
    <2>2. h = F(h)
      BY <2>1
    <2> QED BY <2>2
  <1>3. flat = F(flat)
    BY <1>2
  <1>4. FlattenSeq(ss) = flat[Len(ss)]
    BY DEF FlattenSeq
  <1> HIDE DEF flat
  <1>5. IsFlattening(flat, ss)
    BY <1>3 DEF IsFlattening
  <1> QED BY <1>4, <1>5

\* How far two lists are the same, their flattenings are.
LEMMA FlatteningUnique ==
    ASSUME NEW ss, NEW tt, Len(ss) \in Nat, Len(tt) \in Nat, Len(ss) <= Len(tt),
           \A i \in 1..Len(ss) : ss[i] = tt[i],
           NEW f, NEW g, IsFlattening(f, ss), IsFlattening(g, tt)
    PROVE  \A i \in 1..Len(ss) : f[i] = g[i]
  <1> DEFINE T == {i \in 1..Len(ss) : f[i] # g[i]}
  <1> SUFFICES ASSUME T # {} PROVE FALSE
    OBVIOUS
  <1>1. PICK i \in T : \A j \in T : i <= j
    <2>1. T \in SUBSET Nat
      OBVIOUS
    <2> HIDE DEF T
    <2> QED BY <2>1, LeastOf
  <1>2. /\ f[i] = IF i = 1 THEN ss[1] ELSE f[i - 1] \o ss[i]
        /\ g[i] = IF i = 1 THEN tt[1] ELSE g[i - 1] \o tt[i]
    <2>1. i \in 1..Len(ss) /\ i \in 1..Len(tt)
      BY <1>1
    <2> QED BY <2>1 DEF IsFlattening
  <1>3. i # 1 => f[i - 1] = g[i - 1]
    BY <1>1
  <1> QED BY <1>1, <1>2, <1>3

LEMMA FlattenIsSeq ==
    ASSUME NEW S, NEW ss \in Seq(Seq(S))
    PROVE  FlattenSeq(ss) \in Seq(S)
  <1>1. CASE Len(ss) = 0
    BY <1>1 DEF FlattenSeq
  <1>2. CASE Len(ss) # 0
    <2>1. PICK f : IsFlattening(f, ss) /\ FlattenSeq(ss) = f[Len(ss)]
      BY <1>2, FlattenDefined
    <2> DEFINE T == {i \in 1..Len(ss) : f[i] \notin Seq(S)}
    <2> SUFFICES ASSUME T # {} PROVE FALSE
      BY <1>2, <2>1
    <2>2. PICK i \in T : \A j \in T : i <= j
      <3>1. T \in SUBSET Nat
        OBVIOUS
      <3> HIDE DEF T
      <3> QED BY <3>1, LeastOf
    <2>3. f[i] = IF i = 1 THEN ss[1] ELSE f[i - 1] \o ss[i]
      BY <2>1, <2>2 DEF IsFlattening
    <2>4. ss[i] \in Seq(S)
      BY <2>2
    <2>5. ss[1] \in Seq(S) /\ (i # 1 => f[i - 1] \in Seq(S))
      BY <1>2, <2>2
    <2>6. i # 1 => f[i - 1] \o ss[i] \in Seq(S)
      BY <2>4, <2>5, ConcatProperties
    <2>7. f[i] \in Seq(S)
      BY <2>3, <2>5, <2>6
    <2> QED BY <2>2, <2>7
  <1> QED BY <1>1, <1>2

\* FlattenSeq of one sequence more is FlattenSeq, and that one after it.
LEMMA FlattenAppend ==
    ASSUME NEW S, NEW ss \in Seq(Seq(S)), NEW t \in Seq(S)
    PROVE  FlattenSeq(Append(ss, t)) = FlattenSeq(ss) \o t
  <1> DEFINE tt == Append(ss, t)
             n == Len(ss)
  <1>1. /\ tt \in Seq(Seq(S)) /\ Len(tt) = n + 1 /\ n \in Nat /\ tt[n + 1] = t
        /\ \A i \in 1..n : ss[i] = tt[i]
    OBVIOUS
  <1> HIDE DEF tt
  <1>2. PICK g : IsFlattening(g, tt) /\ FlattenSeq(tt) = g[n + 1]
    <2>1. Len(tt) \in Nat \ {0}
      BY <1>1
    <2>2. \E g : IsFlattening(g, tt) /\ FlattenSeq(tt) = g[Len(tt)]
      BY <2>1, FlattenDefined
    <2> QED BY <1>1, <2>2
  <1>3. g[n + 1] = IF n = 0 THEN t ELSE g[n] \o t
    <2>1. n + 1 \in 1..Len(tt) /\ (n + 1) - 1 = n /\ (n + 1 = 1 <=> n = 0)
      BY <1>1
    <2> HIDE DEF n
    <2>2. g[n + 1] = IF n + 1 = 1 THEN tt[1] ELSE g[(n + 1) - 1] \o tt[n + 1]
      BY <1>2, <2>1 DEF IsFlattening
    <2> QED BY <1>1, <2>1, <2>2
  <1>4. CASE n = 0
    <2>1. ss = <<>> /\ FlattenSeq(ss) = <<>>
      BY <1>4 DEF FlattenSeq
    <2> QED BY <1>2, <1>3, <1>4, <2>1 DEF tt
  <1>5. CASE n # 0
    <2>1. PICK f : IsFlattening(f, ss) /\ FlattenSeq(ss) = f[n]
      BY <1>1, <1>5, FlattenDefined
    <2>2. f[n] = g[n]
      <3>1. \A i \in 1..n : f[i] = g[i]
        <4>1. Len(ss) \in Nat /\ Len(tt) \in Nat /\ Len(ss) <= Len(tt)
          BY <1>1
        <4>2. \A i \in 1..Len(ss) : ss[i] = tt[i]
          BY <1>1
        <4>3. \A i \in 1..Len(ss) : f[i] = g[i]
          BY <1>2, <2>1, <4>1, <4>2, FlatteningUnique
        <4> QED BY <4>3
      <3> QED BY <1>1, <1>5, <3>1
    <2> QED BY <1>2, <1>3, <1>5, <2>1, <2>2 DEF tt
  <1> QED BY <1>4, <1>5

-----------------------------------------------------------------------------
(* Escapes *)

\* What Escape writes for a symbol.
EscapeOf(c) ==
    IF c = ":" THEN <<"%", "3A">> ELSE IF c = "%" THEN <<"%", "25">> ELSE <<c>>

\* Texts of up to two symbols.
LEMMA ShortTexts ==
    ASSUME NEW S, NEW a \in S, NEW b \in S
    PROVE  <<>> \in Seq(S) /\ <<a>> \in Seq(S) /\ <<a, b>> \in Seq(S)
  OBVIOUS

\* Escape goes symbol by symbol.
LEMMA EscapeAppend ==
    ASSUME NEW s \in Seq(Letters), NEW x \in Letters
    PROVE  /\ Escape(s) \in Seq(Letters)
           /\ Escape(Append(s, x)) = Escape(s) \o EscapeOf(x)
  <1> DEFINE E(r) == [i \in DOMAIN r |-> EscapeOf(r[i])]
  <1>1. \A c \in Letters : EscapeOf(c) \in Seq(Letters)
    <2> TAKE c \in Letters
    <2>1. {"%", "3A", "25"} \subseteq Letters
      BY DEF Letters
    <2>2. /\ <<"%", "3A">> \in Seq(Letters) /\ <<"%", "25">> \in Seq(Letters)
          /\ <<c>> \in Seq(Letters)
      BY <2>1, ShortTexts
    <2> QED BY <2>2 DEF EscapeOf
  <1>2. \A r : Escape(r) = FlattenSeq(E(r))
    BY DEF Escape, Replaced, EscapeOf
  <1>3. E(s) \in Seq(Seq(Letters))
    <2>1. \A i \in 1..Len(s) : E(s)[i] \in Seq(Letters)
      BY <1>1
    <2>2. DOMAIN s = 1..Len(s) /\ Len(s) \in Nat
      OBVIOUS
    <2> QED BY <2>1, <2>2, IsASeq
  <1>4. E(Append(s, x)) = Append(E(s), EscapeOf(x))
    <2>1. /\ Append(s, x) \in Seq(Letters)
          /\ Len(Append(s, x)) = Len(s) + 1
          /\ DOMAIN Append(s, x) = 1..(Len(s) + 1)
          /\ \A i \in 1..Len(s) : Append(s, x)[i] = s[i]
          /\ Append(s, x)[Len(s) + 1] = x
      OBVIOUS
    <2>2. E(s) \in Seq(Seq(Letters)) /\ Len(E(s)) = Len(s)
      BY <1>3
    <2>3. EscapeOf(x) \in Seq(Letters)
      BY <1>1
    <2>4. /\ Append(E(s), EscapeOf(x)) \in Seq(Seq(Letters))
          /\ DOMAIN Append(E(s), EscapeOf(x)) = 1..(Len(s) + 1)
          /\ \A i \in 1..Len(s) : Append(E(s), EscapeOf(x))[i] = EscapeOf(s[i])
          /\ Append(E(s), EscapeOf(x))[Len(s) + 1] = EscapeOf(x)
      BY <2>2, <2>3
    <2>5. \A i \in 1..(Len(s) + 1) : E(Append(s, x))[i] = Append(E(s), EscapeOf(x))[i]
      <3> TAKE i \in 1..(Len(s) + 1)
      <3>1. CASE i \in 1..Len(s)
        BY <2>1, <2>4, <3>1
      <3>2. CASE i = Len(s) + 1
        BY <2>1, <2>4, <3>2
      <3> QED BY <3>1, <3>2
    <2>6. DOMAIN E(Append(s, x)) = 1..(Len(s) + 1)
      BY <2>1
    <2>7. /\ E(Append(s, x)) = [i \in DOMAIN E(Append(s, x)) |-> E(Append(s, x))[i]]
          /\ Append(E(s), EscapeOf(x)) = [i \in DOMAIN Append(E(s), EscapeOf(x)) |-> Append(E(s), EscapeOf(x))[i]]
      BY <2>4
    <2> HIDE DEF E
    <2> QED BY <2>4, <2>5, <2>6, <2>7
  <1> HIDE DEF E
  <1>5. Escape(s) \in Seq(Letters)
    BY <1>2, <1>3, FlattenIsSeq
  <1>6. FlattenSeq(Append(E(s), EscapeOf(x))) = FlattenSeq(E(s)) \o EscapeOf(x)
    BY <1>1, <1>3, FlattenAppend
  <1> QED BY <1>2, <1>4, <1>5, <1>6

\* What Unescape makes of each symbol of a text.
UnescapeOf(s, i) ==
    IF s[i] = "%" THEN (IF s[i + 1] = "3A" THEN <<":">> ELSE <<"%">>)
    ELSE IF i > 1 /\ s[i - 1] = "%" THEN <<>>
    ELSE <<s[i]>>

UnescapesOf(s) == [i \in DOMAIN s |-> UnescapeOf(s, i)]

LEMMA UnescapesOfText ==
    ASSUME NEW u \in Seq(Letters)
    PROVE  /\ UnescapesOf(u) \in Seq(Seq(Letters))
           /\ Len(UnescapesOf(u)) = Len(u)
           /\ Unescape(u) = FlattenSeq(UnescapesOf(u))
  <1>1. \A i \in 1..Len(u) : UnescapesOf(u)[i] \in Seq(Letters)
    <2> TAKE i \in 1..Len(u)
    <2>1. u[i] \in Letters /\ ":" \in Letters /\ "%" \in Letters
      BY DEF Letters
    <2>2. /\ <<>> \in Seq(Letters) /\ <<u[i]>> \in Seq(Letters)
          /\ <<":">> \in Seq(Letters) /\ <<"%">> \in Seq(Letters)
      BY <2>1, ShortTexts
    <2>3. UnescapeOf(u, i) \in Seq(Letters)
      BY <2>2 DEF UnescapeOf
    <2> QED BY <2>3 DEF UnescapesOf
  <1>2. DOMAIN u = 1..Len(u) /\ Len(u) \in Nat
    OBVIOUS
  <1>3. UnescapesOf(u) \in Seq(Seq(Letters)) /\ Len(UnescapesOf(u)) = Len(u)
    BY <1>1, <1>2, IsASeq DEF UnescapesOf
  <1>4. Unescape(u) = FlattenSeq(UnescapesOf(u))
    BY DEF Unescape, UnescapesOf, UnescapeOf
  <1> QED BY <1>3, <1>4

\* What has been read of a text stays so when the text goes on.
LEMMA ReadStays ==
    ASSUME NEW u \in Seq(Letters), Unescapes(u), NEW v \in Seq(Letters), Len(u) <= Len(v),
           \A i \in 1..Len(u) : v[i] = u[i]
    PROVE  /\ \A i \in 1..Len(u) : /\ v[i] = "%" => i < Len(v) /\ v[i + 1] \in {"3A", "25"}
                                   /\ UnescapesOf(v)[i] = UnescapesOf(u)[i]
           /\ Len(u) > 0 => v[Len(u)] # "%"
  <1>1. \A i \in 1..Len(u) : u[i] = "%" => i < Len(u) /\ i + 1 \in 1..Len(u) /\ u[i + 1] \in {"3A", "25"}
    <2> TAKE i \in 1..Len(u)
    <2>1. i \in DOMAIN u
      OBVIOUS
    <2>2. u[i] = "%" => i < Len(u) /\ u[i + 1] \in {"3A", "25"}
      BY <2>1 DEF Unescapes
    <2> QED BY <2>2
  <1>2. ASSUME NEW i \in 1..Len(u)
        PROVE  /\ v[i] = "%" => i < Len(v) /\ v[i + 1] \in {"3A", "25"}
               /\ UnescapesOf(v)[i] = UnescapesOf(u)[i]
    <2>1. v[i] = u[i] /\ (i > 1 => i - 1 \in 1..Len(u) /\ v[i - 1] = u[i - 1])
      OBVIOUS
    <2>2. u[i] = "%" => v[i + 1] = u[i + 1]
      BY <1>1
    <2>3. UnescapeOf(v, i) = UnescapeOf(u, i)
      BY <2>1, <2>2 DEF UnescapeOf
    <2>4. i \in DOMAIN u /\ i \in DOMAIN v
      OBVIOUS
    <2> QED BY <1>1, <2>1, <2>2, <2>3, <2>4 DEF UnescapesOf
  <1> QED BY <1>1, <1>2

\* A symbol more, that is not one of the two that are escaped.
LEMMA ReadOne ==
    ASSUME NEW u \in Seq(Letters), Unescapes(u), NEW c \in Letters \ {":", "%"}
    PROVE  /\ Unescapes(Append(u, c))
           /\ Unescape(Append(u, c)) = Unescape(u) \o <<c>>
  <1> DEFINE v == Append(u, c)
             n == Len(u)
             W == Append(UnescapesOf(u), <<c>>)
  <1>1. /\ v \in Seq(Letters) /\ Len(v) = n + 1 /\ v[n + 1] = c /\ n \in Nat
        /\ DOMAIN v = 1..(n + 1) /\ \A i \in 1..n : v[i] = u[i]
    OBVIOUS
  <1> HIDE DEF v
  <1>2. /\ \A i \in 1..n : /\ v[i] = "%" => i < Len(v) /\ v[i + 1] \in {"3A", "25"}
                           /\ UnescapesOf(v)[i] = UnescapesOf(u)[i]
        /\ n > 0 => v[n] # "%"
    BY <1>1, ReadStays
  <1>3. Unescapes(v)
    BY <1>1, <1>2 DEF Unescapes
  <1>4. UnescapesOf(v)[n + 1] = <<c>>
    BY <1>1, <1>2 DEF UnescapeOf, UnescapesOf
  <1>5. <<c>> \in Seq(Letters)
    BY ShortTexts
  <1>6. UnescapesOf(v) = W
    <2>1. /\ W \in Seq(Seq(Letters)) /\ Len(W) = n + 1
          /\ \A i \in 1..n : W[i] = UnescapesOf(u)[i]
          /\ W[n + 1] = <<c>>
      BY <1>5, UnescapesOfText
    <2>2. UnescapesOf(v) \in Seq(Seq(Letters)) /\ Len(UnescapesOf(v)) = n + 1
      BY <1>1, UnescapesOfText
    <2> HIDE DEF W
    <2>3. \A i \in 1..(n + 1) : UnescapesOf(v)[i] = W[i]
      <3> TAKE i \in 1..(n + 1)
      <3>1. CASE i \in 1..n
        BY <1>2, <2>1, <3>1
      <3>2. CASE i = n + 1
        BY <1>4, <2>1, <3>2
      <3> QED BY <1>1, <3>1, <3>2
    <2> HIDE DEF n
    <2> QED BY <2>1, <2>2, <2>3, SeqEqual
  <1>7. FlattenSeq(W) = Unescape(u) \o <<c>>
    BY <1>5, UnescapesOfText, FlattenAppend
  <1> QED BY <1>1, <1>3, <1>6, <1>7, UnescapesOfText DEF v

\* One of the two that are escaped.
LEMMA ReadTwo ==
    ASSUME NEW u \in Seq(Letters), Unescapes(u), NEW p \in {"3A", "25"}
    PROVE  /\ Unescapes(u \o <<"%", p>>)
           /\ Unescape(u \o <<"%", p>>) = Unescape(u) \o (IF p = "3A" THEN <<":">> ELSE <<"%">>)
  <1> DEFINE v == u \o <<"%", p>>
             n == Len(u)
             c == IF p = "3A" THEN <<":">> ELSE <<"%">>
             W == Append(Append(UnescapesOf(u), c), <<>>)
  <1>1. /\ v \in Seq(Letters) /\ Len(v) = n + 2 /\ v[n + 1] = "%" /\ v[n + 2] = p /\ n \in Nat
        /\ DOMAIN v = 1..(n + 2) /\ \A i \in 1..n : v[i] = u[i]
    <2>1. <<"%", p>> \in Seq(Letters)
      BY ShortTexts DEF Letters
    <2> QED BY <2>1
  <1> HIDE DEF v
  <1>2. /\ \A i \in 1..n : /\ v[i] = "%" => i < Len(v) /\ v[i + 1] \in {"3A", "25"}
                           /\ UnescapesOf(v)[i] = UnescapesOf(u)[i]
    BY <1>1, ReadStays
  <1>3. Unescapes(v)
    BY <1>1, <1>2 DEF Unescapes
  <1>4. UnescapesOf(v)[n + 1] = c /\ UnescapesOf(v)[n + 2] = <<>>
    <2>1. UnescapeOf(v, n + 1) = c
      BY <1>1 DEF UnescapeOf
    <2>2. UnescapeOf(v, n + 2) = <<>>
      BY <1>1 DEF UnescapeOf
    <2> QED BY <1>1, <2>1, <2>2 DEF UnescapesOf
  <1>5. c \in Seq(Letters) /\ <<>> \in Seq(Letters)
    BY ShortTexts DEF Letters
  <1> HIDE DEF c
  <1>6. Append(UnescapesOf(u), c) \in Seq(Seq(Letters)) /\ Len(Append(UnescapesOf(u), c)) = n + 1
    BY <1>5, UnescapesOfText
  <1>7. UnescapesOf(v) = W
    <2>1. /\ W \in Seq(Seq(Letters)) /\ Len(W) = n + 2
          /\ \A i \in 1..n : W[i] = UnescapesOf(u)[i]
          /\ W[n + 1] = c /\ W[n + 2] = <<>>
      BY <1>5, <1>6, UnescapesOfText
    <2>2. UnescapesOf(v) \in Seq(Seq(Letters)) /\ Len(UnescapesOf(v)) = n + 2
      BY <1>1, UnescapesOfText
    <2> HIDE DEF W
    <2>3. \A i \in 1..(n + 2) : UnescapesOf(v)[i] = W[i]
      <3> TAKE i \in 1..(n + 2)
      <3>1. CASE i \in 1..n
        BY <1>2, <2>1, <3>1
      <3>2. CASE i > n
        BY <1>1, <1>4, <2>1, <3>2
      <3> QED BY <1>1, <3>1, <3>2
    <2> HIDE DEF n
    <2> QED BY <2>1, <2>2, <2>3, SeqEqual
  <1>8. FlattenSeq(W) = Unescape(u) \o c
    <2>1. FlattenSeq(W) = FlattenSeq(Append(UnescapesOf(u), c)) \o <<>>
      BY <1>5, <1>6, FlattenAppend
    <2>2. FlattenSeq(Append(UnescapesOf(u), c)) = Unescape(u) \o c
      BY <1>5, UnescapesOfText, FlattenAppend
    <2>3. Unescape(u) \o c \in Seq(Letters)
      BY <1>5, UnescapesOfText, FlattenIsSeq
    <2> QED BY <2>1, <2>2, <2>3
  <1> QED BY <1>1, <1>3, <1>7, <1>8, UnescapesOfText DEF v, c

\* What Escape writes is read back by Unescape, and has no separator in it.
ComesBack(s) ==
    /\ Unescapes(Escape(s)) /\ Unescape(Escape(s)) = s
    /\ \A i \in 1..Len(Escape(s)) : Escape(s)[i] # ":"

LEMMA EscapeComesBack == \A s \in Seq(Letters) : ComesBack(s)
  <1> DEFINE T == {n \in Nat : \E s \in Seq(Letters) : Len(s) = n /\ ~ComesBack(s)}
  <1> SUFFICES ASSUME T # {} PROVE FALSE
    OBVIOUS
  <1>1. PICK n \in T : \A m \in T : n <= m
    <2>1. T \in SUBSET Nat
      OBVIOUS
    <2> HIDE DEF T
    <2> QED BY <2>1, LeastOf
  <1>2. PICK s \in Seq(Letters) : Len(s) = n /\ ~ComesBack(s)
    BY <1>1
  <1>3. s # <<>>
    <2>1. Escape(<<>>) = <<>>
      BY DEF Escape, Replaced, FlattenSeq
    <2>2. Unescape(<<>>) = <<>> /\ Unescapes(<<>>)
      BY DEF Unescape, Unescapes, FlattenSeq
    <2>3. ComesBack(<<>>)
      BY <2>1, <2>2 DEF ComesBack
    <2> QED BY <1>2, <2>3
  <1>4. PICK r \in Seq(Letters), x \in Letters : s = Append(r, x)
    BY <1>3, SequenceEmptyOrAppend
  <1>5. ComesBack(r)
    <2>1. Len(r) = n - 1 /\ Len(r) \in Nat
      BY <1>2, <1>4
    <2> QED BY <1>1, <2>1
  <1> DEFINE u == Escape(r)
  <1>6. /\ u \in Seq(Letters) /\ Unescapes(u) /\ Unescape(u) = r
        /\ \A i \in 1..Len(u) : u[i] # ":"
        /\ Escape(s) = u \o EscapeOf(x)
    BY <1>4, <1>5, EscapeAppend DEF ComesBack
  <1> HIDE DEF u
  <1>7. CASE x \in {":", "%"}
    <2>1. PICK p \in {"3A", "25"} :
              /\ EscapeOf(x) = <<"%", p>>
              /\ <<x>> = IF p = "3A" THEN <<":">> ELSE <<"%">>
      BY <1>7 DEF EscapeOf
    <2>2. Unescapes(Escape(s)) /\ Unescape(Escape(s)) = r \o <<x>>
      BY <1>6, <2>1, ReadTwo
    <2>3. \A i \in 1..Len(Escape(s)) : Escape(s)[i] # ":"
      <3>1. <<"%", p>> \in Seq(Letters)
        BY ShortTexts DEF Letters
      <3>2. \A i \in 1..Len(u \o <<"%", p>>) : (u \o <<"%", p>>)[i] # ":"
        <4>1. /\ Len(u \o <<"%", p>>) = Len(u) + 2
              /\ \A i \in 1..Len(u) : (u \o <<"%", p>>)[i] = u[i]
              /\ (u \o <<"%", p>>)[Len(u) + 1] = "%" /\ (u \o <<"%", p>>)[Len(u) + 2] = p
          BY <1>6, <3>1
        <4> QED BY <1>6, <4>1
      <3> QED BY <1>6, <2>1, <3>2
    <2>4. s = r \o <<x>>
      BY <1>4
    <2> QED BY <1>2, <2>2, <2>3, <2>4 DEF ComesBack
  <1>8. CASE x \notin {":", "%"}
    <2>1. EscapeOf(x) = <<x>> /\ u \o <<x>> = Append(u, x)
      BY <1>6, <1>8 DEF EscapeOf
    <2>2. Unescapes(Escape(s)) /\ Unescape(Escape(s)) = r \o <<x>>
      <3>1. x \in Letters \ {":", "%"}
        BY <1>8
      <3>2. Unescapes(Append(u, x)) /\ Unescape(Append(u, x)) = r \o <<x>>
        BY <1>6, <3>1, ReadOne
      <3> QED BY <1>6, <2>1, <3>2
    <2>3. \A i \in 1..Len(Escape(s)) : Escape(s)[i] # ":"
      <3>1. \A i \in 1..Len(Append(u, x)) : Append(u, x)[i] # ":"
        <4>1. Len(Append(u, x)) = Len(u) + 1 /\ Append(u, x)[Len(u) + 1] = x
          BY <1>6
        <4>2. \A i \in 1..Len(u) : Append(u, x)[i] = u[i]
          BY <1>6
        <4> QED BY <1>6, <1>8, <4>1, <4>2
      <3> QED BY <1>6, <2>1, <3>1
    <2>4. s = r \o <<x>>
      BY <1>4
    <2> QED BY <1>2, <2>2, <2>3, <2>4 DEF ComesBack
  <1> QED BY <1>7, <1>8

-----------------------------------------------------------------------------
(* Reading IDs *)

\* Up to the first separator.
LEMMA GmailComesBack ==
    ASSUME NEW a \in Seq(Letters), a # <<>>, \A i \in 1..Len(a) : a[i] # ":",
           NEW m \in Seq(Letters), m # <<>>
    PROVE  ParseGmail(a \o <<":">> \o m) = [provider |-> "gmail", account |-> a, msg |-> m]
  <1> DEFINE s == a \o <<":">> \o m
             n == Len(a)
             c == CHOOSE i \in Colons(s) : \A j \in Colons(s) : i <= j
  <1>1. /\ s \in Seq(Letters) /\ Len(s) = n + 1 + Len(m) /\ n \in Nat \ {0} /\ Len(m) \in Nat \ {0}
        /\ DOMAIN s = 1..Len(s) /\ s[n + 1] = ":"
        /\ \A i \in 1..n : s[i] = a[i]
        /\ \A i \in 1..Len(m) : s[n + 1 + i] = m[i]
    <2>1. <<":">> \in Seq(Letters)
      BY ShortTexts DEF Letters
    <2> QED BY <2>1
  <1>2. SubSeq(s, 1, n) = a /\ SubSeq(s, n + 2, Len(s)) = m
    <2> HIDE DEF s
    <2>1. /\ SubSeq(s, 1, n) \in Seq(Letters) /\ Len(SubSeq(s, 1, n)) = n
          /\ \A i \in 1..n : SubSeq(s, 1, n)[i] = a[i]
      BY <1>1
    <2>2. /\ SubSeq(s, n + 2, Len(s)) \in Seq(Letters) /\ Len(SubSeq(s, n + 2, Len(s))) = Len(m)
          /\ \A i \in 1..Len(m) : SubSeq(s, n + 2, Len(s))[i] = m[i]
      BY <1>1
    <2> QED BY <2>1, <2>2, SeqEqual
  <1> HIDE DEF s
  <1>3. n + 1 \in Colons(s) /\ \A j \in Colons(s) : n + 1 <= j
    <2>1. n + 1 \in 1..Len(s)
      BY <1>1
    <2>2. ASSUME NEW j \in Colons(s) PROVE n + 1 <= j
      <3>1. j \in 1..Len(s) /\ s[j] = ":"
        BY <1>1 DEF Colons
      <3>2. j \notin 1..n
        BY <1>1, <3>1
      <3> QED BY <1>1, <3>1, <3>2
    <2> QED BY <1>1, <2>1, <2>2 DEF Colons
  <1>4. c = n + 1
    <2>1. \A i \in Colons(s) : (\A j \in Colons(s) : i <= j) => i = n + 1
      BY <1>1, <1>3 DEF Colons
    <2> QED BY <1>3, <2>1
  <1> HIDE DEF c
  <1>5. Colons(s) # {} /\ c # 1 /\ c # Len(s) /\ c - 1 = n /\ c + 1 = n + 2
    <2> HIDE DEF n
    <2> QED BY <1>1, <1>3, <1>4
  <1>6. ParseGmail(s) = [provider |-> "gmail", account |-> SubSeq(s, 1, c - 1), msg |-> SubSeq(s, c + 1, Len(s))]
    BY <1>5 DEF ParseGmail, c
  <1> QED BY <1>2, <1>5, <1>6 DEF s

\* Between the separators.
LEMMA SegmentComesBack ==
    ASSUME NEW S, NEW s \in Seq(S), NEW t \in Seq(S), NEW k \in Nat, k + Len(t) <= Len(s),
           \A i \in 1..Len(t) : s[k + i] = t[i]
    PROVE  SubSeq(s, k + 1, k + Len(t)) = t
  <1> DEFINE r == SubSeq(s, k + 1, k + Len(t))
  <1>1. Len(t) \in Nat /\ k + 1 \in Nat /\ k + Len(t) \in Nat
    OBVIOUS
  <1>2. /\ r \in Seq(S) /\ Len(r) = Len(t)
        /\ \A i \in 1..Len(t) : r[i] = s[k + i]
    OBVIOUS
  <1> HIDE DEF r
  <1>3. \A i \in 1..Len(t) : r[i] = t[i]
    BY <1>2
  <1> QED BY <1>2, <1>3, SeqEqual DEF r

LEMMA ThreeInAll ==
    ASSUME NEW a, NEW b, NEW c, a # b, a # c, b # c
    PROVE  Cardinality({a, b, c}) = 3
  <1>1. IsFiniteSet({a}) /\ Cardinality({a}) = 1
    BY FS_Singleton
  <1>2. IsFiniteSet({a} \union {b}) /\ Cardinality({a} \union {b}) = 2
    BY <1>1, FS_AddElement
  <1>3. Cardinality(({a} \union {b}) \union {c}) = 3
    BY <1>2, FS_AddElement
  <1>4. ({a} \union {b}) \union {c} = {a, b, c}
    OBVIOUS
  <1> QED BY <1>3, <1>4

\* Four segments, since what Escape writes has no separator in it.
LEMMA IMAPComesBack ==
    ASSUME NEW a \in Seq(Letters), a # <<>>, \A i \in 1..Len(a) : a[i] # ":",
           NEW f \in Seq(Letters), Escape(f) # <<>>, NEW v \in Numbers, NEW u \in Numbers
    PROVE  ParseIMAP(a \o <<":">> \o Escape(f) \o <<":", v, ":", u>>)
               = [provider |-> "imap", account |-> a, folder |-> f, uidvalidity |-> v, uid |-> u]
  <1> DEFINE S == Letters \union Numbers
             e == Escape(f)
             s == a \o <<":">> \o e \o <<":", v, ":", u>>
             p == Len(a) + 1
             q == Len(a) + Len(e) + 2
  <1>1. /\ e \in Seq(Letters) /\ Unescapes(e) /\ Unescape(e) = f
        /\ \A i \in 1..Len(e) : e[i] # ":"
    <2>1. Escape(f) \in Seq(Letters)
      BY EscapeAppend DEF Letters
    <2> QED BY <2>1, EscapeComesBack DEF ComesBack
  <1> HIDE DEF e
  <1>2. /\ a \in Seq(S) /\ e \in Seq(S) /\ <<v>> \in Seq(S) /\ <<u>> \in Seq(S)
        /\ <<":">> \in Seq(S) /\ <<":", v, ":", u>> \in Seq(S)
    <2>1. ":" \in S /\ v \in S /\ u \in S /\ Letters \subseteq S
      BY DEF Letters
    <2> HIDE DEF S
    <2> QED BY <1>1, <2>1
  <1> HIDE DEF S
  <1>3. Len(a) \in Nat \ {0} /\ Len(e) \in Nat \ {0}
    BY <1>2 DEF e
  <1>4. /\ s \in Seq(S) /\ Len(s) = q + 3 /\ DOMAIN s = 1..(q + 3)
        /\ s[p] = ":" /\ s[q] = ":" /\ s[q + 1] = v /\ s[q + 2] = ":" /\ s[q + 3] = u
        /\ \A i \in 1..Len(a) : s[i] = a[i]
        /\ \A i \in 1..Len(e) : s[p + i] = e[i]
    BY <1>2, <1>3
  <1> HIDE DEF s
  <1>5. Colons(s) = {p, q, q + 2}
    <2>1. {p, q, q + 2} \subseteq Colons(s)
      BY <1>3, <1>4 DEF Colons
    <2>2. ASSUME NEW j \in Colons(s) PROVE j \in {p, q, q + 2}
      <3>1. j \in 1..(q + 3) /\ s[j] = ":"
        BY <1>4 DEF Colons
      <3>2. j \notin 1..Len(a)
        BY <1>4, <3>1
      <3>3. ~(p < j /\ j < q)
        <4> SUFFICES ASSUME p < j, j < q PROVE FALSE
          OBVIOUS
        <4>1. j - p \in 1..Len(e) /\ p + (j - p) = j
          BY <1>3, <3>1
        <4> QED BY <1>1, <1>4, <3>1, <4>1
      <3>4. j # q + 1 /\ j # q + 3
        BY <1>4, <3>1 DEF Numbers
      <3> QED BY <1>3, <3>1, <3>2, <3>3, <3>4
    <2> QED BY <2>1, <2>2
  <1>6. Cardinality(Colons(s)) = 3
    <2>1. p # q /\ p # q + 2 /\ q # q + 2
      BY <1>3
    <2>2. Cardinality({p, q, q + 2}) = 3
      <3> HIDE DEF p, q
      <3> QED BY <2>1, ThreeInAll
    <2> QED BY <1>5, <2>2
  <1> DEFINE ends == Colons(s) \union {Len(s) + 1}
             next(k) == CHOOSE i \in ends : i > k /\ \A j \in ends : j > k => i <= j
             cuts == <<0, next(0), next(next(0)), next(next(next(0))), Len(s) + 1>>
             segment(i) == SubSeq(s, cuts[i] + 1, cuts[i + 1] - 1)
             number(t) == Len(t) = 1 /\ t[1] \in Numbers
  <1>7. ParseIMAP(s) =
            IF \/ Cardinality(Colons(s)) # 3
               \/ \E i \in 1..4 : segment(i) = <<>>
               \/ ~Unescapes(segment(2)) \/ ~number(segment(3)) \/ ~number(segment(4))
            THEN NotAnID
            ELSE [provider |-> "imap", account |-> segment(1), folder |-> Unescape(segment(2)),
                  uidvalidity |-> segment(3)[1], uid |-> segment(4)[1]]
    BY DEF ParseIMAP
  <1>8. ends = {p, q, q + 2, q + 4}
    BY <1>3, <1>4, <1>5
  <1> HIDE DEF ends
  <1>9. next(0) = p /\ next(p) = q /\ next(q) = q + 2
    BY <1>3, <1>8
  <1> HIDE DEF next
  <1>10. cuts = <<0, p, q, q + 2, q + 4>>
    BY <1>3, <1>4, <1>9
  <1> HIDE DEF cuts
  <1>11. segment(1) = a /\ segment(2) = e /\ segment(3) = <<v>> /\ segment(4) = <<u>>
    <2>1. /\ segment(1) = SubSeq(s, 1, Len(a)) /\ segment(2) = SubSeq(s, p + 1, p + Len(e))
          /\ segment(3) = SubSeq(s, q + 1, q + 1) /\ segment(4) = SubSeq(s, q + 3, q + 3)
      BY <1>3, <1>10
    <2>2. SubSeq(s, 1, Len(a)) = a
      BY <1>2, <1>3, <1>4, SegmentComesBack
    <2>3. SubSeq(s, p + 1, p + Len(e)) = e
      <3>1. p \in Nat /\ p + Len(e) <= Len(s) /\ \A i \in 1..Len(e) : s[p + i] = e[i]
        BY <1>3, <1>4
      <3> HIDE DEF p
      <3> QED BY <1>2, <1>4, <3>1, SegmentComesBack
    <2>4. SubSeq(s, q + 1, q + 1) = <<v>>
      <3>1. q \in Nat /\ q + 1 <= Len(s) /\ s[q + 1] = v
        BY <1>3, <1>4
      <3>2. Len(<<v>>) = 1 /\ \A i \in 1..1 : s[q + i] = <<v>>[i]
        BY <3>1
      <3> HIDE DEF q
      <3> QED BY <1>2, <1>4, <3>1, <3>2, SegmentComesBack
    <2>5. SubSeq(s, q + 3, q + 3) = <<u>>
      <3>1. q + 2 \in Nat /\ (q + 2) + 1 <= Len(s) /\ s[q + 3] = u /\ (q + 2) + 1 = q + 3
        BY <1>3, <1>4
      <3>2. Len(<<u>>) = 1 /\ \A i \in 1..1 : s[(q + 2) + i] = <<u>>[i]
        BY <3>1
      <3>3. SubSeq(s, (q + 2) + 1, (q + 2) + Len(<<u>>)) = <<u>>
        <4> HIDE DEF q
        <4> QED BY <1>2, <1>4, <3>1, <3>2, SegmentComesBack
      <3> QED BY <3>1, <3>2, <3>3
    <2> QED BY <2>1, <2>2, <2>3, <2>4, <2>5
  <1> HIDE DEF segment
  <1>12. \A i \in 1..4 : segment(i) # <<>>
    <2>1. Len(a) # 0 /\ Len(e) # 0 /\ Len(<<v>>) = 1 /\ Len(<<u>>) = 1 /\ Len(<<>>) = 0
      BY <1>3
    <2>2. a # <<>> /\ e # <<>> /\ <<v>> # <<>> /\ <<u>> # <<>>
      BY <2>1
    <2> TAKE i \in 1..4
    <2>3. i = 1 \/ i = 2 \/ i = 3 \/ i = 4
      OBVIOUS
    <2> QED BY <1>11, <2>2, <2>3
  <1>13. number(<<v>>) /\ number(<<u>>)
    OBVIOUS
  <1> QED BY <1>1, <1>6, <1>7, <1>11, <1>12, <1>13 DEF s, e

\* What has been written is the text of the ID that was minted.
IdInv == id \in ID /\ text \in {NoText, String(id)}

LEMMA EscapeIsText ==
    ASSUME NEW f \in Seq(Letters), f # <<>>
    PROVE  Escape(f) # <<>>
  <1>1. Escape(<<>>) = <<>> /\ Unescape(<<>>) = <<>>
    BY DEF Escape, Replaced, Unescape, FlattenSeq
  <1>2. Unescape(Escape(f)) = f
    BY EscapeComesBack DEF ComesBack
  <1> QED BY <1>1, <1>2

\* Whatever ID is written as text is read back from it.
LEMMA TextComesBack == \A d \in ID : Parse(String(d)) = d
  <1>1. \A n \in Names \union Words : n \in Seq(Letters) /\ n # <<>>
    BY LengthsType DEF Names, Words, SeqOf
  <1>2. \A a \in Accounts : a \in Seq(Letters) /\ a # <<>> /\ \A i \in 1..Len(a) : a[i] # ":"
    <2> TAKE a \in Accounts
    <2>1. a \in Seq(Letters) /\ a # <<>> /\ ":" \notin ToSet(a)
      <3>1. a \in Words /\ ":" \notin ToSet(a)
        BY DEF Accounts
      <3> QED BY <1>1, <3>1
    <2>2. \A i \in 1..Len(a) : a[i] \in ToSet(a)
      BY <2>1 DEF ToSet
    <2> QED BY <2>1, <2>2
  <1> TAKE d \in ID
  <1>3. CASE d.provider = "gmail"
    <2>1. /\ d = [provider |-> "gmail", account |-> d.account, msg |-> d.msg]
          /\ d.account \in Accounts /\ d.msg \in Words
      BY <1>3 DEF ID
    <2>2. String(d) = [provider |-> "gmail", rest |-> d.account \o <<":">> \o d.msg]
      BY <1>3 DEF String
    <2>3. ParseGmail(d.account \o <<":">> \o d.msg) = d
      BY <1>1, <1>2, <2>1, GmailComesBack
    <2> QED BY <2>2, <2>3 DEF Parse
  <1>4. CASE d.provider # "gmail"
    <2>1. /\ d = [provider |-> "imap", account |-> d.account, folder |-> d.folder,
                  uidvalidity |-> d.uidvalidity, uid |-> d.uid]
          /\ d.account \in Accounts /\ d.folder \in Names
          /\ d.uidvalidity \in Numbers /\ d.uid \in Numbers
      BY <1>4 DEF ID
    <2> DEFINE rest == d.account \o <<":">> \o Escape(d.folder) \o
                           <<":", d.uidvalidity, ":", d.uid>>
    <2>2. String(d) = [provider |-> "imap", rest |-> rest]
      <3>1. d.provider = "imap"
        BY <1>4 DEF ID
      <3>2. "imap" # "gmail"
        OBVIOUS
      <3> QED BY <3>1, <3>2, Zenon DEF String
    <2>3. ParseIMAP(rest) = d
      BY <1>1, <1>2, <2>1, EscapeIsText, IMAPComesBack
    <2> HIDE DEF rest
    <2> QED BY <2>2, <2>3 DEF Parse
  <1> QED BY <1>3, <1>4

LEMMA IdInvAlways == IdSpec => []IdInv
  <1>1. IdInit => IdInv
    BY DEF IdInit, IdInv
  <1>2. IdInv /\ [IdNext]_idVars => IdInv'
    BY DEF IdInv, IdNext, Mint, Read, idVars
  <1> QED BY <1>1, <1>2, PTL DEF IdSpec

\* Whatever symbols the names of accounts and folders are made of, and however many of
\* them, an ID that is handed back is the one that was minted.
THEOREM EveryIdComesBack == IdSpec => IdsComeBack
  <1>1. IdInv /\ [IdNext]_idVars => [Read => back' = id]_idVars
    <2> SUFFICES ASSUME IdInv, Read PROVE back' = id
      BY DEF idVars
    <2>1. text = String(id)
      BY DEF IdInv, Read
    <2> QED BY <2>1, TextComesBack DEF IdInv, Read
  <1> QED BY <1>1, IdInvAlways, PTL DEF IdSpec, IdsComeBack
================================================================================
