------------------------------ MODULE MessageIds ------------------------------
(***************************************************************************)
(* The mbx ID of a message as text: what `ID.String` writes into answers   *)
(* and cache keys, and `Parse` reads from the command line and the cache.  *)
(* A text is a sequence of symbols: the separator, the escape character,   *)
(* the two pairs of characters that may follow it, the numbers, and a      *)
(* letter that stands for all others.                                      *)
(***************************************************************************)
EXTENDS Naturals, Sequences, FiniteSets, SequencesExt

CONSTANTS
    MaxName,        \* how many symbols the name of a folder has at most
    MaxWord         \* and that of an account, and a Gmail ID

ASSUME LengthsType == {MaxName, MaxWord} \subseteq Nat

VARIABLES
    id,     \* an ID that mbx has minted
    text,   \* its text, or one the user has typed
    back    \* the ID read from the text

idVars == <<id, text, back>>

Letters == {":", "%", "3A", "25", "x"}
Numbers == {"1", "2"}
Names == SeqOf(Letters, MaxName) \ {<<>>}
Words == SeqOf(Letters, MaxWord) \ {<<>>}

\* Account names that TOML can write and mbx can parse back.  (The comment at
\* mbxid.go:12 bans "%", too, and says that loading the config sees to both.)
Accounts == {n \in Words : ":" \notin ToSet(n)}

ID == [provider : {"gmail"}, account : Accounts, msg : Words]
      \union
      [provider : {"imap"}, account : Accounts, folder : Names,
       uidvalidity : Numbers, uid : Numbers]

\* ErrInvalidFormat.
NotAnID == [provider |-> "none"]
NoText == [provider |-> "none", rest |-> <<>>]

\* strings.Replace of one symbol by others, all over s.
Replaced(s, by(_)) == FlattenSeq([i \in DOMAIN s |-> by(s[i])])

\* (mutant) The separator is escaped first, and then what is escaped.
EscapeTwice(s) ==
    LET colons(c) == IF c = ":" THEN <<"%", "3A">> ELSE <<c>>
        percents(c) == IF c = "%" THEN <<"%", "25">> ELSE <<c>>
    IN  Replaced(Replaced(s, colons), percents)

\* folderEscaper: one pass.
Escape(s) ==
    LET escaped(c) == IF c = ":" THEN <<"%", "3A">> ELSE IF c = "%" THEN <<"%", "25">> ELSE <<c>>
    IN  Replaced(s, escaped)

\* An escape character must be followed by one of the two pairs it is written with.
Unescapes(s) == \A i \in DOMAIN s : s[i] = "%" => i < Len(s) /\ s[i + 1] \in {"3A", "25"}

Unescape(s) ==
    FlattenSeq([i \in DOMAIN s |->
        IF s[i] = "%" THEN (IF s[i + 1] = "3A" THEN <<":">> ELSE <<"%">>)
        ELSE IF i > 1 /\ s[i - 1] = "%" THEN <<>>
        ELSE <<s[i]>>])

String(d) ==
    [provider |-> d.provider,
     rest |-> IF d.provider = "gmail" THEN d.account \o <<":">> \o d.msg
              ELSE d.account \o <<":">> \o Escape(d.folder) \o
                   <<":", d.uidvalidity, ":", d.uid>>]

Colons(s) == {i \in DOMAIN s : s[i] = ":"}

\* The account up to the first separator, and the rest, neither of them empty.
ParseGmail(s) ==
    LET c == CHOOSE i \in Colons(s) : \A j \in Colons(s) : i <= j
    IN  IF Colons(s) = {} \/ c = 1 \/ c = Len(s) THEN NotAnID
        ELSE [provider |-> "gmail", account |-> SubSeq(s, 1, c - 1),
              msg |-> SubSeq(s, c + 1, Len(s))]

\* Four segments, none of them empty, the last two of them numbers.
ParseIMAP(s) ==
    LET ends == Colons(s) \union {Len(s) + 1}
        next(k) == CHOOSE i \in ends : i > k /\ \A j \in ends : j > k => i <= j
        cuts == <<0, next(0), next(next(0)), next(next(next(0))), Len(s) + 1>>
        segment(i) == SubSeq(s, cuts[i] + 1, cuts[i + 1] - 1)
        number(t) == Len(t) = 1 /\ t[1] \in Numbers
    IN  IF \/ Cardinality(Colons(s)) # 3
           \/ \E i \in 1..4 : segment(i) = <<>>
           \/ ~Unescapes(segment(2)) \/ ~number(segment(3)) \/ ~number(segment(4))
        THEN NotAnID
        ELSE [provider |-> "imap", account |-> segment(1), folder |-> Unescape(segment(2)),
              uidvalidity |-> segment(3)[1], uid |-> segment(4)[1]]

Parse(t) == IF t.provider = "gmail" THEN ParseGmail(t.rest) ELSE ParseIMAP(t.rest)

-----------------------------------------------------------------------------
\* mbx writes an ID it has minted.
Mint ==
    /\ text = NoText
    /\ text' = String(id)
    /\ UNCHANGED <<id, back>>

\* It is handed back, to this invocation or another.
Read ==
    /\ text # NoText
    /\ back' = Parse(text)
    /\ UNCHANGED <<id, text>>

IdInit == id \in ID /\ text = NoText /\ back = NotAnID
IdNext == Mint \/ Read
IdSpec == IdInit /\ [][IdNext]_idVars

-----------------------------------------------------------------------------
(* Properties *)

\* An ID that is handed back names the message, the folder and the account it was
\* minted for, whatever separators and escapes the name of the folder is made of;
\* so no two messages share an ID.
IdsComeBack == [][Read => back' = id]_idVars
=============================================================================
