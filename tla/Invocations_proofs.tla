-------------------------- MODULE Invocations_proofs --------------------------
(***************************************************************************)
(* Proofs about the modules that are about one kind of invocation each:    *)
(* CacheOpen, CacheListing, AuthorizeFlow and ConfigUse, and, with what is *)
(* proved of SendMail and ThreadFetch, about the instance of all of them.  *)
(***************************************************************************)
EXTENDS MCInvocations, Messages_proofs

-----------------------------------------------------------------------------
(* Opening the cache *)

\* Statements 1 to n were run by a binary of version v.
MadeUpTo(n, v) == \A i \in Statements : i <= n => disk.made[i] = v

\* What an invocation knows at the step it is at: it may rely on the statements it
\* has run itself, since none is ever run twice.
Knows(p) ==
    LET q == opener[p]
    IN  /\ q.pc # "idle" => q.bin \in Versions
        /\ q.pc \in {"stat", "file", "meta", "version"} => q.at = 1
        /\ q.pc \in {"meta", "version", "ddl", "stamp"} => disk.there
        /\ q.pc \in {"version", "ddl", "stamp"} => disk.meta
        /\ q.pc = "ddl" => q.at \in Statements /\ MadeUpTo(q.at - 1, q.bin)
        /\ q.pc = "stamp" => MadeUpTo(Tables, q.bin)
        /\ q.pc = "using" => disk.version = q.bin

\* A version is stamped on a whole schema only.
StampedIsWhole == disk.version # NoVersion => MadeUpTo(Tables, disk.version)

OpenInv ==
    /\ OpenTypeOK
    /\ \A p \in Openers : Knows(p)
    /\ StampedIsWhole

-----------------------------------------------------------------------------

\* A step of one invocation leaves what another one knows, if the file only grows.
LEMMA OthersKnow ==
    ASSUME OpenInv, NEW p \in Openers, NEW r \in Openers, r # p,
           opener'[r] = opener[r],
           disk.there => disk'.there,
           disk.meta => disk'.meta,
           disk.version # NoVersion => disk'.version = disk.version,
           \A i \in Statements : disk.made[i] # NoVersion => disk'.made[i] = disk.made[i]
    PROVE  Knows(r)'
  <1>1. Knows(r)
    BY DEF OpenInv
  <1>2. \A n, v : v \in Versions /\ MadeUpTo(n, v) => MadeUpTo(n, v)'
    BY NoVersionFresh DEF MadeUpTo
  <1>3. opener[r].pc = "using" => disk'.version = opener[r].bin
    BY <1>1, NoVersionFresh DEF Knows
  <1> QED BY <1>1, <1>2, <1>3 DEF Knows

LEMMA OpenBegins == OpenInit => OpenInv
  <1> SUFFICES ASSUME OpenInit PROVE OpenInv
    OBVIOUS
  <1>1. OpenTypeOK
    BY DEF OpenInit, OpenTypeOK, Disk, Stamps, Opener, Resting, OpenPCs, Verbs
  <1>2. \A p \in Openers : Knows(p)
    BY DEF OpenInit, Knows, Resting
  <1>3. StampedIsWhole
    BY DEF OpenInit, StampedIsWhole
  <1> QED BY <1>1, <1>2, <1>3 DEF OpenInv

\* Steps that leave the file alone.
LEMMA StartKeeps == ASSUME OpenInv, NEW p \in Openers, OpenStart(p) PROVE OpenInv'
  <1>1. PICK v \in Versions, verb \in Verbs :
            opener' = [opener EXCEPT ![p] =
                [pc |-> IF verb \in {"status", "clear"} THEN "stat" ELSE "file",
                 verb |-> verb, bin |-> v, at |-> 1, heeds |-> verb = "clear" /\ v \in told]]
    BY DEF OpenStart
  <1>2. UNCHANGED <<disk, told>>
    BY DEF OpenStart
  <1>3. OpenTypeOK'
    BY <1>1, <1>2 DEF OpenInv, OpenTypeOK, Opener, OpenPCs, Stamps
  <1>4. Knows(p)'
    BY <1>1, <1>2 DEF OpenInv, OpenTypeOK, Knows
  <1>5. \A r \in Openers \ {p} : Knows(r)'
    BY <1>1, <1>2, OthersKnow DEF OpenInv, OpenTypeOK
  <1>6. StampedIsWhole'
    BY <1>2 DEF OpenInv, StampedIsWhole, MadeUpTo
  <1> QED BY <1>3, <1>4, <1>5, <1>6 DEF OpenInv

LEMMA OthersKeep ==
    ASSUME OpenInv, NEW p \in Openers, opener' = [opener EXCEPT ![p] = Resting],
           UNCHANGED <<disk, told>>
    PROVE  OpenInv'
  <1>1. OpenTypeOK'
    BY DEF OpenInv, OpenTypeOK, Opener, OpenPCs, Stamps, Resting, Verbs
  <1>2. Knows(p)'
    BY DEF OpenInv, OpenTypeOK, Knows, Resting
  <1>3. \A r \in Openers \ {p} : Knows(r)'
    BY OthersKnow DEF OpenInv, OpenTypeOK
  <1>4. StampedIsWhole'
    BY DEF OpenInv, StampedIsWhole, MadeUpTo
  <1> QED BY <1>1, <1>2, <1>3, <1>4 DEF OpenInv

\* Going to another step, with what has to be known there.
LEMMA GotoKeeps ==
    ASSUME OpenInv, NEW p \in Openers, NEW pc \in OpenPCs, Goto(p, pc),
           Knows(p)', disk' \in Disk,
           disk'.version # NoVersion => disk'.there /\ disk'.meta,
           told' \subseteq Versions,
           disk.there => disk'.there,
           disk.meta => disk'.meta,
           disk.version # NoVersion => disk'.version = disk.version,
           \A i \in Statements : disk.made[i] # NoVersion => disk'.made[i] = disk.made[i],
           StampedIsWhole'
    PROVE  OpenInv'
  <1>1. opener' \in [Openers -> Opener]
    BY DEF OpenInv, OpenTypeOK, Goto, Opener
  <1>2. OpenTypeOK'
    BY <1>1 DEF OpenTypeOK
  <1>3. \A r \in Openers \ {p} : opener'[r] = opener[r]
    BY DEF Goto, OpenInv, OpenTypeOK
  <1>4. \A r \in Openers \ {p} : Knows(r)'
    BY <1>3, OthersKnow
  <1> QED BY <1>2, <1>4 DEF OpenInv

\* What Goto makes of the invocation.
LEMMA GotoIs ==
    ASSUME OpenInv, NEW p \in Openers, NEW pc \in OpenPCs, Goto(p, pc)
    PROVE  /\ opener'[p].pc = pc
           /\ opener'[p].bin = opener[p].bin
           /\ opener'[p].at = opener[p].at
  BY DEF OpenInv, OpenTypeOK, Goto, Opener

LEMMA StatKeeps == ASSUME OpenInv, NEW p \in Openers, Stat(p) PROVE OpenInv'
  <1> DEFINE pc == IF disk.there THEN "file" ELSE "nothing"
  <1>1. pc \in OpenPCs /\ Goto(p, pc) /\ UNCHANGED <<disk, told>> /\ opener[p].pc = "stat"
    BY DEF Stat, OpenPCs
  <1>2. pc \in {"file", "nothing"}
    OBVIOUS
  <1> HIDE DEF pc
  <1>3. Knows(p)'
    BY <1>1, <1>2, GotoIs DEF OpenInv, Knows
  <1>4. StampedIsWhole'
    BY <1>1 DEF OpenInv, StampedIsWhole, MadeUpTo
  <1> QED BY <1>1, <1>3, <1>4, GotoKeeps DEF OpenInv, OpenTypeOK

LEMMA FileKeeps == ASSUME OpenInv, NEW p \in Openers, OpenFile(p) PROVE OpenInv'
  <1>1. /\ opener[p].pc = "file" /\ "meta" \in OpenPCs /\ Goto(p, "meta") /\ UNCHANGED told
        /\ disk' \in Disk /\ disk'.there /\ disk'.meta = disk.meta
        /\ disk'.version = disk.version /\ disk'.made = disk.made
    BY DEF OpenFile, OpenPCs, OpenInv, OpenTypeOK, Disk
  <1>2. Knows(p)'
    BY <1>1, GotoIs DEF OpenInv, Knows
  <1>3. StampedIsWhole'
    BY <1>1 DEF OpenInv, StampedIsWhole, MadeUpTo
  <1> QED BY <1>1, <1>2, <1>3, GotoKeeps DEF OpenInv, OpenTypeOK

LEMMA MetaKeeps == ASSUME OpenInv, NEW p \in Openers, CreateMeta(p) PROVE OpenInv'
  <1>1. /\ opener[p].pc = "meta" /\ "version" \in OpenPCs /\ Goto(p, "version")
        /\ UNCHANGED told
        /\ disk' \in Disk /\ disk'.there = disk.there /\ disk'.meta
        /\ disk'.version = disk.version /\ disk'.made = disk.made
    BY DEF CreateMeta, OpenPCs, OpenInv, OpenTypeOK, Disk
  <1>2. Knows(p)'
    BY <1>1, GotoIs DEF OpenInv, Knows
  <1>3. StampedIsWhole'
    BY <1>1 DEF OpenInv, StampedIsWhole, MadeUpTo
  <1> QED BY <1>1, <1>2, <1>3, GotoKeeps DEF OpenInv, OpenTypeOK

LEMMA ReadKeeps == ASSUME OpenInv, NEW p \in Openers, ReadVersion(p) PROVE OpenInv'
  <1> DEFINE v == disk.version
             pc == IF v = NoVersion THEN "ddl"
                   ELSE IF v = opener[p].bin THEN "using" ELSE "refused"
  <1>1. /\ opener[p].pc = "version" /\ pc \in OpenPCs /\ Goto(p, pc) /\ UNCHANGED disk
        /\ pc \in {"ddl", "using", "refused"}
        /\ pc = "using" => v = opener[p].bin
    BY DEF ReadVersion, OpenPCs
  <1>2. opener[p].bin \in Versions /\ opener[p].at = 1 /\ disk.there /\ disk.meta
    BY <1>1 DEF OpenInv, Knows
  <1>3. told' \subseteq Versions
    BY <1>2 DEF ReadVersion, OpenInv, OpenTypeOK
  <1> HIDE DEF pc
  <1>4. 1 \in Statements /\ MadeUpTo(0, opener[p].bin)
    BY TablesType DEF Statements, MadeUpTo
  <1>5. Knows(p)'
    <2>1. /\ opener'[p].pc = pc /\ opener'[p].bin = opener[p].bin /\ opener'[p].at = 1
      BY <1>1, <1>2, GotoIs
    <2>2. MadeUpTo(opener[p].at - 1, opener[p].bin)'
      BY <2>1, TablesType DEF MadeUpTo, Statements
    <2> QED BY <1>1, <1>2, <1>4, <2>1, <2>2 DEF Knows
  <1>6. StampedIsWhole'
    BY <1>1 DEF OpenInv, StampedIsWhole, MadeUpTo
  <1> QED BY <1>1, <1>3, <1>5, <1>6, GotoKeeps DEF OpenInv, OpenTypeOK

\* A statement that was run before is an error.
LEMMA BrokenKeeps ==
    ASSUME OpenInv, NEW p \in Openers, opener[p].pc # "idle", Goto(p, "broken"),
           UNCHANGED <<disk, told>>
    PROVE  OpenInv'
  <1>1. "broken" \in OpenPCs
    BY DEF OpenPCs
  <1>2. Knows(p)'
    BY <1>1, GotoIs DEF OpenInv, Knows
  <1>3. StampedIsWhole'
    BY DEF OpenInv, StampedIsWhole, MadeUpTo
  <1> QED BY <1>1, <1>2, <1>3, GotoKeeps DEF OpenInv, OpenTypeOK

\* A statement that is run takes nothing away from any other invocation: it was
\* run by nobody.
LEMMA TableKeeps == ASSUME OpenInv, NEW p \in Openers, CreateTable(p) PROVE OpenInv'
  <1> DEFINE q == opener[p]
  <1>1. q.pc = "ddl" /\ UNCHANGED told
    BY DEF CreateTable
  <1>2. /\ q \in Opener /\ q.bin \in Versions /\ q.at \in Statements /\ disk.there /\ disk.meta
        /\ MadeUpTo(q.at - 1, q.bin)
    BY <1>1 DEF OpenInv, OpenTypeOK, Knows
  <1>3. CASE disk.made[q.at] # NoVersion
    BY <1>1, <1>3, BrokenKeeps DEF CreateTable
  <1>4. CASE disk.made[q.at] = NoVersion
    <2>1. /\ disk' = [disk EXCEPT !.made[q.at] = q.bin]
          /\ opener' = [opener EXCEPT ![p] =
                 [pc |-> IF q.at = Tables THEN "stamp" ELSE "ddl",
                  verb |-> q.verb, bin |-> q.bin, at |-> q.at + 1, heeds |-> q.heeds]]
      BY <1>4 DEF CreateTable
    <2>2. /\ disk' \in Disk /\ disk'.there = disk.there /\ disk'.meta = disk.meta
          /\ disk'.version = disk.version
          /\ disk'.made = [disk.made EXCEPT ![q.at] = q.bin]
      BY <1>2, <2>1 DEF OpenInv, OpenTypeOK, Disk, Stamps
    <2>3. disk.made \in [Statements -> Stamps]
      BY DEF OpenInv, OpenTypeOK, Disk
    <2>4. /\ disk'.made[q.at] = q.bin
          /\ \A i \in Statements : i # q.at => disk'.made[i] = disk.made[i]
      BY <1>2, <2>2, <2>3
    <2>5. /\ opener'[p] = [pc |-> IF q.at = Tables THEN "stamp" ELSE "ddl",
                           verb |-> q.verb, bin |-> q.bin, at |-> q.at + 1, heeds |-> q.heeds]
          /\ \A r \in Openers \ {p} : opener'[r] = opener[r]
          /\ opener' \in [Openers -> Opener]
      BY <1>2, <2>1, TablesType DEF OpenInv, OpenTypeOK, Opener, OpenPCs, Statements
    <2>6. OpenTypeOK'
      BY <1>1, <2>2, <2>5 DEF OpenInv, OpenTypeOK
    <2>7. \A i \in Statements : i <= q.at => disk'.made[i] = q.bin
      BY <1>2, <2>4, TablesType DEF MadeUpTo, Statements
    <2>8. Knows(p)'
      <3>1. CASE q.at = Tables
        <4>1. /\ opener'[p].pc = "stamp" /\ opener'[p].bin = q.bin
          BY <2>5, <3>1
        <4>2. MadeUpTo(Tables, opener[p].bin)'
          BY <2>7, <3>1, <4>1 DEF MadeUpTo
        <4> QED BY <1>2, <2>2, <4>1, <4>2 DEF Knows
      <3>2. CASE q.at # Tables
        <4>1. q.at + 1 \in Statements /\ (q.at + 1) - 1 = q.at
          BY <1>2, <3>2, TablesType DEF Statements
        <4>2. /\ opener'[p].pc = "ddl" /\ opener'[p].bin = q.bin
              /\ opener'[p].at = q.at + 1
          BY <2>5, <3>2
        <4>3. MadeUpTo(opener[p].at - 1, opener[p].bin)'
          BY <2>7, <4>1, <4>2 DEF MadeUpTo
        <4> QED BY <1>2, <2>2, <4>1, <4>2, <4>3 DEF Knows
      <3> QED BY <3>1, <3>2
    <2>9. \A r \in Openers \ {p} : Knows(r)'
      BY <1>4, <2>2, <2>4, <2>5, OthersKnow
    <2>10. StampedIsWhole'
      <3>1. disk.version = NoVersion
        BY <1>2, <1>4, TablesType DEF OpenInv, StampedIsWhole, MadeUpTo, Statements
      <3> QED BY <2>2, <3>1 DEF StampedIsWhole
    <2> QED BY <2>6, <2>8, <2>9, <2>10 DEF OpenInv
  <1> QED BY <1>3, <1>4

\* The version is stamped by an invocation that has run every statement itself.
LEMMA StampKeeps == ASSUME OpenInv, NEW p \in Openers, StampVersion(p) PROVE OpenInv'
  <1> DEFINE q == opener[p]
  <1>1. q.pc = "stamp" /\ UNCHANGED told
    BY DEF StampVersion
  <1>2. /\ q.bin \in Versions /\ disk.there /\ disk.meta /\ MadeUpTo(Tables, q.bin)
    BY <1>1 DEF OpenInv, Knows
  <1>3. CASE disk.version # NoVersion
    BY <1>1, <1>3, BrokenKeeps DEF StampVersion
  <1>4. CASE disk.version = NoVersion
    <2>1. /\ disk' = [disk EXCEPT !.version = q.bin]
          /\ Goto(p, "using")
      BY <1>4 DEF StampVersion
    <2>2. /\ disk' \in Disk /\ disk'.there = disk.there /\ disk'.meta = disk.meta
          /\ disk'.version = q.bin /\ disk'.made = disk.made
      BY <1>2, <2>1 DEF OpenInv, OpenTypeOK, Disk, Stamps
    <2>3. "using" \in OpenPCs
      BY DEF OpenPCs
    <2>4. Knows(p)'
      BY <1>2, <2>1, <2>2, <2>3, GotoIs DEF Knows
    <2>5. StampedIsWhole'
      BY <1>2, <2>2 DEF StampedIsWhole, MadeUpTo
    <2> QED BY <1>1, <1>2, <1>4, <2>1, <2>2, <2>3, <2>4, <2>5, GotoKeeps DEF OpenInv, OpenTypeOK
  <1> QED BY <1>3, <1>4

LEMMA OpenStep == OpenInv /\ [OpenNext]_openVars => OpenInv'
  <1> SUFFICES ASSUME OpenInv, [OpenNext]_openVars PROVE OpenInv'
    OBVIOUS
  <1>1. ASSUME NEW p \in Openers, OpenStart(p) PROVE OpenInv'
    BY <1>1, StartKeeps
  <1>2. ASSUME NEW p \in Openers, Stat(p) PROVE OpenInv'
    BY <1>2, StatKeeps
  <1>3. ASSUME NEW p \in Openers, OpenFile(p) PROVE OpenInv'
    BY <1>3, FileKeeps
  <1>4. ASSUME NEW p \in Openers, CreateMeta(p) PROVE OpenInv'
    BY <1>4, MetaKeeps
  <1>5. ASSUME NEW p \in Openers, ReadVersion(p) PROVE OpenInv'
    BY <1>5, ReadKeeps
  <1>6. ASSUME NEW p \in Openers, CreateTable(p) PROVE OpenInv'
    BY <1>6, TableKeeps
  <1>7. ASSUME NEW p \in Openers, StampVersion(p) PROVE OpenInv'
    BY <1>7, StampKeeps
  <1>8. ASSUME NEW p \in Openers, CloseStore(p) \/ OpenDies(p) PROVE OpenInv'
    BY <1>8, OthersKeep DEF CloseStore, OpenDies
  <1>9. CASE UNCHANGED openVars
    BY <1>9 DEF OpenInv, OpenTypeOK, Knows, StampedIsWhole, MadeUpTo, openVars
  <1> QED
    BY <1>1, <1>2, <1>3, <1>4, <1>5, <1>6, <1>7, <1>8, <1>9 DEF OpenNext

LEMMA OpenInvAlways == OpenSpec => []OpenInv
  <1> QED BY OpenBegins, OpenStep, PTL DEF OpenSpec

-----------------------------------------------------------------------------

\* However many invocations of however many versions create the schema, and die at
\* it, at the same time: a verb that Open lets through has under it a whole schema
\* of its own version.
THEOREM OpenCacheIsWhole == OpenSpec => []OpenIsWhole
  <1>1. OpenInv => OpenIsWhole
    <2> SUFFICES ASSUME OpenInv, NEW p \in Openers, opener[p].pc = "using"
                 PROVE  /\ disk.version = opener[p].bin
                        /\ \A i \in Statements : disk.made[i] = opener[p].bin
      BY DEF OpenIsWhole
    <2>1. disk.version = opener[p].bin /\ disk.version # NoVersion
      BY NoVersionFresh DEF OpenInv, Knows
    <2>2. MadeUpTo(Tables, disk.version)
      BY <2>1 DEF OpenInv, StampedIsWhole
    <2> QED BY <2>1, <2>2, TablesType DEF MadeUpTo, Statements
  <1> QED BY <1>1, OpenInvAlways, PTL

-----------------------------------------------------------------------------
(* Listing the cache *)

\* A row a listing has shown, or may miss for the date it shares with the last row of a
\* full page.
Accounted(r) ==
    \/ \E i \in Pages : r \in shown[i]
    \/ \E i \in Pages : Cardinality(shown[i]) = PageSize /\ LastDate(shown[i]) = date[r]

\* Before the first page there is no cursor, and then everything shown is at least as
\* new as it.
CursorIsBehind ==
    listing = "more" =>
        /\ cursor = 0 => shown = <<>>
        /\ \A i \in Pages : \A r \in shown[i] : cursor <= date[r]

\* Of the rows that stayed, those that are not accounted for are still to come.
RestIsOlder ==
    listing = "more" => \A r \in stayed : (cursor > 0 => date[r] < cursor) \/ Accounted(r)

AllAccounted == listing = "end" => \A r \in stayed : Accounted(r)

ListInv ==
    /\ ListTypeOK
    /\ limit \in Int
    /\ shown \in Seq(SUBSET Rows)
    /\ PagesGoBack
    /\ CursorIsBehind
    /\ RestIsOlder
    /\ AllAccounted

-----------------------------------------------------------------------------

LEMMA PageSizeInRange == ASSUME limit \in Int PROVE PageSize \in 1..MaxLimit
  BY ListingType DEF PageSize

\* The last date of a page is that of one of its rows, and none of them is older.
LEMMA LastDateOf ==
    ASSUME date \in [Rows -> 0..MaxDate], NEW P \in SUBSET Rows, P # {}
    PROVE  /\ LastDate(P) \in 0..MaxDate
           /\ \A r \in P : LastDate(P) <= date[r]
           /\ \E r \in P : LastDate(P) = date[r]
  <1> DEFINE D == {date[r] : r \in P}
  <1>1. D \in SUBSET Nat /\ D # {} /\ D \subseteq 0..MaxDate
    BY ListingType
  <1>2. \E x \in D : \A y \in D : x <= y
    <2> HIDE DEF D
    <2> QED BY <1>1, LeastOf
  <1>3. Min(D) \in D /\ \A y \in D : Min(D) <= y
    <2> HIDE DEF D
    <2> QED BY <1>2 DEF Min
  <1> QED BY <1>1, <1>3 DEF LastDate

\* A page is of rows of the query, and what it leaves out is no newer than it; it
\* leaves out something only if it is full.
LEMMA NewestOf ==
    ASSUME NEW S \in SUBSET Rows, NEW n \in Nat \ {0}, NEW P \in Newest(S, n)
    PROVE  /\ P \subseteq S
           /\ Cardinality(P) <= n
           /\ \A r \in S \ P : /\ Cardinality(P) = n /\ P # {}
                               /\ \A s \in P : date[s] >= date[r]
  <1>1. P \subseteq S /\ (\A r \in P, s \in S \ P : date[r] >= date[s])
        /\ Cardinality(P) = (IF Cardinality(S) < n THEN Cardinality(S) ELSE n)
    BY DEF Newest
  <1>2. IsFiniteSet(S) /\ IsFiniteSet(P)
    <2>1. N \in Nat
      BY ListingType
    <2>2. IsFiniteSet(Rows)
      BY <2>1, FS_Interval DEF Rows
    <2> QED BY <1>1, <2>2, FS_Subset
  <1>3. Cardinality(S) \in Nat /\ Cardinality(P) \in Nat
    BY <1>2, FS_CardinalityType
  <1>4. P # S => Cardinality(P) < Cardinality(S)
    BY <1>1, <1>2, <1>3, FS_Subset
  <1>5. P = {} => Cardinality(P) = 0
    BY FS_EmptySet
  <1> QED BY <1>1, <1>3, <1>4, <1>5

\* What is accounted for remains so while pages are only added.
LEMMA AccountedStays ==
    ASSUME date' = date, PageSize' = PageSize,
           \A i \in Pages : i \in Pages' /\ shown'[i] = shown[i],
           NEW r, Accounted(r)
    PROVE  Accounted(r)'
  <1>1. CASE \E i \in Pages : r \in shown[i]
    BY <1>1 DEF Accounted
  <1>2. ASSUME NEW i \in Pages, Cardinality(shown[i]) = PageSize, LastDate(shown[i]) = date[r]
        PROVE  Accounted(r)'
    <2>1. {date'[x] : x \in shown'[i]} = {date[x] : x \in shown[i]}
      OBVIOUS
    <2>2. Min({date'[x] : x \in shown'[i]}) = date'[r]
      BY <1>2, <2>1 DEF LastDate
    <2> QED BY <1>2, <2>2 DEF Accounted, LastDate
  <1> QED BY <1>1, <1>2 DEF Accounted

LEMMA ListBegins == ListInit => ListInv
  <1> SUFFICES ASSUME ListInit PROVE ListInv
    OBVIOUS
  <1>1. ListTypeOK
    BY ListingType DEF ListInit, ListTypeOK, Pages
  <1>2. PagesGoBack /\ CursorIsBehind /\ RestIsOlder /\ AllAccounted
    BY DEF ListInit, PagesGoBack, CursorIsBehind, RestIsOlder, AllAccounted, Pages
  <1> QED BY <1>1, <1>2, ListingType DEF ListInit, ListInv

LEMMA ChangeKeeps == ASSUME ListInv, Change PROVE ListInv'
  <1>1. UNCHANGED <<date, limit, cursor, listing, shown>> /\ stayed' = stayed \intersect matching'
        /\ matching' \subseteq Rows
    BY DEF Change, ListInv, ListTypeOK
  <1>2. ListTypeOK'
    BY <1>1 DEF ListInv, ListTypeOK, Pages
  <1>3. PagesGoBack' /\ CursorIsBehind'
    BY <1>1 DEF ListInv, PagesGoBack, CursorIsBehind, Pages
  <1>4. \A r : Accounted(r) => Accounted(r)'
    BY <1>1, AccountedStays DEF Pages, PageSize
  <1>5. RestIsOlder'
    BY <1>1, <1>4 DEF ListInv, RestIsOlder
  <1>6. AllAccounted'
    BY <1>1, <1>4 DEF ListInv, AllAccounted
  <1> QED BY <1>1, <1>2, <1>3, <1>5, <1>6 DEF ListInv

LEMMA ListEnvelopesKeeps == ASSUME ListInv, ListEnvelopes PROVE ListInv'
  <1>1. /\ listing = "more"
        /\ UNCHANGED <<date, matching, limit, stayed>>
    BY DEF ListEnvelopes
  <1>2. PICK P \in Newest(Older(cursor), PageSize) :
            /\ shown' = IF P = {} THEN shown ELSE Append(shown, P)
            /\ cursor' = NextCursor(P)
            /\ listing' = IF NextCursor(P) = 0 THEN "end" ELSE "more"
    BY DEF ListEnvelopes
  <1>3. PageSize \in 1..MaxLimit /\ PageSize' = PageSize
    BY <1>1, PageSizeInRange DEF ListInv, PageSize
  <1>4. Older(cursor) \in SUBSET Rows
    BY DEF Older, ListInv, ListTypeOK
  <1>5. /\ P \in SUBSET Rows /\ P \subseteq Older(cursor)
        /\ Cardinality(P) <= PageSize
        /\ \A r \in Older(cursor) \ P : /\ Cardinality(P) = PageSize /\ P # {}
                                        /\ \A s \in P : date[s] >= date[r]
    BY <1>3, <1>4, NewestOf
  <1>6. P # {} => /\ LastDate(P) \in 0..MaxDate
                  /\ \A r \in P : LastDate(P) <= date[r]
    BY <1>5, LastDateOf DEF ListInv, ListTypeOK
  <1>7. Cardinality(P) = PageSize => P # {}
    BY <1>3, FS_EmptySet
  <1>8. /\ shown \in Seq(SUBSET Rows) /\ shown' \in Seq(SUBSET Rows)
        /\ \A i \in Pages : i \in Pages' /\ shown'[i] = shown[i]
        /\ \A i \in Pages' : i \in Pages \/ (i = Len(shown) + 1 /\ P # {} /\ shown'[i] = P)
        /\ P # {} => (Len(shown) + 1 \in Pages' /\ shown'[Len(shown) + 1] = P)
    <2>1. CASE P = {}
      <3>1. shown' = shown /\ Pages' = Pages
        BY <1>2, <2>1 DEF Pages
      <3>2. shown \in Seq(SUBSET Rows)
        BY DEF ListInv
      <3> QED BY <2>1, <3>1, <3>2
    <2>2. CASE P # {}
      <3>1. shown \in Seq(SUBSET Rows) /\ shown' = Append(shown, P)
        BY <1>2, <2>2 DEF ListInv
      <3>2. /\ shown' \in Seq(SUBSET Rows) /\ Len(shown') = Len(shown) + 1
            /\ \A i \in 1..Len(shown) : shown'[i] = shown[i]
            /\ shown'[Len(shown) + 1] = P
        BY <1>5, <3>1, AppendProperties
      <3>3. Len(shown) \in Nat /\ Pages = 1..Len(shown) /\ Pages' = 1..Len(shown')
        BY <3>1, <3>2 DEF Pages
      <3> HIDE DEF Pages
      <3> QED BY <2>2, <3>1, <3>2, <3>3
    <2> QED BY <2>1, <2>2
  <1>9. \A r \in P, i \in Pages : \A s \in shown[i] : date[r] < date[s]
    <2>1. cursor \in Nat /\ date \in [Rows -> 0..MaxDate] /\ \A i \in Pages : shown[i] \subseteq Rows
      BY ListingType DEF ListInv, ListTypeOK
    <2>2. cursor = 0 => Pages = {}
      BY <1>1 DEF ListInv, CursorIsBehind, Pages
    <2>3. cursor > 0 => \A r \in P : date[r] < cursor
      BY <1>5 DEF Older
    <2>4. \A i \in Pages : \A s \in shown[i] : cursor <= date[s]
      BY <1>1 DEF ListInv, CursorIsBehind
    <2> QED BY <1>5, <2>1, <2>2, <2>3, <2>4, ListingType
  <1>10. ListTypeOK'
    <2>1. cursor' \in 0..MaxDate
      BY <1>2, <1>6, <1>7, ListingType DEF NextCursor
    <2>2. \A i \in Pages' : shown'[i] \subseteq Rows /\ Cardinality(shown'[i]) <= MaxLimit
      <3>1. Cardinality(P) <= MaxLimit
        <4>1. IsFiniteSet(Rows)
          BY ListingType, FS_Interval DEF Rows
        <4>2. Cardinality(P) \in Nat
          BY <1>5, <4>1, FS_Subset, FS_CardinalityType
        <4> QED BY <1>3, <1>5, <4>2, ListingType
      <3> QED BY <1>5, <1>8, <3>1 DEF ListInv, ListTypeOK
    <2> QED BY <1>1, <1>2, <2>1, <2>2 DEF ListInv, ListTypeOK
  <1>11. PagesGoBack'
    <2> SUFFICES ASSUME NEW i \in Pages', NEW j \in Pages', i < j,
                        NEW r \in shown'[i], NEW s \in shown'[j]
                 PROVE  date[s] < date[r]
      BY <1>1 DEF PagesGoBack
    <2>1. i \in Pages
      BY <1>8 DEF Pages
    <2>2. CASE j \in Pages
      BY <1>8, <2>1, <2>2 DEF ListInv, PagesGoBack
    <2>3. CASE j \notin Pages
      BY <1>8, <1>9, <2>1, <2>3
    <2> QED BY <2>2, <2>3
  <1>12. CursorIsBehind'
    <2> SUFFICES ASSUME listing' = "more"
                 PROVE  /\ cursor' = 0 => shown' = <<>>
                        /\ \A i \in Pages' : \A r \in shown'[i] : cursor' <= date[r]
      BY <1>1 DEF CursorIsBehind
    <2>1. cursor' # 0 /\ P # {} /\ cursor' = LastDate(P)
      BY <1>2, <1>7 DEF NextCursor
    <2>2. PICK p \in P : TRUE
      BY <2>1
    <2>3. ASSUME NEW i \in Pages', NEW r \in shown'[i]
          PROVE  cursor' <= date[r]
      <3>1. CASE i \in Pages
        <4>1. date[p] < date[r] /\ cursor' <= date[p]
          BY <1>6, <1>8, <1>9, <2>1, <3>1
        <4>2. date[p] \in Nat /\ date[r] \in Nat /\ cursor' \in Nat
          BY <1>5, <1>6, <1>8, <2>1, <3>1, ListingType DEF ListInv, ListTypeOK
        <4> QED BY <4>1, <4>2
      <3>2. CASE i \notin Pages
        BY <1>6, <1>8, <2>1, <3>2
      <3> QED BY <3>1, <3>2
    <2> QED BY <2>1, <2>3
  <1>13. ASSUME NEW r \in stayed
         PROVE  (listing' = "more" /\ cursor' > 0 /\ date[r] < cursor') \/ Accounted(r)'
    <2>1. Accounted(r) => Accounted(r)'
      BY <1>1, <1>3, <1>8, AccountedStays
    <2>2. CASE r \in P
      BY <1>8, <2>2 DEF Accounted
    <2>3. CASE r \in Older(cursor) \ P
      <3>1. /\ Cardinality(P) = PageSize /\ P # {}
            /\ \A s \in P : date[s] >= date[r]
        BY <1>5, <2>3
      <3>2. LastDate(P) >= date[r]
        <4>1. \E s \in P : LastDate(P) = date[s]
          BY <1>5, <3>1, LastDateOf DEF ListInv, ListTypeOK
        <4> QED BY <3>1, <4>1
      <3>3. CASE LastDate(P) = date[r]
        <4>1. {date'[x] : x \in shown'[Len(shown) + 1]} = {date[x] : x \in P}
          BY <1>1, <1>8, <3>1
        <4>2. Min({date'[x] : x \in shown'[Len(shown) + 1]}) = date'[r]
          BY <1>1, <3>3, <4>1 DEF LastDate
        <4>3. /\ Len(shown) + 1 \in Pages'
              /\ Cardinality(shown'[Len(shown) + 1]) = PageSize'
          BY <1>3, <1>8, <3>1
        <4> QED BY <4>2, <4>3 DEF Accounted, LastDate
      <3>4. CASE LastDate(P) # date[r]
        <4>1. cursor' = LastDate(P)
          BY <1>2, <3>1 DEF NextCursor
        <4>2. date[r] \in Nat /\ LastDate(P) \in Nat
          BY <1>6, <3>1, ListingType DEF ListInv, ListTypeOK
        <4>3. cursor' > 0 /\ date[r] < cursor'
          BY <3>2, <3>4, <4>1, <4>2
        <4> QED BY <1>2, <4>1, <4>3
      <3> QED BY <3>3, <3>4
    <2>4. r \in Older(cursor) \/ Accounted(r)
      BY <1>1 DEF ListInv, RestIsOlder, ListTypeOK, Older
    <2> QED BY <2>1, <2>2, <2>3, <2>4
  <1>14. RestIsOlder'
    BY <1>1, <1>13 DEF RestIsOlder
  <1>15. AllAccounted'
    BY <1>1, <1>13 DEF AllAccounted
  <1> QED BY <1>1, <1>8, <1>10, <1>11, <1>12, <1>14, <1>15 DEF ListInv

LEMMA ListStays == ASSUME ListInv, UNCHANGED listVars PROVE ListInv'
  <1>1. UNCHANGED <<date, matching, limit, cursor, listing, shown, stayed>>
    BY DEF listVars
  <1>2. \A r : Accounted(r) => Accounted(r)'
    BY <1>1, AccountedStays DEF Pages, PageSize
  <1>3. RestIsOlder' /\ AllAccounted'
    BY <1>1, <1>2 DEF ListInv, RestIsOlder, AllAccounted
  <1> QED BY <1>1, <1>3 DEF ListInv, ListTypeOK, PagesGoBack, CursorIsBehind, Pages

LEMMA ListStep == ListInv /\ [ListNext]_listVars => ListInv'
  BY ListStays, ListEnvelopesKeeps, ChangeKeeps DEF ListNext

LEMMA ListInvAlways == ListSpec => []ListInv
  BY ListStep, ListBegins, PTL DEF ListSpec

\* Every variable of a listing stays in its range, and no page is longer than may be.
THEOREM ListTypeCorrect == ListSpec => []ListTypeOK
  <1>1. ListInv => ListTypeOK
    BY DEF ListInv
  <1> QED BY <1>1, ListInvAlways, PTL

\* Pages go strictly back in time, whatever is synced between them.
THEOREM PagesAlwaysGoBack == ListSpec => []PagesGoBack
  <1>1. ListInv => PagesGoBack
    BY DEF ListInv
  <1> QED BY <1>1, ListInvAlways, PTL

\* What matched all along and is missing from a finished listing is tied with the last
\* row of a full page.
THEOREM MissedAreTied == ListSpec => []MissedOnlyInTies
  <1>1. ListInv => MissedOnlyInTies
    BY DEF ListInv, AllAccounted, MissedOnlyInTies, Accounted
  <1> QED BY <1>1, ListInvAlways, PTL

\* How many pages a listing may still ask for: one for each date below the cursor.
PagesToGo == IF listing = "end" THEN 0 ELSE IF cursor = 0 THEN MaxDate + 1 ELSE cursor

\* A page brings the listing nearer to its end, and nothing else moves it.
ListRunsDown ==
    \/ ListEnvelopes /\ PagesToGo' < PagesToGo
    \/ Change /\ PagesToGo' = PagesToGo

LEMMA PageIsNearer == ASSUME ListInv, ListEnvelopes PROVE PagesToGo' < PagesToGo
  <1>1. PICK P \in Newest(Older(cursor), PageSize) :
            /\ cursor' = NextCursor(P)
            /\ listing' = IF NextCursor(P) = 0 THEN "end" ELSE "more"
    BY DEF ListEnvelopes
  <1>2. /\ listing = "more" /\ cursor \in 0..MaxDate /\ MaxDate \in Nat
        /\ date \in [Rows -> 0..MaxDate] /\ Older(cursor) \in SUBSET Rows
    BY ListingType DEF ListEnvelopes, ListInv, ListTypeOK, Older
  <1>3. CASE NextCursor(P) = 0
    BY <1>1, <1>2, <1>3 DEF PagesToGo
  <1>4. CASE NextCursor(P) # 0
    <2>1. PageSize \in Nat \ {0}
      BY PageSizeInRange DEF ListInv
    <2>2. P \subseteq Older(cursor) /\ Cardinality(P) = PageSize
      BY <1>2, <1>4, <2>1, NewestOf DEF NextCursor
    <2>3. P # {}
      BY <2>1, <2>2, FS_EmptySet
    <2>4. PICK r \in P : NextCursor(P) = date[r]
      BY <1>2, <2>2, <2>3, LastDateOf DEF NextCursor
    <2>5. date[r] \in 0..MaxDate /\ (cursor > 0 => date[r] < cursor)
      BY <1>2, <2>2 DEF Older
    <2> QED BY <1>1, <1>2, <1>4, <2>4, <2>5 DEF PagesToGo
  <1> QED BY <1>3, <1>4

\* A listing whose cursors are followed has at most as many pages as there are dates,
\* and one, whatever is synced meanwhile.
THEOREM ListingRunsDown ==
    /\ ListSpec => [](PagesToGo \in 0..MaxDate + 1)
    /\ ListSpec => [][ListRunsDown]_listVars
  <1>1. ListInv => PagesToGo \in 0..MaxDate + 1
    BY ListingType DEF ListInv, ListTypeOK, PagesToGo
  <1>2. ListInv /\ [ListNext]_listVars => [ListRunsDown]_listVars
    BY PageIsNearer DEF ListNext, Change, ListRunsDown, PagesToGo
  <1>3. ListSpec => [](PagesToGo \in 0..MaxDate + 1)
    BY <1>1, ListInvAlways, PTL
  <1>4. ListSpec => [][ListRunsDown]_listVars
    BY <1>2, ListInvAlways, PTL DEF ListSpec
  <1> QED BY <1>3, <1>4

-----------------------------------------------------------------------------
(* Authorizing *)

\* A verdict that flow f may act on: a code is one that came with its state.
Sound(f, v) == v.ok => v.query = [state |-> f, has |-> "code"]

\* What is on its way to a flow, in its channel, or taken from it, was judged by it.
Heard ==
    /\ result \in [Flows -> Seq(Verdict)]
    /\ \A f \in Flows : \A i \in 1..Len(result[f]) : Sound(f, result[f][i])
    /\ \A c \in Calls :
           call[c].pc = "send" => call[c].to \in Flows /\ Sound(call[c].to, call[c].brings)
    /\ \A f \in Flows : flow[f].pc = "exchange" \/ flow[f].token =>
                            flow[f].took.query = [state |-> f, has |-> "code"]
    /\ \A f \in Flows : flow[f].token => flow[f].pc \in {"drain", "returned"}

AuthInv == AuthTypeOK /\ Heard

-----------------------------------------------------------------------------

\* A handler's verdict is one, and is sound for the flow whose handler it is.
LEMMA JudgeIsSound ==
    ASSUME NEW f \in Flows, NEW q \in Query
    PROVE  Judge(f, q) \in Verdict /\ Sound(f, Judge(f, q))
  BY DEF Judge, Verdict, Query, Sound

LEMMA AuthBegins == AuthInit => AuthInv
  BY NoFlowFresh DEF AuthInit, AuthInv, AuthTypeOK, Heard, Flow, FlowPCs, Call, CallPCs, Verdict,
     Query, NoVerdict, NoQuery, ResultCap, Sound

LEMMA BindKeeps == ASSUME AuthInv, NEW f \in Flows, Bind(f) PROVE AuthInv'
  <1>1. CASE port = NoFlow
    <2>1. /\ port' = f
          /\ pages' = pages \union {f}
          /\ flow' = [flow EXCEPT ![f].pc = "wait"]
          /\ UNCHANGED <<result, call>>
      BY <1>1 DEF Bind
    <2>2. AuthTypeOK'
      BY <1>1, <2>1, NoFlowFresh DEF AuthInv, AuthTypeOK, Bind, Flow, FlowPCs
    <2>3. Heard'
      BY <2>1 DEF AuthInv, AuthTypeOK, Heard, Bind, Flow, Sound
    <2> QED BY <2>2, <2>3 DEF AuthInv
  <1>2. CASE port # NoFlow
    <2>1. /\ flow' = [flow EXCEPT ![f].pc = "returned"]
          /\ UNCHANGED <<port, pages, result, call>>
      BY <1>2 DEF Bind
    <2>2. AuthTypeOK'
      BY <2>1, NoFlowFresh DEF AuthInv, AuthTypeOK, Bind, Flow, FlowPCs
    <2>3. Heard'
      BY <2>1 DEF AuthInv, AuthTypeOK, Heard, Bind, Flow, Sound
    <2> QED BY <2>2, <2>3 DEF AuthInv
  <1> QED BY <1>1, <1>2

LEMMA CallInKeeps == ASSUME AuthInv, NEW c \in Calls, CallIn(c) PROVE AuthInv'
  <1>1. port \in Flows
    BY DEF AuthInv, AuthTypeOK, CallIn
  <1>2. PICK q \in [state : pages, has : {"code"}] \union {NoQuery} :
            call' = [call EXCEPT ![c] = [pc |-> "send", to |-> port, brings |-> Judge(port, q)]]
    BY DEF CallIn
  <1>3. q \in Query
    BY DEF AuthInv, AuthTypeOK, Query, NoQuery
  <1>4. Judge(port, q) \in Verdict /\ Sound(port, Judge(port, q))
    BY <1>1, <1>3, JudgeIsSound
  <1>5. AuthTypeOK'
    BY <1>1, <1>2, <1>4 DEF AuthInv, AuthTypeOK, CallIn, Call, CallPCs
  <1>6. Heard'
    BY <1>1, <1>2, <1>4 DEF AuthInv, AuthTypeOK, Heard, CallIn, Sound
  <1> QED BY <1>5, <1>6 DEF AuthInv

LEMMA SendResultKeeps == ASSUME AuthInv, NEW c \in Calls, SendResult(c) PROVE AuthInv'
  <1> DEFINE f == call[c].to
  <1>1. f \in Flows /\ call[c].brings \in Verdict /\ Sound(f, call[c].brings)
    BY DEF AuthInv, AuthTypeOK, Heard, SendResult, Call
  <1>2. result' = [result EXCEPT ![f] = Append(result[f], call[c].brings)]
    BY DEF SendResult
  <1>3. /\ result[f] \in Seq(Verdict)
        /\ Len(result[f]) = 0
    BY <1>1 DEF AuthInv, Heard, SendResult, ResultCap
  <1>4. result'[f] = Append(result[f], call[c].brings) /\ Len(result'[f]) = 1
        /\ result'[f][1] = call[c].brings
    BY <1>1, <1>2, <1>3 DEF AuthInv, Heard
  <1>5. AuthTypeOK'
    <2>1. \A g \in Flows : Len(result'[g]) <= ResultCap
      BY <1>1, <1>2, <1>4 DEF AuthInv, AuthTypeOK, Heard, ResultCap
    <2>2. call' \in [Calls -> Call]
      BY DEF AuthInv, AuthTypeOK, SendResult, Call, CallPCs
    <2> QED BY <2>1, <2>2 DEF AuthInv, AuthTypeOK, SendResult
  <1>6. Heard'
    <2>1. result' \in [Flows -> Seq(Verdict)]
      BY <1>1, <1>2, <1>3 DEF AuthInv, Heard
    <2>2. \A g \in Flows : \A i \in 1..Len(result'[g]) : Sound(g, result'[g][i])
      BY <1>1, <1>2, <1>4 DEF AuthInv, Heard, Sound
    <2>3. \A d \in Calls : call'[d].pc = "send" =>
              call'[d].to \in Flows /\ Sound(call'[d].to, call'[d].brings)
      BY DEF AuthInv, AuthTypeOK, Heard, SendResult, Sound
    <2>4. UNCHANGED flow
      BY DEF SendResult
    <2> QED BY <2>1, <2>2, <2>3, <2>4 DEF AuthInv, Heard, Sound
  <1> QED BY <1>5, <1>6 DEF AuthInv

LEMMA FlushKeeps == ASSUME AuthInv, NEW c \in Calls, Flush(c) PROVE AuthInv'
  <1>1. AuthTypeOK'
    BY DEF AuthInv, AuthTypeOK, Flush, Call, CallPCs
  <1>2. Heard'
    BY DEF AuthInv, AuthTypeOK, Heard, Flush, Sound
  <1> QED BY <1>1, <1>2 DEF AuthInv

LEMMA TakeResultKeeps == ASSUME AuthInv, NEW f \in Flows, TakeResult(f) PROVE AuthInv'
  <1> DEFINE v == Head(result[f])
  <1>0. result[f] \in Seq(Verdict)
    BY DEF AuthInv, Heard
  <1>1. Len(result[f]) = 1
    <2>1. Len(result[f]) <= 1
      BY DEF AuthInv, AuthTypeOK, ResultCap
    <2>2. result[f] # <<>>
      BY DEF TakeResult
    <2>3. Len(result[f]) \in Nat \ {0}
      BY <1>0, <2>2, EmptySeq
    <2>4. \A n \in Nat \ {0} : n <= 1 => n = 1
      OBVIOUS
    <2> QED BY <2>1, <2>3, <2>4
  <1>2. v \in Verdict /\ Sound(f, v)
    <2>1. v = result[f][1] /\ v \in Verdict
      BY <1>0, <1>1
    <2>2. \A i \in 1..Len(result[f]) : Sound(f, result[f][i])
      BY DEF AuthInv, Heard
    <2>3. Sound(f, result[f][1])
      BY <1>1, <2>2
    <2> QED BY <2>1, <2>3
  <1>3. Tail(result[f]) = <<>>
    <2>1. result[f] # <<>>
      BY DEF TakeResult
    <2>2. Tail(result[f]) \in Seq(Verdict) /\ Len(Tail(result[f])) = Len(result[f]) - 1
      BY <1>0, <2>1, HeadTailProperties
    <2>3. Len(Tail(result[f])) = 0
      BY <1>1, <2>2
    <2> QED BY <2>2, <2>3, EmptySeq
  <1>4. result' = [result EXCEPT ![f] = <<>>]
    BY <1>3 DEF TakeResult
  <1> HIDE DEF v
  <1>5. /\ flow'[f].pc = (IF v.ok THEN "exchange" ELSE "drain")
        /\ flow'[f].took = v /\ flow'[f].token = flow[f].token
        /\ \A g \in Flows \ {f} : flow'[g] = flow[g]
        /\ flow' \in [Flows -> Flow]
    <2>1. flow \in [Flows -> Flow]
      BY DEF AuthInv, AuthTypeOK
    <2>2. flow' = [flow EXCEPT ![f].pc = IF v.ok THEN "exchange" ELSE "drain", ![f].took = v]
      BY DEF TakeResult, v
    <2> QED BY <1>2, <2>1, <2>2 DEF Flow, FlowPCs
  <1>6. port' = IF v.ok THEN port ELSE NoFlow
    BY DEF TakeResult, v
  <1>7. port = f
    BY DEF AuthInv, AuthTypeOK, TakeResult
  <1>8. ~flow[f].token
    BY DEF AuthInv, AuthTypeOK, Heard, TakeResult, Flow
  <1>9. AuthTypeOK'
    <2>1. flow' \in [Flows -> Flow]
      BY <1>5
    <2>2. \A g \in Flows : port' = g <=> flow'[g].pc \in {"wait", "exchange"}
      BY <1>5, <1>6, <1>7, NoFlowFresh DEF AuthInv, AuthTypeOK
    <2>3. \A g \in Flows : Len(result'[g]) <= ResultCap
      BY <1>4 DEF AuthInv, AuthTypeOK, Heard, ResultCap
    <2> QED BY <1>6, <2>1, <2>2, <2>3 DEF AuthInv, AuthTypeOK, TakeResult
  <1>10. Heard'
    <2>1. result' \in [Flows -> Seq(Verdict)]
      BY <1>4 DEF AuthInv, Heard
    <2>2. \A g \in Flows : \A i \in 1..Len(result'[g]) : Sound(g, result'[g][i])
      BY <1>4 DEF AuthInv, Heard, Sound
    <2>3. \A g \in Flows : flow'[g].pc = "exchange" \/ flow'[g].token =>
                               flow'[g].took.query = [state |-> g, has |-> "code"]
      BY <1>2, <1>5, <1>8 DEF AuthInv, AuthTypeOK, Heard, Sound
    <2>4. \A g \in Flows : flow'[g].token => flow'[g].pc \in {"drain", "returned"}
      BY <1>5, <1>8 DEF AuthInv, AuthTypeOK, Heard
    <2>5. UNCHANGED call
      BY DEF TakeResult
    <2> QED BY <2>1, <2>2, <2>3, <2>4, <2>5 DEF AuthInv, Heard, Sound
  <1> QED BY <1>9, <1>10 DEF AuthInv

\* Leaving with a token needs that a code is being exchanged.
LEMMA LeaveKeeps ==
    ASSUME AuthInv, NEW f \in Flows, NEW token \in BOOLEAN, Leave(f, token),
           flow[f].pc \in {"wait", "exchange"}, token => flow[f].pc = "exchange",
           UNCHANGED <<result, call, pages>>
    PROVE  AuthInv'
  <1>1. /\ flow'[f].pc = "drain" /\ flow'[f].took = flow[f].took /\ flow'[f].token = token
        /\ \A g \in Flows \ {f} : flow'[g] = flow[g]
        /\ flow' \in [Flows -> Flow]
    <2>1. flow \in [Flows -> Flow]
      BY DEF AuthInv, AuthTypeOK
    <2>2. flow' = [flow EXCEPT ![f].pc = "drain", ![f].token = token]
      BY DEF Leave
    <2> QED BY <2>1, <2>2 DEF Flow, FlowPCs
  <1>2. port = f /\ port' = NoFlow
    BY DEF AuthInv, AuthTypeOK, Leave
  <1>3. AuthTypeOK'
    BY <1>1, <1>2, NoFlowFresh DEF AuthInv, AuthTypeOK, Flow, FlowPCs
  <1>4. \A g \in Flows : flow'[g].pc = "exchange" \/ flow'[g].token =>
                             flow'[g].took.query = [state |-> g, has |-> "code"]
    BY <1>1 DEF AuthInv, AuthTypeOK, Heard
  <1>5. \A g \in Flows : flow'[g].token => flow'[g].pc \in {"drain", "returned"}
    BY <1>1 DEF AuthInv, AuthTypeOK, Heard
  <1>6. Heard'
    BY <1>4, <1>5 DEF AuthInv, Heard, Sound
  <1> QED BY <1>3, <1>6 DEF AuthInv

LEMMA ShutdownKeeps == ASSUME AuthInv, NEW f \in Flows, Shutdown(f) PROVE AuthInv'
  <1>1. /\ flow'[f].pc = "returned" /\ flow'[f].took = flow[f].took
        /\ flow'[f].token = flow[f].token
        /\ \A g \in Flows \ {f} : flow'[g] = flow[g]
        /\ flow' \in [Flows -> Flow]
    <2>1. flow \in [Flows -> Flow]
      BY DEF AuthInv, AuthTypeOK
    <2>2. flow' = [flow EXCEPT ![f].pc = "returned"]
      BY DEF Shutdown
    <2> QED BY <2>1, <2>2 DEF Flow, FlowPCs
  <1>2. \A c \in Calls : call'[c] = call[c] \/ call'[c] = [call[c] EXCEPT !.pc = "cut"]
    BY DEF Shutdown
  <1>3. call' \in [Calls -> Call]
    BY DEF AuthInv, AuthTypeOK, Shutdown, Call, CallPCs
  <1>4. AuthTypeOK'
    BY <1>1, <1>3 DEF AuthInv, AuthTypeOK, Shutdown, Flow, FlowPCs
  <1>5. \A c \in Calls : call'[c].pc = "send" =>
            call'[c].to \in Flows /\ Sound(call'[c].to, call'[c].brings)
    <2> SUFFICES ASSUME NEW c \in Calls, call'[c].pc = "send"
                 PROVE  call'[c].to \in Flows /\ Sound(call'[c].to, call'[c].brings)
      OBVIOUS
    <2>1. call[c] \in Call
      BY DEF AuthInv, AuthTypeOK
    <2>2. call'[c] = call[c]
      BY <1>2, <2>1 DEF Call
    <2> QED BY <2>2 DEF AuthInv, Heard
  <1>6. \A g \in Flows : flow'[g].pc = "exchange" \/ flow'[g].token =>
                             flow'[g].took.query = [state |-> g, has |-> "code"]
    BY <1>1 DEF AuthInv, AuthTypeOK, Heard
  <1>7. \A g \in Flows : flow'[g].token => flow'[g].pc \in {"drain", "returned"}
    BY <1>1 DEF AuthInv, AuthTypeOK, Heard
  <1>8. Heard'
    BY <1>5, <1>6, <1>7 DEF AuthInv, Heard, Shutdown, Sound
  <1> QED BY <1>4, <1>8 DEF AuthInv

LEMMA AuthStep == AuthInv /\ [AuthNext]_authVars => AuthInv'
  <1> SUFFICES ASSUME AuthInv, [AuthNext]_authVars PROVE AuthInv'
    OBVIOUS
  <1>1. ASSUME NEW f \in Flows, Bind(f) PROVE AuthInv'
    BY <1>1, BindKeeps
  <1>2. ASSUME NEW f \in Flows, TakeResult(f) PROVE AuthInv'
    BY <1>2, TakeResultKeeps
  <1>3. ASSUME NEW f \in Flows, GiveUpWaiting(f) PROVE AuthInv'
    BY <1>3, LeaveKeeps DEF GiveUpWaiting
  <1>4. ASSUME NEW f \in Flows, Exchange(f) PROVE AuthInv'
    BY <1>4, LeaveKeeps DEF Exchange
  <1>5. ASSUME NEW f \in Flows, Shutdown(f) PROVE AuthInv'
    BY <1>5, ShutdownKeeps
  <1>6. ASSUME NEW c \in Calls, CallIn(c) PROVE AuthInv'
    BY <1>6, CallInKeeps
  <1>7. ASSUME NEW c \in Calls, CallStep(c) PROVE AuthInv'
    BY <1>7, SendResultKeeps, FlushKeeps DEF CallStep
  <1>8. CASE UNCHANGED authVars
    BY <1>8 DEF AuthInv, AuthTypeOK, Heard, authVars, Sound, Flow, Call, Active
  <1> QED
    BY <1>1, <1>2, <1>3, <1>4, <1>5, <1>6, <1>7, <1>8 DEF AuthNext, FlowStep

LEMMA AuthInvAlways == AuthSpec => []AuthInv
  <1> QED BY AuthBegins, AuthStep, PTL DEF AuthSpec

-----------------------------------------------------------------------------

\* Every variable of the consent flow stays in its range: above all, the listener of
\* Authorize is there exactly while a flow waits or exchanges, and its channel never
\* holds more than it has room for.
THEOREM AuthTypeCorrect == AuthSpec => []AuthTypeOK
  <1>1. AuthInv => AuthTypeOK
    BY DEF AuthInv
  <1> QED BY <1>1, AuthInvAlways, PTL

\* Authorize returns a token only for a code that came with the state of that very
\* flow, however many flows have used the port before and whatever browsers send it.
THEOREM TokensAreOwn == AuthSpec => []TokenOfOwnConsent
  <1>1. AuthInv => TokenOfOwnConsent
    BY DEF AuthInv, Heard, TokenOfOwnConsent
  <1> QED BY <1>1, AuthInvAlways, PTL

-----------------------------------------------------------------------------
(* Using the config *)

\* The authentications of an account, of both its backends.
Auths == {account.backend.auth} \union {b.auth : b \in account.send}

\* What a good report of doctor's says.
Vouched ==
    /\ \A a \in Auths : SecretsResolve(a)
    /\ account.backend.auth.type = "oauth2" => HasWriteCmd(account.backend.auth)

UseInv ==
    /\ UseTypeOK
    /\ use.pc = "load" => report = "none"
    /\ use.pc = "open" => AccountIsValid(account)
    /\ report = "ok" => Vouched
    /\ LoadedOpens
    /\ DoctorVouches

-----------------------------------------------------------------------------

\* The token source of a block that loads wants a write_cmd and readable secrets, and
\* nothing else.
LEMMA TokenSourceOfValid ==
    ASSUME NEW a, AuthIsValid(a), a.type = "oauth2", NEW how \in TokenSourceEnds(a)
    PROVE  \/ how \in {"refused", "opened"}
           \/ how = "nowritecmd" /\ ~HasWriteCmd(a)
           \/ how = "nosecret" /\ ~SecretsResolve(a)
  <1>1. a.clientId
    BY DEF AuthIsValid, PasswordIsValid, OAuth2IsValid
  <1>2. ~AllReadable(a.clientSecret) \/ ~AllReadable(a.refresh) => ~SecretsResolve(a)
    BY DEF SecretsResolve, AllReadable
  <1> QED BY <1>1, <1>2 DEF TokenSourceEnds

\* A connection to a server whose block loads fails in no other way than that, but for
\* a password that would be sent in clear.
LEMMA DialOfValid ==
    ASSUME NEW b, NetworkIsValid(b), NEW sending \in BOOLEAN, NEW how \in DialEnds(b, sending)
    PROVE  \/ how \in {"refused", "opened"}
           \/ how = "cleartext" /\ sending /\ b.encryption = "none" /\ b.auth.type = "password"
           \/ how = "nowritecmd" /\ b.auth.type = "oauth2" /\ ~HasWriteCmd(b.auth)
           \/ how = "nosecret" /\ ~SecretsResolve(b.auth)
  <1>1. b.encryption \in {"tls", "start-tls", "none"} /\ AuthIsValid(b.auth)
    BY DEF NetworkIsValid
  <1>2. how = "refused" \/ how \in AuthenticateEnds(b, sending)
    BY <1>1 DEF DialEnds
  <1>3. CASE b.auth.type = "password"
    BY <1>2, <1>3 DEF AuthenticateEnds, SecretsResolve
  <1>4. CASE b.auth.type = "oauth2"
    <2>1. how = "refused" \/ how \in TokenSourceEnds(b.auth)
      BY <1>2, <1>4 DEF AuthenticateEnds
    <2> QED BY <1>1, <1>4, <2>1, TokenSourceOfValid
  <1>5. b.auth.type \in {"password", "oauth2"}
    BY <1>1 DEF AuthIsValid
  <1> QED BY <1>3, <1>4, <1>5

\* How reading ends with an account that loads.
LEMMA ReadOfValid ==
    ASSUME AccountIsValid(account), NEW how \in ReadEnds(account)
    PROVE  LET a == account.backend.auth
           IN  \/ how \in {"refused", "opened"}
               \/ how = "nowritecmd" /\ a.type = "oauth2" /\ ~HasWriteCmd(a)
               \/ how = "nosecret" /\ ~SecretsResolve(a)
  <1>1. ReadIsValid(account.backend)
    BY DEF AccountIsValid
  <1>2. CASE account.backend.type = "gmail"
    <2>1. AuthIsValid(account.backend.auth) /\ account.backend.auth.type = "oauth2"
      BY <1>1, <1>2 DEF ReadIsValid
    <2>2. how \in TokenSourceEnds(account.backend.auth)
      BY <1>2 DEF ReadEnds
    <2> QED BY <2>1, <2>2, TokenSourceOfValid
  <1>3. CASE account.backend.type = "imap"
    <2>1. NetworkIsValid(account.backend)
      BY <1>1, <1>3 DEF ReadIsValid
    <2>2. how \in DialEnds(account.backend, FALSE)
      BY <1>3 DEF ReadEnds
    <2> QED BY <2>1, <2>2, DialOfValid
  <1> QED BY <1>1, <1>2, <1>3 DEF ReadIsValid

\* How sending does.
LEMMA SendOfValid ==
    ASSUME AccountIsValid(account), NEW how \in SendEnds(account)
    PROVE  \/ how \in {"refused", "opened"}
           \/ \E b \in account.send :
                  /\ how = "cleartext" /\ b.encryption = "none" /\ b.auth.type = "password"
                  /\ account.backend.type = "imap"
           \/ \E b \in account.send \union {account.backend} :
                  /\ how = "nowritecmd" /\ b.auth.type = "oauth2" /\ ~HasWriteCmd(b.auth)
                  /\ account.backend.type = "imap" \/ b = account.backend
           \/ how = "nosecret" /\ \E a \in Auths : ~SecretsResolve(a)
  <1>1. ReadIsValid(account.backend)
    BY DEF AccountIsValid
  <1>2. CASE account.backend.type = "gmail"
    <2>1. AuthIsValid(account.backend.auth) /\ account.backend.auth.type = "oauth2"
      BY <1>1, <1>2 DEF ReadIsValid
    <2>2. how \in TokenSourceEnds(account.backend.auth)
      BY <1>2 DEF SendEnds
    <2> QED BY <2>1, <2>2, TokenSourceOfValid DEF Auths
  <1>3. CASE account.backend.type = "imap"
    <2>1. account.send # {} /\ \A b \in account.send : SendIsValid(b)
      BY <1>3 DEF AccountIsValid
    <2>2. how \in UNION {DialEnds(b, TRUE) : b \in account.send}
      BY <1>3, <2>1 DEF SendEnds, SendIsValid
    <2>3. PICK b \in account.send : how \in DialEnds(b, TRUE)
      BY <2>2
    <2>4. NetworkIsValid(b)
      BY <2>1 DEF SendIsValid
    <2> QED BY <1>3, <2>3, <2>4, DialOfValid DEF Auths
  <1> QED BY <1>1, <1>2, <1>3 DEF ReadIsValid

LEMMA UseBegins == UseInit => UseInv
  BY DEF UseInit, UseInv, UseTypeOK, Use, Ends, Variants, LoadedOpens, DoctorVouches

LEMMA LoadKeeps == ASSUME UseInv, Load PROVE UseInv'
  <1>1. use.pc = "load" /\ report = "none" /\ use \in Use /\ UNCHANGED <<account, works, report>>
    BY DEF UseInv, UseTypeOK, Load
  <1>2. CASE AccountIsValid(account)
    <2>1. use' = [use EXCEPT !.pc = "open"]
      BY <1>2 DEF Load
    <2>2. use' \in Use /\ use'.pc = "open" /\ use'.how = use.how
      BY <1>1, <2>1 DEF Use
    <2>3. AccountIsValid(account')
      BY <1>1, <1>2
    <2> QED BY <1>1, <2>2, <2>3 DEF UseInv, UseTypeOK, LoadedOpens, DoctorVouches, AccountIsValid
  <1>3. CASE ~AccountIsValid(account)
    <2>1. use' = [use EXCEPT !.pc = "end", !.how = "invalid"]
      BY <1>3 DEF Load
    <2>2. use' \in Use /\ use'.pc = "end" /\ use'.how = "invalid"
      BY <1>1, <2>1 DEF Use, Ends
    <2> QED BY <1>1, <2>2 DEF UseInv, UseTypeOK, LoadedOpens, DoctorVouches
  <1> QED BY <1>2, <1>3

LEMMA DoctorKeeps == ASSUME UseInv, Doctor PROVE UseInv'
  <1> DEFINE read == account.backend.auth
             resolve == \A a \in {read} \union {b.auth : b \in account.send} : SecretsResolve(a)
  <1>1. use.pc = "open" /\ UNCHANGED <<account, works, use>>
    BY DEF Doctor
  <1>2. report' \in {"ok", "fail"}
    BY DEF Doctor
  <1>3. report' = "ok" => resolve /\ (read.type = "oauth2" => HasWriteCmd(read))
    BY DEF Doctor
  <1>4. report' = "ok" => Vouched
    BY <1>3 DEF Vouched, Auths
  <1>5. Vouched => Vouched'
    BY <1>1 DEF Vouched, Auths, SecretsResolve, Readable, AllReadable, HasWriteCmd
  <1>6. AccountIsValid(account) => AccountIsValid(account')
    BY <1>1
  <1> QED BY <1>1, <1>2, <1>4, <1>5, <1>6
          DEF UseInv, UseTypeOK, LoadedOpens, DoctorVouches

LEMMA OpenForKeeps == ASSUME UseInv, OpenFor PROVE UseInv'
  <1>1. use.pc = "open" /\ UNCHANGED <<account, works, report>> /\ AccountIsValid(account)
    BY DEF OpenFor, UseInv
  <1>2. Vouched => Vouched'
    BY <1>1 DEF Vouched, Auths, SecretsResolve, Readable, AllReadable, HasWriteCmd
  <1>3. ASSUME NEW verb \in {"read", "send", "auth"}, NEW how \in Ends,
               use' = [verb |-> verb, pc |-> "end", how |-> how],
               how # "unsupported",
               how = "cleartext" =>
                   \E b \in account.send : b.encryption = "none" /\ b.auth.type = "password",
               how = "nowritecmd" =>
                   \E b \in {account.backend} \union (IF verb = "send" THEN account.send ELSE {}) :
                       b.auth.type = "oauth2" /\ ~HasWriteCmd(b.auth),
               Vouched =>
                   \/ how \in {"refused", "opened"}
                   \/ verb = "auth" /\ how = "notoauth"
                   \/ /\ verb = "send" /\ account.backend.type = "imap"
                      /\ how \in {"cleartext", "nowritecmd"}
        PROVE  UseInv'
    <2>1. use' \in Use /\ use'.verb = verb /\ use'.pc = "end" /\ use'.how = how
          /\ how # "none"
      BY <1>3 DEF Use, Ends
    <2>2. UseTypeOK'
      BY <1>1, <2>1 DEF UseInv, UseTypeOK
    <2>3. LoadedOpens'
      BY <1>1, <1>3, <2>1 DEF LoadedOpens, Used, HasWriteCmd
    <2>4. DoctorVouches'
      BY <1>1, <1>3, <2>1 DEF UseInv, DoctorVouches
    <2> QED BY <1>1, <1>2, <2>1, <2>2, <2>3, <2>4 DEF UseInv
  <1>4. CASE \E how \in ReadEnds(account) : use' = [verb |-> "read", pc |-> "end", how |-> how]
    <2>1. PICK how \in ReadEnds(account) : use' = [verb |-> "read", pc |-> "end", how |-> how]
      BY <1>4
    <2>2. \/ how \in {"refused", "opened"}
          \/ /\ how = "nowritecmd" /\ account.backend.auth.type = "oauth2"
             /\ ~HasWriteCmd(account.backend.auth)
          \/ how = "nosecret" /\ ~SecretsResolve(account.backend.auth)
      BY <1>1, ReadOfValid
    <2>3. Vouched => how \in {"refused", "opened"}
      BY <2>2 DEF Vouched, Auths
    <2>4. how \in Ends
      BY <2>2 DEF Ends
    <2> QED BY <1>3, <2>1, <2>2, <2>3, <2>4
  <1>5. CASE \E how \in SendEnds(account) : use' = [verb |-> "send", pc |-> "end", how |-> how]
    <2>1. PICK how \in SendEnds(account) : use' = [verb |-> "send", pc |-> "end", how |-> how]
      BY <1>5
    <2>2. \/ how \in {"refused", "opened"}
          \/ \E b \in account.send :
                  /\ how = "cleartext" /\ b.encryption = "none" /\ b.auth.type = "password"
                  /\ account.backend.type = "imap"
          \/ \E b \in account.send \union {account.backend} :
                  /\ how = "nowritecmd" /\ b.auth.type = "oauth2" /\ ~HasWriteCmd(b.auth)
                  /\ account.backend.type = "imap" \/ b = account.backend
          \/ how = "nosecret" /\ \E a \in Auths : ~SecretsResolve(a)
      BY <1>1, SendOfValid
    <2>3. Vouched => \/ how \in {"refused", "opened"}
                     \/ account.backend.type = "imap" /\ how \in {"cleartext", "nowritecmd"}
      BY <2>2 DEF Vouched, Auths
    <2>4. how \in Ends
      BY <2>2 DEF Ends
    <2> QED BY <1>3, <2>1, <2>2, <2>3, <2>4
  <1>6. CASE \E how \in AuthEnds(account) : use' = [verb |-> "auth", pc |-> "end", how |-> how]
    <2> DEFINE a == account.backend.auth
    <2>1. PICK how \in AuthEnds(account) : use' = [verb |-> "auth", pc |-> "end", how |-> how]
      BY <1>6
    <2>2. \/ how = "notoauth"
          \/ how = "nowritecmd" /\ a.type = "oauth2" /\ ~HasWriteCmd(a)
          \/ how \in {"refused", "opened"}
          \/ how = "nosecret" /\ a.type = "oauth2" /\ ~AllReadable(a.clientSecret)
      BY DEF AuthEnds
    <2>3. Vouched => how \in {"refused", "opened", "notoauth"}
      BY <2>2 DEF Vouched, Auths, SecretsResolve, AllReadable
    <2>4. how \in Ends
      BY <2>2 DEF Ends
    <2> QED BY <1>3, <2>1, <2>2, <2>3, <2>4
  <1> QED BY <1>4, <1>5, <1>6 DEF OpenFor

LEMMA UseStays == ASSUME UseInv, UNCHANGED useVars PROVE UseInv'
  <1>1. UNCHANGED <<account, works, use, report>>
    BY DEF useVars
  <1>2. Vouched => Vouched'
    BY <1>1 DEF Vouched, Auths, SecretsResolve, Readable, AllReadable, HasWriteCmd
  <1>3. AccountIsValid(account) => AccountIsValid(account')
    BY <1>1
  <1>4. LoadedOpens'
    BY <1>1 DEF UseInv, LoadedOpens, Used, HasWriteCmd
  <1> QED BY <1>1, <1>2, <1>3, <1>4 DEF UseInv, UseTypeOK, DoctorVouches

LEMMA UseStep == UseInv /\ [UseNext]_useVars => UseInv'
  BY UseStays, LoadKeeps, DoctorKeeps, OpenForKeeps DEF UseNext

LEMMA UseInvAlways == UseSpec => []UseInv
  BY UseStep, UseBegins, PTL DEF UseSpec

\* Every variable of a verb that uses an account block stays in its range.
THEOREM UseTypeCorrect == UseSpec => []UseTypeOK
  <1>1. UseInv => UseTypeOK
    BY DEF UseInv
  <1> QED BY <1>1, UseInvAlways, PTL

\* Whatever blocks the file has, one that loads is never found unusable further down.
THEOREM LoadedBlocksOpen == UseSpec => []LoadedOpens
  <1>1. UseInv => LoadedOpens
    BY DEF UseInv
  <1> QED BY <1>1, UseInvAlways, PTL

\* Whatever blocks the file has, what doctor calls healthy is not refused for its block
\* or its secrets, but to send in the two ways that doctor does not look for.
THEOREM DoctorIsRight == UseSpec => []DoctorVouches
  <1>1. UseInv => DoctorVouches
    BY DEF UseInv
  <1> QED BY <1>1, UseInvAlways, PTL

-----------------------------------------------------------------------------
(* All of them, in the instance *)

MCInv == OpenInv /\ ListInv /\ SendInv /\ AuthInv /\ FetchInv /\ UseInv

\* A part that rests is in a state its own behaviours may be in.
LEMMA RestsAreStates ==
    /\ ListRest => ListInv
    /\ SendRest => SendInv
    /\ ThreadRest => FetchInv
    /\ UseRest => UseInv
  <1>1. ASSUME ListRest PROVE ListInv
    <2>1. shown = <<>> /\ Pages = {} /\ stayed = {} /\ listing = "end"
      BY <1>1 DEF ListRest, Pages
    <2>2. date \in [Rows -> 0..MaxDate]
      BY <1>1, ListingType DEF ListRest
    <2> QED
      BY <1>1, <2>1, <2>2, ListingType
      DEF ListRest, ListInv, ListTypeOK, PagesGoBack, CursorIsBehind, RestIsOlder, AllAccounted
  <1>2. ASSUME SendRest PROVE SendInv
    <2>1. <<ann, Plainly>> \in Texts
      BY InstanceType DEF Plainly, Texts, Addresses
    <2>2. Blank \in Command
      <3>1. Nowhere \in Place /\ <<>> \in SeqOf(Texts, MaxOthers)
        BY BoundsType DEF Nowhere, Place, SeqOf
      <3> QED BY <3>1 DEF Blank, Command, Texts
    <2>3. mail \in Command
      BY <1>2, <2>1, <2>2 DEF SendRest, Command
    <2>4. wire \in Wire
      BY <1>2, BoundsType DEF SendRest, Wire, WirePCs
    <2>5. DeliveredTo(0)
      BY <1>2 DEF SendRest, DeliveredTo
    <2>6. Deliveries
      BY <1>2, <2>5 DEF SendRest, Deliveries
    <2>7. CopiesOfRaw
      BY <1>2 DEF SendRest, CopiesOfRaw
    <2> QED BY <1>2, <2>3, <2>4, <2>6, <2>7 DEF SendRest, SendInv, NamedInTurn, LossesPerRun
  <1>3. ASSUME ThreadRest PROVE FetchInv
    <2>1. MaxUid \in Nat /\ 1 \in Uids
      BY MaxUidType DEF Uids
    <2>2. above \in RepliesTo
      BY <1>3, <2>1 DEF ThreadRest, RepliesTo, Uids
    <2>3. thread \in Thread
      BY <1>3, <2>1 DEF ThreadRest, Thread, ThreadPCs
    <2> QED
      BY <1>3, <2>1, <2>2, <2>3
      DEF ThreadRest, FetchInv, ThreadTypeOK, Chosen, AnswerIsTheThread, InvalidMeansGone
  <1>4. ASSUME UseRest PROVE UseInv
    BY <1>4 DEF UseRest, UseInv, UseTypeOK, Use, LoadedOpens, DoctorVouches
  <1> QED BY <1>1, <1>2, <1>3, <1>4

LEMMA InstanceBegins == MCInit => MCInv
  BY OpenBegins, ListBegins, SendBegins, AuthBegins, ThreadBegins, UseBegins, RestsAreStates
  DEF MCInit, MCInv

LEMMA InstanceStep == MCInv /\ [MCNext]_restVars => MCInv'
  <1> SUFFICES ASSUME MCInv, [MCNext]_restVars PROVE MCInv'
    OBVIOUS
  <1>1. /\ [OpenNext]_openVars /\ [ListNext]_listVars /\ [SendNext]_sendVars
        /\ [AuthNext]_authVars /\ [ThreadNext]_threadVars /\ [UseNext]_useVars
    BY DEF MCNext, restVars
  <1> QED BY <1>1, OpenStep, ListStep, SendStep, AuthStep, ThreadStep, UseStep DEF MCInv

LEMMA InstanceInvAlways == MCSpec => []MCInv
  BY InstanceBegins, InstanceStep, PTL DEF MCSpec

\* In an instance of all of these modules at once, whatever its constants, the
\* variables of every part stay in their ranges, those of the part that moves and
\* those of the parts that rest.
THEOREM InstanceTypeCorrect == MCSpec => []TypesOK
  <1>1. MCInv => TypesOK
    BY SendTypes DEF MCInv, OpenInv, ListInv, AuthInv, FetchInv, UseInv, TypesOK
  <1> QED BY <1>1, InstanceInvAlways, PTL
=============================================================================
