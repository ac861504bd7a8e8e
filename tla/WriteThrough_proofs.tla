------------------------- MODULE WriteThrough_proofs -------------------------
(***************************************************************************)
(* Proofs about WriteThrough, for any number of messages, folders, flags,  *)
(* invocations and accounts: a cached row is wrong only in what is under   *)
(* way or in doubt.                                                        *)
(***************************************************************************)
EXTENDS WriteThrough, TLAPS

-----------------------------------------------------------------------------
(* The inductive invariant *)

\* The aspects that invocations other than a sync, which changes no message and
\* whose page may lack some, have under way.
Changing == UNION {Concern(proc[p]) : p \in {r \in Procs : proc[r].pc # "put"}}

\* The messages for which an invocation has done its part on the server, ...
Pushed(q) ==
    {n \in q.ids : \/ q.pc \in {"store", "unstore"} /\ FolderOf[n] \notin q.left
                   \/ q.pc = "call" /\ n \notin q.rest
                   \/ q.pc = "flags"}

\* ... its first half, ...
Half(q) == {n \in q.ids : q.pc = "unstore" /\ FolderOf[n] = q.at}

\* ... and its part on the cache.
Written(q) == {n \in q.ids : q.pc = "flags" /\ n \notin q.todo}

\* The flag a of n is on the server as q has asked for; a flag that is both added
\* and removed may be either way.
ServerRight(q, n, a) ==
    \/ server[n] = Gone
    \/ /\ a \in q.add \ q.rem => a \in server[n]
       /\ a \in q.rem \ q.add => a \notin server[n]

RowRight(q, n, a) == row[n] = NoRow \/ (a \in row[n] <=> a \in q.add)

\* What a sync has fetched of the aspect a of n is still so.
Fresh(q, n, a) ==
    IF a = Gone THEN server[n] # Gone
    ELSE server[n] = Gone \/ (a \in server[n] <=> a \in q.got[n])

\* What an invocation may rely on, in every aspect in which nobody raced it.
Claims(q) ==
    /\ \A n \in Pushed(q), a \in q.add \union q.rem :
           <<n, a>> \notin q.raced => ServerRight(q, n, a)
    /\ \A n \in Half(q), a \in q.add :
           <<n, a>> \notin q.raced => server[n] = Gone \/ a \in server[n]
    /\ \A n \in Written(q), a \in q.add \union q.rem :
           <<n, a>> \notin q.raced => RowRight(q, n, a) /\ a \notin q.add \intersect q.rem
    /\ q.pc = "put" =>
           \A n \in Msgs, a \in Aspects :
               q.got[n] # Gone /\ <<n, a>> \notin q.raced => Fresh(q, n, a)

\* An invocation is about the account at hand, and about what it concerns.
Fits(q) ==
    /\ q.add \union q.rem \subseteq site.marks
    /\ q.raced \subseteq Concern(q)
    /\ q.todo \union q.rest \subseteq q.ids
    /\ q.at \in IF q.pc \in {"unstore", "expunge"} THEN q.left ELSE {NoFolder}
    /\ q.pc \in {"store", "unstore"} \/ (q.pc = "call" /\ q.verb = "flag") => q.ids \subseteq q.todo
    /\ q.pc = "put" => \A n \in Msgs : q.got[n] = Gone \/ (n \in q.ids /\ q.got[n] \subseteq site.marks)
    /\ q.pc \in {"mark", "expunge", "purge"} => ~site.gmail

Contents ==
    /\ server \in [Msgs -> Value \union {Gone}]
    /\ row \in [Msgs -> Value \union {NoRow}]
    /\ \A n \in Msgs : server[n] = Gone \/ server[n] \subseteq site.marks
    /\ \A n \in Msgs : row[n] = NoRow \/ row[n] \subseteq site.marks

Typed ==
    /\ TypeOK
    /\ Contents
    /\ \A p \in Procs : Fits(proc[p])

\* Two invocations that concern one aspect both know that they are raced in it.
Shared ==
    \A p, r \in Procs :
        p # r => Concern(proc[p]) \intersect Concern(proc[r]) \subseteq proc[p].raced

\* Everything in which a row is wrong.
AllWrong == UNION {Wrong(m) : m \in Msgs}

Covered == AllWrong \subseteq doubt \union Changing

IInv ==
    /\ Typed
    /\ Shared
    /\ Covered
    /\ \A p \in Procs : Claims(proc[p])

-----------------------------------------------------------------------------
(* What a step leaves alone *)

\* The verbs that concern the flags they name; all others concern messages whole.
Flagging(q) ==
    \/ q.pc \in {"store", "unstore", "flags", "read"}
    \/ q.pc = "call" /\ q.verb \in {"flag", "copy"}

\* z is q, but for what it knows it was raced in.
Alike(q, z) ==
    /\ z.pc = q.pc /\ z.ids = q.ids /\ z.add = q.add /\ z.rem = q.rem /\ z.left = q.left
    /\ z.at = q.at /\ z.todo = q.todo /\ z.verb = q.verb /\ z.rest = q.rest /\ z.got = q.got
    /\ q.raced \subseteq z.raced

\* The server, and the cache, say of the aspect a of n what they did, or no longer
\* have anything that could say it.
SameServer(n, a) ==
    IF a = Gone THEN server'[n] = Gone => server[n] = Gone
    ELSE server'[n] = Gone \/ (server[n] # Gone /\ (a \in server'[n] <=> a \in server[n]))

SameRow(n, a) == row'[n] = NoRow \/ (row[n] # NoRow /\ (a \in row'[n] <=> a \in row[n]))

OnlyTouches(C) ==
    \A n \in Msgs, a \in Aspects : <<n, a>> \notin C => SameServer(n, a) /\ SameRow(n, a)

LEMMA ConcernOf ==
    ASSUME NEW q
    PROVE  /\ q.pc = "idle" => Concern(q) = {}
           /\ Flagging(q) => Concern(q) = q.ids \X (q.add \union q.rem)
           /\ q.pc # "idle" /\ ~Flagging(q) => Concern(q) = q.ids \X Aspects
  BY DEF Concern, Flagging

LEMMA ConcernStays ==
    ASSUME NEW q, site' = site PROVE Concern(q)' = Concern(q)
  BY DEF Concern, Aspects

LEMMA ConcernAlike ==
    ASSUME NEW q, NEW z, Alike(q, z) PROVE Concern(z) = Concern(q)
  BY DEF Concern, Alike

\* A row is wrong in a new way only where the step has touched it or its message.
LEMMA WrongOnlyTouched ==
    ASSUME Typed, Typed', site' = site, NEW C, OnlyTouches(C),
           NEW c \in AllWrong', c \notin C
    PROVE  c \in AllWrong
  <1>0. PICK m \in Msgs : c \in Wrong(m)'
    BY DEF AllWrong
  <1> SUFFICES c \in Wrong(m)
    BY DEF AllWrong
  <1>1. row'[m] # NoRow
    BY <1>0 DEF Wrong
  <1>2. CASE server'[m] = Gone
    <2>1. c = <<m, Gone>>
      BY <1>0, <1>1, <1>2 DEF Wrong
    <2>2. SameServer(m, Gone) /\ SameRow(m, Gone)
      BY <2>1 DEF OnlyTouches, Aspects
    <2>3. server[m] = Gone /\ row[m] # NoRow
      BY <1>1, <1>2, <2>2 DEF SameServer, SameRow
    <2> QED BY <2>1, <2>3 DEF Wrong
  <1>3. CASE server'[m] # Gone
    <2>1. PICK a \in (row'[m] \ server'[m]) \union (server'[m] \ row'[m]) : c = <<m, a>>
      BY <1>0, <1>1, <1>3 DEF Wrong
    <2>2. a \in site.marks
      <3>1. row'[m] \subseteq site.marks /\ server'[m] \subseteq site.marks
        BY <1>1, <1>3 DEF Typed, Contents
      <3> QED BY <2>1, <3>1
    <2>3. a # Gone
      BY <2>2, NamesDiffer, SitesType DEF Typed, TypeOK
    <2>4. SameServer(m, a) /\ SameRow(m, a)
      BY <2>1, <2>2 DEF OnlyTouches, Aspects
    <2>5. /\ server[m] # Gone /\ (a \in server'[m] <=> a \in server[m])
          /\ row[m] # NoRow /\ (a \in row'[m] <=> a \in row[m])
      BY <1>1, <1>3, <2>3, <2>4 DEF SameServer, SameRow
    <2>6. a \in (row[m] \ server[m]) \union (server[m] \ row[m])
      BY <2>1, <2>5
    <2>7. <<m, a>> \in {m} \X ((row[m] \ server[m]) \union (server[m] \ row[m]))
      BY <2>6
    <2> QED BY <2>1, <2>5, <2>7 DEF Wrong
  <1> QED BY <1>2, <1>3

\* What an invocation may rely on, it still may after a step that touches none of
\* its aspects but those it now knows it was raced in.
LEMMA ClaimsStay ==
    ASSUME NEW q \in Process, NEW z, Alike(q, z), Fits(q), Claims(q), site' = site,
           Gone \notin site.marks,
           \A n \in Msgs, a \in Aspects :
               <<n, a>> \in Concern(q) /\ <<n, a>> \notin z.raced
                   => SameServer(n, a) /\ SameRow(n, a)
    PROVE  Claims(z)'
  <1>1. q.ids \subseteq Msgs /\ q.add \union q.rem \subseteq Aspects \ {Gone}
    BY DEF Process, Fits, Aspects
  <1>2. ASSUME NEW n \in q.ids, NEW a \in q.add \union q.rem, <<n, a>> \notin z.raced,
               q.pc \in {"store", "unstore", "flags", "call"}
        PROVE  SameServer(n, a) /\ SameRow(n, a)
    <2>1. <<n, a>> \in Concern(q)
      BY <1>1, <1>2, ConcernOf DEF Flagging
    <2> QED BY <1>1, <1>2, <2>1
  <1>3. Pushed(z)' = Pushed(q) /\ Half(z)' = Half(q) /\ Written(z)' = Written(q)
    BY DEF Pushed, Half, Written, Alike
  <1>4. ASSUME NEW n \in Pushed(q), NEW a \in q.add \union q.rem, <<n, a>> \notin z.raced
        PROVE  ServerRight(z, n, a)'
    <2>1. SameServer(n, a) /\ a # Gone
      BY <1>1, <1>2, <1>4 DEF Pushed
    <2>2. ServerRight(q, n, a)
      BY <1>4 DEF Claims, Alike
    <2> QED BY <2>1, <2>2 DEF SameServer, ServerRight, Alike
  <1>5. ASSUME NEW n \in Half(q), NEW a \in q.add, <<n, a>> \notin z.raced
        PROVE  server'[n] = Gone \/ a \in server'[n]
    <2>1. SameServer(n, a) /\ a # Gone
      BY <1>1, <1>2, <1>5 DEF Half
    <2>2. server[n] = Gone \/ a \in server[n]
      BY <1>5 DEF Claims, Alike
    <2> QED BY <2>1, <2>2 DEF SameServer
  <1>6. ASSUME NEW n \in Written(q), NEW a \in q.add \union q.rem, <<n, a>> \notin z.raced
        PROVE  RowRight(z, n, a)' /\ a \notin q.add \intersect q.rem
    <2>1. SameRow(n, a)
      BY <1>2, <1>6 DEF Written
    <2>2. RowRight(q, n, a) /\ a \notin q.add \intersect q.rem
      BY <1>6 DEF Claims, Alike
    <2> QED BY <2>1, <2>2 DEF SameRow, RowRight, Alike
  <1>7. ASSUME q.pc = "put", NEW n \in Msgs, NEW a \in Aspects, q.got[n] # Gone,
               <<n, a>> \notin z.raced
        PROVE  Fresh(z, n, a)'
    <2>1. <<n, a>> \in Concern(q)
      BY <1>7, ConcernOf DEF Flagging, Fits
    <2>2. SameServer(n, a)
      BY <1>7, <2>1
    <2>3. Fresh(q, n, a)
      BY <1>7 DEF Claims, Alike
    <2> QED BY <2>2, <2>3 DEF SameServer, Fresh, Alike
  <1>8. Aspects' = Aspects
    BY DEF Aspects
  <1>9. z.add = q.add /\ z.rem = q.rem /\ z.pc = q.pc /\ z.got = q.got
    BY DEF Alike
  <1> QED BY <1>3, <1>4, <1>5, <1>6, <1>7, <1>8, <1>9 DEF Claims

\* An invocation that does nothing keeps what it has, if what the others touch of
\* its concern is noted as raced.
LEMMA OthersKeep ==
    ASSUME IInv, site' = site, NEW C, OnlyTouches(C), NEW r \in Procs,
           Alike(proc[r], proc'[r]), proc'[r].raced \subseteq Concern(proc[r]),
           C \intersect Concern(proc[r]) \subseteq proc'[r].raced
    PROVE  Fits(proc[r])' /\ Claims(proc[r])' /\ Concern(proc[r])' = Concern(proc[r])
  <1> DEFINE q == proc[r]
             z == proc'[r]
  <1>1. q \in Process /\ Fits(q) /\ Claims(q) /\ Gone \notin site.marks
    BY NamesDiffer, SitesType DEF IInv, Typed, TypeOK
  <1>2. Concern(z) = Concern(q) /\ Concern(proc[r])' = Concern(q)
    BY ConcernAlike DEF Concern, Aspects
  <1>3. \A n \in Msgs, a \in Aspects :
            <<n, a>> \in Concern(q) /\ <<n, a>> \notin z.raced
                => SameServer(n, a) /\ SameRow(n, a)
    BY DEF OnlyTouches
  <1>4. Claims(proc[r])'
    <2>1. PICK v : v = z
      OBVIOUS
    <2>2. Claims(v)'
      <3> HIDE DEF q
      <3> QED BY <1>1, <1>3, <2>1, ClaimsStay DEF q
    <2> QED BY <2>1, <2>2 DEF Claims, Pushed, Half, Written, ServerRight, RowRight, Fresh, Aspects
  <1>5. Fits(proc[r])'
    BY <1>1, <1>2 DEF Fits, Alike
  <1> QED BY <1>2, <1>4, <1>5

\* The step of an invocation, of which C is what it touches.
LEMMA StepKeeps ==
    ASSUME IInv, NEW p \in Procs, NEW C, site' = site, OnlyTouches(C), TypeOK', Contents',
           \A r \in Procs \ {p} :
               /\ Alike(proc[r], proc'[r])
               /\ proc'[r].raced \subseteq Concern(proc[r])
               /\ C \intersect Concern(proc[r]) \subseteq proc'[r].raced
               /\ Concern(proc[p])' \intersect Concern(proc[r])
                      \subseteq proc'[p].raced \intersect proc'[r].raced,
           Fits(proc[p])', Claims(proc[p])',
           \A c \in AllWrong' :
               c \in C \/ c \in doubt \/ (c \in Concern(proc[p]) /\ proc[p].pc # "put")
                   => c \in doubt' \/ (c \in Concern(proc[p])' /\ proc'[p].pc # "put")
    PROVE  IInv'
  <1>1. \A r \in Procs \ {p} :
            Fits(proc[r])' /\ Claims(proc[r])' /\ Concern(proc[r])' = Concern(proc[r])
    BY OthersKeep
  <1>2. Typed'
    BY <1>1 DEF Typed
  <1>3. Shared'
    <2> SUFFICES ASSUME NEW r \in Procs, NEW s \in Procs, r # s
                 PROVE  Concern(proc[r])' \intersect Concern(proc[s])' \subseteq proc'[r].raced
      BY DEF Shared
    <2>1. CASE r = p
      BY <1>1, <2>1
    <2>2. CASE s = p
      BY <1>1, <2>2
    <2>3. CASE r # p /\ s # p
      <3>1. Concern(proc[r]) \intersect Concern(proc[s]) \subseteq proc[r].raced
        BY DEF IInv, Shared
      <3>2. proc[r].raced \subseteq proc'[r].raced
        BY <2>3 DEF Alike
      <3> QED BY <1>1, <2>3, <3>1, <3>2
    <2> QED BY <2>1, <2>2, <2>3
  <1>4. Covered'
    <2> SUFFICES ASSUME NEW c \in AllWrong'
                 PROVE  c \in doubt' \/ c \in Changing'
      BY DEF Covered
    <2>0. c \in C \/ c \in doubt \/ (c \in Concern(proc[p]) /\ proc[p].pc # "put")
              => c \in doubt' \/ (c \in Concern(proc[p])' /\ proc'[p].pc # "put")
      OBVIOUS
    <2>1. c \in Concern(proc[p])' /\ proc'[p].pc # "put" => c \in Changing'
      BY DEF Changing
    <2>2. CASE c \in C
      BY <2>0, <2>1, <2>2
    <2>3. CASE c \notin C
      <3>1. Typed
        BY DEF IInv
      <3>2. c \in AllWrong
        BY <1>2, <2>3, <3>1, WrongOnlyTouched
      <3>3. c \in doubt \/ c \in Changing
        BY <3>2 DEF IInv, Covered
      <3>4. CASE c \in doubt
        BY <2>0, <2>1, <3>4
      <3>5. CASE c \in Changing
        <4>1. PICK r \in Procs : proc[r].pc # "put" /\ c \in Concern(proc[r])
          BY <3>5 DEF Changing
        <4>2. CASE r = p
          BY <2>0, <2>1, <4>1, <4>2
        <4>3. CASE r # p
          <5>1. proc'[r].pc # "put" /\ c \in Concern(proc[r])'
            BY <1>1, <4>1, <4>3 DEF Alike
          <5> QED BY <5>1 DEF Changing
        <4> QED BY <4>2, <4>3
      <3> QED BY <3>3, <3>4, <3>5
    <2> QED BY <2>2, <2>3
  <1>5. \A r \in Procs : Claims(proc[r])'
    BY <1>1
  <1> QED BY <1>2, <1>3, <1>4, <1>5 DEF IInv

\* What a process has been raced in, and concerns, are aspects.
LEMMA ConcernTyped ==
    ASSUME IInv, NEW p \in Procs
    PROVE  /\ Concern(proc[p]) \subseteq Msgs \X Aspects
           /\ proc[p].raced \subseteq Msgs \X Aspects
           /\ Aspects \subseteq Flags \union {Gone}
  <1>1. proc[p] \in Process /\ Fits(proc[p]) /\ site.marks \subseteq Flags
    BY SitesType DEF IInv, Typed, TypeOK
  <1>2. proc[p].ids \subseteq Msgs /\ proc[p].add \union proc[p].rem \subseteq Aspects
    BY <1>1 DEF Process, Fits, Aspects
  <1>3. Concern(proc[p]) \subseteq Msgs \X Aspects
    BY <1>2, ConcernOf
  <1> QED BY <1>1, <1>3 DEF Fits, Aspects

\* An invocation that does not move, where what is touched is another's concern.
LEMMA Unmoved ==
    ASSUME IInv, NEW p \in Procs, NEW r \in Procs, r # p, proc'[r] = proc[r]
    PROVE  /\ Alike(proc[r], proc'[r])
           /\ proc'[r].raced \subseteq Concern(proc[r])
           /\ Concern(proc[p]) \intersect Concern(proc[r])
                  \subseteq proc[p].raced \intersect proc'[r].raced
  BY DEF IInv, Typed, Fits, Shared, Alike

\* A step in the middle of an invocation.
LEMMA BecomeKeeps ==
    ASSUME IInv, NEW p \in Procs, NEW z \in Process, Become(p, z),
           proc[p].pc # "put", z.pc # "put", Concern(z) = Concern(proc[p]),
           proc[p].raced \subseteq z.raced, Fits(z), Claims(z)', Contents',
           OnlyTouches(Concern(proc[p]))
    PROVE  IInv'
  <1>1. /\ proc' = [proc EXCEPT ![p] = z] /\ site' = site /\ doubt' = doubt
        /\ proc \in [Procs -> Process]
    BY DEF Become, IInv, Typed, TypeOK
  <1>2. proc'[p] = z /\ \A r \in Procs \ {p} : proc'[r] = proc[r]
    BY <1>1
  <1>3. Concern(proc[p])' = Concern(proc[p])
    BY <1>1, <1>2 DEF Concern, Aspects
  <1>4. Fits(proc[p])'
    BY <1>1, <1>2, <1>3 DEF Fits
  <1>5. Claims(proc[p])'
    BY <1>2 DEF Claims, Pushed, Half, Written, ServerRight, RowRight, Fresh
  <1>6. TypeOK'
    <2>1. \A r \in Procs : proc'[r].at \in proc'[r].left \union {NoFolder}
      BY <1>1, <1>2 DEF IInv, Typed, TypeOK, Fits
    <2>2. proc' \in [Procs -> Process]
      BY <1>1
    <2> QED BY <1>1, <2>1, <2>2 DEF IInv, Typed, TypeOK, Contents, Aspects
  <1>7. \A r \in Procs \ {p} :
            /\ Alike(proc[r], proc'[r])
            /\ proc'[r].raced \subseteq Concern(proc[r])
            /\ Concern(proc[p]) \intersect Concern(proc[r]) \subseteq proc'[r].raced
            /\ Concern(proc[p])' \intersect Concern(proc[r])
                   \subseteq proc'[p].raced \intersect proc'[r].raced
    BY <1>2, <1>3, Unmoved
  <1> QED BY <1>1, <1>2, <1>3, <1>4, <1>5, <1>6, <1>7, StepKeeps

LEMMA IdleIs ==
    /\ Idle \in Process /\ Concern(Idle) = {} /\ Fits(Idle) /\ Claims(Idle)
    /\ Idle.pc = "idle" /\ Idle.raced = {}
  <1>1. Idle \in Process
    BY DEF Idle, Process, PCs, Value, GmailVerbs
  <1>2. Idle.pc = "idle" /\ Idle.ids = {} /\ Idle.raced = {} /\ Idle.add = {} /\ Idle.rem = {}
        /\ Idle.at = NoFolder /\ Idle.todo = {} /\ Idle.rest = {}
    BY DEF Idle
  <1>3. Concern(Idle) = {}
    BY <1>2, ConcernOf
  <1>4. Fits(Idle)
    BY <1>2 DEF Fits
  <1>5. Claims(Idle)
    BY <1>2 DEF Claims, Pushed, Half, Written
  <1> QED BY <1>1, <1>2, <1>3, <1>4, <1>5

\* The end of an invocation: what it settles, unraced, is not wrong.
LEMMA EndKeeps ==
    ASSUME IInv, NEW p \in Procs, NEW settled, End(p, settled), Contents',
           OnlyTouches(Concern(proc[p])),
           settled \subseteq Concern(proc[p]),
           \A c \in AllWrong' : c \notin settled \ proc[p].raced
    PROVE  IInv'
  <1>1. /\ proc' = [proc EXCEPT ![p] = Idle] /\ site' = site
        /\ proc \in [Procs -> Process]
        /\ doubt' = (doubt \ (settled \ proc[p].raced)) \union (Concern(proc[p]) \ settled)
                        \union proc[p].raced
    BY DEF End, IInv, Typed, TypeOK
  <1>2. proc'[p] = Idle /\ \A r \in Procs \ {p} : proc'[r] = proc[r]
    BY <1>1
  <1>3. Concern(proc[p])' = {}
    BY <1>2, IdleIs DEF Concern
  <1>4. Fits(proc[p])'
    BY <1>1, <1>2, <1>3, IdleIs DEF Fits
  <1>5. Claims(proc[p])'
    BY <1>2 DEF Claims, Pushed, Half, Written, Idle
  <1>6. TypeOK'
    <2>1. \A r \in Procs : proc'[r].at \in proc'[r].left \union {NoFolder}
      BY <1>1, <1>2, IdleIs DEF IInv, Typed, TypeOK, Fits
    <2>2. proc' \in [Procs -> Process]
      BY <1>1, IdleIs
    <2>3. doubt' \subseteq Msgs \X Aspects
      BY <1>1, ConcernTyped DEF IInv, Typed, TypeOK
    <2> QED BY <1>1, <2>1, <2>2, <2>3 DEF IInv, Typed, TypeOK, Contents, Aspects
  <1>7. \A r \in Procs \ {p} :
            /\ Alike(proc[r], proc'[r])
            /\ proc'[r].raced \subseteq Concern(proc[r])
            /\ Concern(proc[p]) \intersect Concern(proc[r]) \subseteq proc'[r].raced
            /\ Concern(proc[p])' \intersect Concern(proc[r])
                   \subseteq proc'[p].raced \intersect proc'[r].raced
    BY <1>2, <1>3, Unmoved
  <1>8. \A c \in AllWrong' :
            c \in Concern(proc[p]) \/ c \in doubt \/ (c \in Concern(proc[p]) /\ proc[p].pc # "put")
                => c \in doubt' \/ (c \in Concern(proc[p])' /\ proc'[p].pc # "put")
    BY <1>1
  <1> QED BY <1>1, <1>4, <1>5, <1>6, <1>7, <1>8, StepKeeps

\* A failure settles nothing.
LEMMA FailureKeeps ==
    ASSUME IInv, NEW p \in Procs, End(p, {}), Contents',
           OnlyTouches(Concern(proc[p]))
    PROVE  IInv'
  BY EndKeeps

\* What Disturbed does.
LEMMA DisturbedIs ==
    ASSUME IInv, NEW C, NEW r \in Procs
    PROVE  /\ Alike(proc[r], Disturbed(C)[r])
           /\ Disturbed(C)[r].raced = proc[r].raced \union (Concern(proc[r]) \intersect C)
           /\ Disturbed(C)[r].raced \subseteq Concern(proc[r])
           /\ Disturbed(C)[r] \in Process
           /\ DOMAIN Disturbed(C) = Procs
  <1>1. /\ proc[r] \in Process /\ proc[r].raced \subseteq Concern(proc[r])
        /\ Concern(proc[r]) \subseteq Msgs \X (Flags \union {Gone})
    BY ConcernTyped DEF IInv, Typed, TypeOK, Fits
  <1>2. Disturbed(C)[r] = [proc[r] EXCEPT !.raced = @ \union (Concern(proc[r]) \intersect C)]
    BY DEF Disturbed
  <1>3. Alike(proc[r], Disturbed(C)[r])
    BY <1>1, <1>2 DEF Alike, Process
  <1>4. Disturbed(C)[r].raced = proc[r].raced \union (Concern(proc[r]) \intersect C)
    BY <1>1, <1>2 DEF Process
  <1>5. Disturbed(C)[r] \in Process
    BY <1>1, <1>2 DEF Process
  <1> QED BY <1>1, <1>3, <1>4, <1>5 DEF Disturbed

\* The beginning of an invocation, which knows what it is raced in at once.
LEMMA BeginKeeps ==
    ASSUME IInv, NEW p \in Procs, NEW q \in Process, Begin(p, q), q.raced = {},
           Fits(q), Claims(q)
    PROVE  IInv'
  <1> DEFINE z == [q EXCEPT !.raced = InFlight \intersect Concern(q)]
             D == Disturbed(Concern(q))
  <1>1. /\ proc' = [D EXCEPT ![p] = z]
        /\ UNCHANGED <<site, server, row, doubt>>
        /\ proc[p].pc = "idle"
    BY DEF Begin
  <1>2. /\ Alike(q, z) /\ z \in Process /\ z.raced = InFlight \intersect Concern(q)
        /\ Concern(q) \subseteq Msgs \X (Flags \union {Gone})
    <2>1. q.ids \subseteq Msgs /\ q.add \union q.rem \subseteq Flags /\ Aspects \subseteq Flags \union {Gone}
      BY ConcernTyped DEF Process, Value
    <2>2. Concern(q) \subseteq Msgs \X (Flags \union {Gone})
      BY <2>1, ConcernOf
    <2>3. Alike(q, z) /\ z.raced = InFlight \intersect Concern(q)
      BY DEF Alike, Process
    <2>4. z \in Process
      BY <2>2 DEF Process
    <2> QED BY <2>2, <2>3, <2>4
  <1>3. proc'[p] = z /\ \A r \in Procs \ {p} : proc'[r] = D[r]
    BY <1>1, DisturbedIs
  <1> HIDE DEF z, D
  <1>4. Concern(z) = Concern(q) /\ Concern(proc[p])' = Concern(q) /\ Concern(proc[p]) = {}
    <2>1. Concern(z) = Concern(q)
      BY <1>2, ConcernAlike
    <2>2. Concern(proc[p])' = Concern(z)
      BY <1>1, <1>3 DEF Concern, Aspects
    <2>3. Concern(proc[p]) = {}
      BY <1>1, ConcernOf
    <2> QED BY <2>1, <2>2, <2>3
  <1>5. Fits(proc[p])'
    <2>1. Fits(z)
      BY <1>2, <1>4 DEF Fits, Alike
    <2> QED BY <1>1, <1>3, <1>4, <2>1 DEF Fits
  <1>6. OnlyTouches({})
    BY <1>1 DEF OnlyTouches, SameServer, SameRow, IInv, Typed, Contents
  <1>7. Claims(proc[p])'
    <2>1. Gone \notin site.marks
      BY NamesDiffer, SitesType DEF IInv, Typed, TypeOK
    <2>2. PICK v : v = z
      OBVIOUS
    <2>3. \A n \in Msgs, a \in Aspects :
              <<n, a>> \in Concern(q) /\ <<n, a>> \notin v.raced => SameServer(n, a) /\ SameRow(n, a)
      BY <1>6 DEF OnlyTouches
    <2>4. Claims(v)'
      BY <1>1, <1>2, <2>1, <2>2, <2>3, ClaimsStay
    <2> QED BY <1>3, <2>2, <2>4 DEF Claims, Pushed, Half, Written, ServerRight, RowRight, Fresh, Aspects
  <1>8. TypeOK'
    <2>1. proc' \in [Procs -> Process]
      BY <1>1, <1>2, DisturbedIs DEF D
    <2>2. \A r \in Procs : proc'[r].at \in proc'[r].left \union {NoFolder}
      BY <1>2, <1>3, DisturbedIs DEF D, IInv, Typed, TypeOK, Fits, Alike
    <2> QED BY <1>1, <2>1, <2>2 DEF IInv, Typed, TypeOK, Aspects
  <1>9. Contents'
    BY <1>1 DEF IInv, Typed, Contents
  <1>10. \A r \in Procs \ {p} :
            /\ Alike(proc[r], proc'[r])
            /\ proc'[r].raced \subseteq Concern(proc[r])
            /\ {} \intersect Concern(proc[r]) \subseteq proc'[r].raced
            /\ Concern(proc[p])' \intersect Concern(proc[r])
                   \subseteq proc'[p].raced \intersect proc'[r].raced
    <2> SUFFICES ASSUME NEW r \in Procs \ {p}
                 PROVE  /\ Alike(proc[r], proc'[r])
                        /\ proc'[r].raced \subseteq Concern(proc[r])
                        /\ Concern(q) \intersect Concern(proc[r])
                               \subseteq z.raced \intersect proc'[r].raced
      BY <1>3, <1>4
    <2>1. /\ Alike(proc[r], proc'[r])
          /\ proc'[r].raced \subseteq Concern(proc[r])
          /\ proc'[r].raced = proc[r].raced \union (Concern(proc[r]) \intersect Concern(q))
      BY <1>3, DisturbedIs DEF D
    <2>2. Concern(proc[r]) \subseteq InFlight
      BY DEF InFlight
    <2> QED BY <1>2, <2>1, <2>2
  <1>11. \A c \in AllWrong' :
            c \in {} \/ c \in doubt \/ (c \in Concern(proc[p]) /\ proc[p].pc # "put")
                => c \in doubt' \/ (c \in Concern(proc[p])' /\ proc'[p].pc # "put")
    BY <1>1, <1>4
  <1> QED BY <1>1, <1>5, <1>6, <1>7, <1>8, <1>9, <1>10, <1>11, StepKeeps

-----------------------------------------------------------------------------
(* The beginnings *)

\* An invocation that has done nothing yet may rely on nothing.
LEMMA Unstarted ==
    ASSUME NEW q, q.raced = {}, q.at = NoFolder, q.add \union q.rem \subseteq site.marks,
           q.pc \in {"store", "move", "mark", "read", "purge", "sweep", "delete", "call"},
           q.todo \union q.rest \subseteq q.ids,
           q.pc = "store" => q.left = {FolderOf[m] : m \in q.ids} /\ q.todo = q.ids,
           q.pc = "call" => q.rest = q.ids /\ (q.verb = "flag" => q.todo = q.ids),
           q.pc \in {"mark", "purge"} => ~site.gmail
    PROVE  Fits(q) /\ Claims(q)
  <1>1. Fits(q)
    BY DEF Fits
  <1>2. Pushed(q) = {} /\ Half(q) = {} /\ Written(q) = {}
    BY DEF Pushed, Half, Written
  <1>3. Claims(q)
    BY <1>2 DEF Claims
  <1> QED BY <1>1, <1>3

LEMMA FlagStartKeeps ==
    ASSUME IInv, NEW p \in Procs, FlagStart(p) PROVE IInv'
  <1>0. site.marks \subseteq Flags /\ site.msgs \subseteq Msgs
    BY SitesType DEF IInv, Typed, TypeOK
  <1>1. PICK ids \in IdLists, add \in SUBSET site.marks, rem \in SUBSET site.marks :
            Begin(p, IF site.gmail
                     THEN [Idle EXCEPT !.pc = "call", !.verb = "flag", !.ids = ids,
                                       !.add = add, !.rem = rem, !.rest = ids, !.todo = ids]
                     ELSE [Idle EXCEPT !.pc = "store", !.ids = ids, !.add = add, !.rem = rem,
                                       !.left = {FolderOf[m] : m \in ids}, !.todo = ids])
    BY DEF FlagStart
  <1>2. ids \subseteq Msgs /\ {FolderOf[m] : m \in ids} \subseteq Folders
    BY <1>0, FolderOfType DEF IdLists
  <1>3. CASE site.gmail
    <2> DEFINE q == [Idle EXCEPT !.pc = "call", !.verb = "flag", !.ids = ids,
                                 !.add = add, !.rem = rem, !.rest = ids, !.todo = ids]
    <2>1. q \in Process
      BY <1>0, <1>2, IdleIs DEF Idle, Process, PCs, Value, GmailVerbs
    <2>2. Fits(q) /\ Claims(q)
      BY Unstarted DEF Idle
    <2>3. Begin(p, q) /\ q.raced = {}
      BY <1>1, <1>3 DEF Idle
    <2> HIDE DEF q
    <2> QED BY <2>1, <2>2, <2>3, BeginKeeps
  <1>4. CASE ~site.gmail
    <2> DEFINE q == [Idle EXCEPT !.pc = "store", !.ids = ids, !.add = add, !.rem = rem,
                                 !.left = {FolderOf[m] : m \in ids}, !.todo = ids]
    <2>1. q \in Process
      BY <1>0, <1>2, IdleIs DEF Idle, Process, PCs, Value, GmailVerbs
    <2>2. Fits(q) /\ Claims(q)
      BY Unstarted DEF Idle
    <2>3. Begin(p, q) /\ q.raced = {}
      BY <1>1, <1>4 DEF Idle
    <2> HIDE DEF q
    <2> QED BY <2>1, <2>2, <2>3, BeginKeeps
  <1> QED BY <1>3, <1>4

LEMMA MoveStartKeeps ==
    ASSUME IInv, NEW p \in Procs, MoveStart(p) PROVE IInv'
  <1>0. site.marks \subseteq Flags /\ site.msgs \subseteq Msgs
    BY SitesType DEF IInv, Typed, TypeOK
  <1>1. ~site.gmail
    BY DEF MoveStart
  <1>2. PICK ids \in IdLists, pc \in {"move", "mark"} :
            Begin(p, [Idle EXCEPT !.pc = pc, !.ids = ids, !.left = {FolderOf[m] : m \in ids}])
    BY DEF MoveStart
  <1> DEFINE q == [Idle EXCEPT !.pc = pc, !.ids = ids, !.left = {FolderOf[m] : m \in ids}]
  <1>3. ids \subseteq Msgs /\ {FolderOf[m] : m \in ids} \subseteq Folders
    BY <1>0, FolderOfType DEF IdLists
  <1>4. q \in Process
    BY <1>3, IdleIs DEF Idle, Process, PCs
  <1>5. Fits(q) /\ Claims(q)
    BY <1>1, Unstarted DEF Idle
  <1>6. Begin(p, q) /\ q.raced = {}
    BY <1>2 DEF Idle
  <1> HIDE DEF q
  <1> QED BY <1>4, <1>5, <1>6, BeginKeeps

LEMMA PurgeStartKeeps ==
    ASSUME IInv, NEW p \in Procs, PurgeStart(p) PROVE IInv'
  <1>1. ~site.gmail
    BY DEF PurgeStart
  <1>2. PICK fo \in Folders, pc \in {"purge", "sweep", "delete"}, left \in SUBSET Folders :
            Begin(p, [Idle EXCEPT !.pc = pc, !.ids = In(fo), !.left = left])
    BY DEF PurgeStart
  <1> DEFINE q == [Idle EXCEPT !.pc = pc, !.ids = In(fo), !.left = left]
  <1>3. In(fo) \subseteq Msgs
    BY DEF In
  <1>4. q \in Process
    BY <1>3, IdleIs DEF Idle, Process, PCs
  <1>5. Fits(q) /\ Claims(q)
    BY <1>1, Unstarted DEF Idle
  <1>6. Begin(p, q) /\ q.raced = {}
    BY <1>2 DEF Idle
  <1> HIDE DEF q
  <1> QED BY <1>4, <1>5, <1>6, BeginKeeps

LEMMA ReadStartKeeps ==
    ASSUME IInv, NEW p \in Procs, ReadStart(p) PROVE IInv'
  <1>0. site.marks \subseteq Flags /\ site.msgs \subseteq Msgs /\ Seen \in site.marks
    BY SitesType DEF IInv, Typed, TypeOK, ReadStart
  <1>1. PICK m \in site.msgs :
            Begin(p, [Idle EXCEPT !.pc = "read", !.ids = {m}, !.add = {Seen}])
    BY DEF ReadStart
  <1> DEFINE q == [Idle EXCEPT !.pc = "read", !.ids = {m}, !.add = {Seen}]
  <1>2. q \in Process
    BY <1>0, IdleIs DEF Idle, Process, PCs, Value
  <1>3. Fits(q) /\ Claims(q)
    BY <1>0, Unstarted DEF Idle
  <1>4. Begin(p, q) /\ q.raced = {}
    BY <1>1 DEF Idle
  <1> HIDE DEF q
  <1> QED BY <1>2, <1>3, <1>4, BeginKeeps

LEMMA GmailStartKeeps ==
    ASSUME IInv, NEW p \in Procs, GmailStart(p) PROVE IInv'
  <1>0. site.marks \subseteq Flags /\ site.msgs \subseteq Msgs /\ Inbox \in site.marks
    BY SitesType, SitesMarks DEF IInv, Typed, TypeOK, GmailStart
  <1>1. CASE \E ids \in IdLists :
            Begin(p, [Idle EXCEPT !.pc = "call", !.verb = "relabel", !.ids = ids,
                           !.rem = {Inbox}, !.rest = ids])
    <2>1. PICK ids \in IdLists :
            Begin(p, [Idle EXCEPT !.pc = "call", !.verb = "relabel", !.ids = ids,
                           !.rem = {Inbox}, !.rest = ids])
      BY <1>1
    <2> DEFINE q ==
            [Idle EXCEPT !.pc = "call", !.verb = "relabel", !.ids = ids,
                           !.rem = {Inbox}, !.rest = ids]
    <2>2. ids \subseteq Msgs
      BY <1>0 DEF IdLists
    <2>3. q \in Process
      BY <1>0, <2>2, IdleIs DEF Idle, Process, PCs, Value, GmailVerbs
    <2>4. Fits(q) /\ Claims(q)
      BY <1>0, Unstarted DEF Idle
    <2>5. Begin(p, q) /\ q.raced = {}
      BY <2>1 DEF Idle
    <2> HIDE DEF q
    <2> QED BY <2>3, <2>4, <2>5, BeginKeeps
  <1>2. CASE \E ids \in IdLists :
            Begin(p, [Idle EXCEPT !.pc = "call", !.verb = "copy", !.ids = ids,
                           !.add = {Inbox}, !.rest = ids])
    <2>1. PICK ids \in IdLists :
            Begin(p, [Idle EXCEPT !.pc = "call", !.verb = "copy", !.ids = ids,
                           !.add = {Inbox}, !.rest = ids])
      BY <1>2
    <2> DEFINE q ==
            [Idle EXCEPT !.pc = "call", !.verb = "copy", !.ids = ids,
                           !.add = {Inbox}, !.rest = ids]
    <2>2. ids \subseteq Msgs
      BY <1>0 DEF IdLists
    <2>3. q \in Process
      BY <1>0, <2>2, IdleIs DEF Idle, Process, PCs, Value, GmailVerbs
    <2>4. Fits(q) /\ Claims(q)
      BY <1>0, Unstarted DEF Idle
    <2>5. Begin(p, q) /\ q.raced = {}
      BY <2>1 DEF Idle
    <2> HIDE DEF q
    <2> QED BY <2>3, <2>4, <2>5, BeginKeeps
  <1>3. CASE \E ids \in SUBSET Msgs, verb \in {"erase", "purge"} :
            Begin(p, [Idle EXCEPT !.pc = "call", !.verb = verb, !.ids = ids,
                           !.rest = ids])
    <2>1. PICK ids \in SUBSET Msgs, verb \in {"erase", "purge"} :
            Begin(p, [Idle EXCEPT !.pc = "call", !.verb = verb, !.ids = ids,
                           !.rest = ids])
      BY <1>3
    <2> DEFINE q ==
            [Idle EXCEPT !.pc = "call", !.verb = verb, !.ids = ids,
                           !.rest = ids]
    <2>2. ids \subseteq Msgs
      BY <1>0 DEF IdLists
    <2>3. q \in Process
      BY <1>0, <2>2, IdleIs DEF Idle, Process, PCs, Value, GmailVerbs
    <2>4. Fits(q) /\ Claims(q)
      BY <1>0, Unstarted DEF Idle
    <2>5. Begin(p, q) /\ q.raced = {}
      BY <2>1 DEF Idle
    <2> HIDE DEF q
    <2> QED BY <2>3, <2>4, <2>5, BeginKeeps
  <1> QED BY <1>0, <1>1, <1>2, <1>3 DEF GmailStart, IdLists, There

\* What a sync fetches is so when it has fetched it.
LEMMA SyncFetchKeeps ==
    ASSUME IInv, NEW p \in Procs, SyncFetch(p) PROVE IInv'
  <1>1. PICK fo \in Folders :
            Begin(p, [Idle EXCEPT !.pc = "put", !.ids = IF site.gmail THEN Msgs ELSE In(fo),
                         !.got = [m \in Msgs |-> IF m \in Listed(fo) THEN server[m] ELSE Gone]])
    BY DEF SyncFetch
  <1> DEFINE got == [m \in Msgs |-> IF m \in Listed(fo) THEN server[m] ELSE Gone]
             q == [Idle EXCEPT !.pc = "put", !.ids = IF site.gmail THEN Msgs ELSE In(fo),
                               !.got = got]
  <1>2. /\ got \in [Msgs -> Value \union {Gone}]
        /\ \A m \in Msgs : got[m] # Gone => got[m] = server[m] /\ m \in Listed(fo)
    BY DEF IInv, Typed, Contents
  <1> HIDE DEF got
  <1>3. /\ q.pc = "put" /\ q.got = got /\ q.ids = (IF site.gmail THEN Msgs ELSE In(fo))
        /\ q.add = {} /\ q.rem = {} /\ q.raced = {} /\ q.at = NoFolder /\ q.todo = {} /\ q.rest = {}
    BY DEF Idle
  <1>4. q \in Process
    BY <1>2, IdleIs DEF Idle, Process, PCs, In
  <1>5. Begin(p, q)
    BY <1>1 DEF got
  <1> HIDE DEF q
  <1>6. Fits(q)
    <2>1. \A m \in Msgs : got[m] = Gone \/ (m \in q.ids /\ got[m] \subseteq site.marks)
      BY <1>2, <1>3 DEF Listed, There, IInv, Typed, Contents
    <2> QED BY <1>3, <2>1 DEF Fits
  <1>7. Claims(q)
    <2>1. Pushed(q) = {} /\ Half(q) = {} /\ Written(q) = {}
      BY <1>3 DEF Pushed, Half, Written
    <2>2. \A n \in Msgs, a \in Aspects : q.got[n] # Gone => Fresh(q, n, a)
      BY <1>2, <1>3 DEF Fresh
    <2> QED BY <2>1, <2>2 DEF Claims
  <1> QED BY <1>3, <1>4, <1>5, <1>6, <1>7, BeginKeeps

-----------------------------------------------------------------------------
(* What the server does *)

LEMMA MarksAreFlags ==
    ASSUME IInv
    PROVE  /\ site.marks \subseteq Flags /\ Gone \notin site.marks
           /\ \A v \in SUBSET site.marks : v # Gone
           /\ \A v \in Value : v # Gone /\ v # NoRow
           /\ ~site.gmail => Deleted \in site.marks
  BY SitesType, SitesMarks, NamesDiffer DEF IInv, Typed, TypeOK, Value

\* A STORE, or a change of labels, touches the flags it names.
LEMMA ServerChanged ==
    ASSUME IInv, NEW ms, NEW marks, NEW C, marks \subseteq site.marks,
           site' = site, row' = row, server' \in [Msgs -> Value \union {Gone}],
           \A m \in Msgs :
               IF m \in ms /\ server[m] # Gone
               THEN /\ server'[m] # Gone /\ server'[m] \subseteq site.marks
                    /\ \A a \in site.marks \ marks : a \in server'[m] <=> a \in server[m]
               ELSE server'[m] = server[m],
           \A m \in ms, a \in marks : <<m, a>> \in C
    PROVE  OnlyTouches(C) /\ Contents'
  <1>1. Gone \notin site.marks /\ row \in [Msgs -> Value \union {NoRow}]
    BY MarksAreFlags DEF IInv, Typed, Contents
  <1>2. \A n \in Msgs, a \in Aspects : <<n, a>> \notin C => SameServer(n, a)
    BY <1>1 DEF Aspects, SameServer
  <1>3. \A n \in Msgs, a \in Aspects : SameRow(n, a)
    BY DEF SameRow
  <1>4. Contents'
    BY DEF Contents, IInv, Typed
  <1> QED BY <1>2, <1>3, <1>4 DEF OnlyTouches

\* What a STORE leaves on the server, message by message.
StoredIs(ms, plus, minus) ==
    \A m \in Msgs :
        /\ server'[m] = Gone <=> server[m] = Gone
        /\ m \notin ms => server'[m] = server[m]
        /\ m \in ms /\ server[m] # Gone => server'[m] = (server[m] \union plus) \ minus

LEMMA StoredTouches ==
    ASSUME IInv, NEW ms, NEW plus \in SUBSET site.marks, NEW minus \in SUBSET site.marks, NEW C,
           site' = site, row' = row, server' = Stored(ms, plus, minus),
           \A m \in ms, a \in plus \union minus : <<m, a>> \in C
    PROVE  OnlyTouches(C) /\ Contents' /\ StoredIs(ms, plus, minus)
  <1>0. /\ \A v \in SUBSET site.marks : v # Gone /\ v \in Value
        /\ \A m \in Msgs : server[m] = Gone \/ server[m] \in SUBSET site.marks
    BY MarksAreFlags DEF IInv, Typed, Contents, Value
  <1>1. \A m \in Msgs : IF m \in ms /\ server[m] # Gone
                        THEN server'[m] = (server[m] \union plus) \ minus
                        ELSE server'[m] = server[m]
    BY DEF Stored, There
  <1>2. \A m \in Msgs : server[m] # Gone => (server[m] \union plus) \ minus \in SUBSET site.marks
    BY <1>0
  <1>3. \A m \in Msgs :
               IF m \in ms /\ server[m] # Gone
               THEN /\ server'[m] # Gone /\ server'[m] \subseteq site.marks
                    /\ \A a \in site.marks \ (plus \union minus) : a \in server'[m] <=> a \in server[m]
               ELSE server'[m] = server[m]
    BY <1>0, <1>1, <1>2
  <1>4. server' \in [Msgs -> Value \union {Gone}]
    <2>1. \A m \in Msgs : server'[m] \in Value \union {Gone}
      BY <1>0, <1>3
    <2>2. server' = [m \in Msgs |-> server'[m]]
      BY DEF Stored
    <2> QED BY <2>1, <2>2
  <1>5. OnlyTouches(C) /\ Contents'
    <2>1. PICK marks : marks = plus \union minus
      OBVIOUS
    <2>2. marks \subseteq site.marks /\ \A m \in ms, a \in marks : <<m, a>> \in C
      BY <2>1
    <2> QED BY <1>3, <1>4, <2>1, <2>2, ServerChanged
  <1> QED BY <1>1, <1>3, <1>5 DEF StoredIs

LEMMA RemovedTouches ==
    ASSUME IInv, NEW ms, NEW C, site' = site, row' = row, server' = Removed(ms),
           \A m \in ms : <<m, Gone>> \in C
    PROVE  OnlyTouches(C) /\ Contents'
  <1>1. \A m \in Msgs : IF m \in ms THEN server'[m] = Gone ELSE server'[m] = server[m]
    BY DEF Removed
  <1>2. \A n \in Msgs, a \in Aspects : <<n, a>> \notin C => SameServer(n, a)
    BY <1>1 DEF SameServer
  <1>3. \A n \in Msgs, a \in Aspects : SameRow(n, a)
    BY DEF SameRow
  <1>4. server' \in [Msgs -> Value \union {Gone}]
    BY DEF Removed, IInv, Typed, Contents
  <1>5. Contents'
    BY <1>1, <1>4 DEF Contents, IInv, Typed
  <1> QED BY <1>2, <1>3, <1>5 DEF OnlyTouches

-----------------------------------------------------------------------------
(* The steps of the verbs *)

LEMMA StoreAddKeeps ==
    ASSUME IInv, NEW p \in Procs, StoreAdd(p) PROVE IInv'
  <1>1. PICK q : q = proc[p]
    OBVIOUS
  <1>2. /\ q \in Process /\ Fits(q) /\ Claims(q) /\ q.pc = "store"
        /\ q.ids \subseteq Msgs /\ q.left \subseteq Folders
    BY <1>1 DEF IInv, Typed, TypeOK, StoreAdd, Process
  <1>3. PICK fo \in q.left :
            /\ server' = Stored(q.ids \intersect In(fo), q.add, {})
            /\ Become(p, [q EXCEPT !.pc = "unstore", !.at = fo])
    BY <1>1 DEF StoreAdd
  <1>4. row' = row /\ site' = site
    BY <1>3 DEF StoreAdd, Become
  <1>5. PICK z : z = [q EXCEPT !.pc = "unstore", !.at = fo]
    OBVIOUS
  <1>6. /\ z.pc = "unstore" /\ z.at = fo /\ z.ids = q.ids /\ z.add = q.add /\ z.rem = q.rem
        /\ z.left = q.left /\ z.todo = q.todo /\ z.rest = q.rest /\ z.raced = q.raced
        /\ z \in Process
    BY <1>2, <1>3, <1>5 DEF Process, PCs
  <1>7. Concern(q) = q.ids \X (q.add \union q.rem) /\ Concern(z) = Concern(q)
    BY <1>2, <1>6, ConcernOf DEF Flagging
  <1>8. Fits(z)
    BY <1>2, <1>6, <1>7 DEF Fits
  <1>9. /\ OnlyTouches(Concern(q)) /\ Contents'
        /\ \A m \in Msgs :
               /\ server'[m] = Gone <=> server[m] = Gone
               /\ m \notin q.ids \intersect In(fo) => server'[m] = server[m]
               /\ m \in q.ids \intersect In(fo) /\ server[m] # Gone
                      => server'[m] = (server[m] \union q.add) \ {}
    <2>1. q.add \in SUBSET site.marks /\ {} \in SUBSET site.marks
      BY <1>2 DEF Fits
    <2>2. PICK ms, C, plus, minus :
              /\ ms = q.ids \intersect In(fo) /\ C = Concern(q) /\ plus = q.add /\ minus = {}
      OBVIOUS
    <2>3. \A m \in ms, a \in plus \union minus : <<m, a>> \in C
      BY <1>7, <2>2
    <2>4. plus \in SUBSET site.marks /\ minus \in SUBSET site.marks
          /\ server' = Stored(ms, plus, minus)
      BY <1>3, <1>4, <2>1, <2>2
    <2>5. row' = row /\ site' = site
      BY <1>3, <1>4
    <2>6. OnlyTouches(C) /\ Contents' /\ StoredIs(ms, plus, minus)
      BY <2>3, <2>4, <2>5, StoredTouches
    <2> QED BY <2>2, <2>6 DEF StoredIs
  <1>10. Claims(z)'
    <2>1. Pushed(z)' = Pushed(q) /\ Half(z)' = {n \in q.ids : n \in In(fo)} /\ Written(z)' = {}
      BY <1>2, <1>6 DEF Pushed, Half, Written, In
    <2>2. \A n \in Pushed(q), a \in q.add \union q.rem :
               <<n, a>> \notin q.raced => ServerRight(z, n, a)'
      <3> SUFFICES ASSUME NEW n \in Pushed(q), NEW a \in q.add \union q.rem, <<n, a>> \notin q.raced
                   PROVE ServerRight(z, n, a)'
        OBVIOUS
      <3>1. n \in Msgs /\ n \notin In(fo) /\ server'[n] = server[n]
        BY <1>2, <1>3, <1>9 DEF Pushed, In
      <3>2. ServerRight(q, n, a)
        BY <1>2 DEF Claims
      <3> QED BY <1>6, <3>1, <3>2 DEF ServerRight
    <2>3. \A n \in Half(z)', a \in q.add : server'[n] = Gone \/ a \in server'[n]
      BY <1>2, <1>9, <2>1
    <2> QED BY <1>6, <2>1, <2>2, <2>3 DEF Claims
  <1> QED BY <1>1, <1>2, <1>3, <1>5, <1>6, <1>7, <1>8, <1>9, <1>10, BecomeKeeps

LEMMA StoreDelKeeps ==
    ASSUME IInv, NEW p \in Procs, StoreDel(p) PROVE IInv'
  <1>1. PICK q : q = proc[p]
    OBVIOUS
  <1>2. /\ q \in Process /\ Fits(q) /\ Claims(q) /\ q.pc = "unstore"
        /\ q.ids \subseteq Msgs /\ q.left \subseteq Folders
    BY <1>1 DEF IInv, Typed, TypeOK, StoreDel, Process
  <1>3. PICK pc : pc = IF q.left \ {q.at} = {} THEN "flags" ELSE "store"
    OBVIOUS
  <1>4. /\ server' = Stored(q.ids \intersect In(q.at), {}, q.rem)
        /\ Become(p, [q EXCEPT !.pc = pc, !.left = q.left \ {q.at}, !.at = NoFolder])
    BY <1>1, <1>3 DEF StoreDel
  <1>5. row' = row /\ site' = site
    BY <1>4 DEF StoreDel, Become
  <1>6. PICK z : z = [q EXCEPT !.pc = pc, !.left = q.left \ {q.at}, !.at = NoFolder]
    OBVIOUS
  <1>7. /\ z.pc = pc /\ z.at = NoFolder /\ z.ids = q.ids /\ z.add = q.add /\ z.rem = q.rem
        /\ z.left = q.left \ {q.at} /\ z.todo = q.todo /\ z.rest = q.rest /\ z.raced = q.raced
        /\ z \in Process
    BY <1>2, <1>3, <1>6 DEF Process, PCs
  <1>8. Concern(q) = q.ids \X (q.add \union q.rem) /\ Concern(z) = Concern(q)
    BY <1>2, <1>3, <1>7, ConcernOf DEF Flagging
  <1>9. Fits(z)
    BY <1>2, <1>3, <1>7, <1>8 DEF Fits
  <1>10. /\ OnlyTouches(Concern(q)) /\ Contents'
         /\ \A m \in Msgs :
                /\ server'[m] = Gone <=> server[m] = Gone
                /\ m \notin q.ids \intersect In(q.at) => server'[m] = server[m]
                /\ m \in q.ids \intersect In(q.at) /\ server[m] # Gone
                       => server'[m] = (server[m] \union {}) \ q.rem
    <2>1. q.rem \in SUBSET site.marks /\ {} \in SUBSET site.marks
      BY <1>2 DEF Fits
    <2>2. PICK ms, C, plus, minus :
              /\ ms = q.ids \intersect In(q.at) /\ C = Concern(q) /\ plus = {} /\ minus = q.rem
      OBVIOUS
    <2>3. \A m \in ms, a \in plus \union minus : <<m, a>> \in C
      BY <1>8, <2>2
    <2>4. plus \in SUBSET site.marks /\ minus \in SUBSET site.marks
          /\ server' = Stored(ms, plus, minus)
      BY <1>4, <1>5, <2>1, <2>2
    <2>5. row' = row /\ site' = site
      BY <1>4, <1>5
    <2>6. OnlyTouches(C) /\ Contents' /\ StoredIs(ms, plus, minus)
      BY <2>3, <2>4, <2>5, StoredTouches
    <2> QED BY <2>2, <2>6 DEF StoredIs
  <1>11. Claims(z)'
    <2>1. Pushed(z)' \subseteq Pushed(q) \union Half(q) /\ Half(z)' = {} /\ Written(z)' = {}
      BY <1>2, <1>3, <1>7 DEF Pushed, Half, Written, Fits
    <2>2. \A n \in Pushed(z)', a \in q.add \union q.rem :
               <<n, a>> \notin q.raced => ServerRight(z, n, a)'
      <3> SUFFICES ASSUME NEW n \in Pushed(z)', NEW a \in q.add \union q.rem, <<n, a>> \notin q.raced
                   PROVE ServerRight(z, n, a)'
        OBVIOUS
      <3>1. CASE n \in Half(q)
        <4>1. n \in q.ids \intersect In(q.at) /\ n \in Msgs
          BY <1>2, <3>1 DEF Half, In
        <4>2. a \in q.add => server[n] = Gone \/ a \in server[n]
          BY <1>2, <3>1 DEF Claims
        <4> QED BY <1>7, <1>10, <4>1, <4>2 DEF ServerRight
      <3>2. CASE n \in Pushed(q) \ Half(q)
        <4>1. n \in Msgs /\ n \notin In(q.at) /\ server'[n] = server[n]
          BY <1>2, <1>10, <3>2 DEF Pushed, Half, In
        <4>2. ServerRight(q, n, a)
          BY <1>2, <3>2 DEF Claims
        <4> QED BY <1>7, <4>1, <4>2 DEF ServerRight
      <3> QED BY <2>1, <3>1, <3>2
    <2> QED BY <1>3, <1>7, <2>1, <2>2 DEF Claims
  <1>12. Become(p, z) /\ z.pc # "put" /\ q.pc # "put"
    BY <1>2, <1>3, <1>4, <1>6, <1>7
  <1> QED BY <1>1, <1>7, <1>8, <1>9, <1>10, <1>11, <1>12, BecomeKeeps

\* An invocation that concerns whole messages, and has its part on the server still to
\* do or the rows to drop, relies on nothing.
LEMMA NothingClaimed ==
    ASSUME NEW z, z.pc \in {"move", "mark", "expunge", "drop", "sweep", "delete"}
    PROVE  Claims(z)' /\ Concern(z) = z.ids \X Aspects
  <1>1. Pushed(z)' = {} /\ Half(z)' = {} /\ Written(z)' = {}
    BY DEF Pushed, Half, Written
  <1>2. Claims(z)'
    BY <1>1 DEF Claims
  <1> QED BY <1>2, ConcernOf DEF Flagging

LEMMA MoveKeeps ==
    ASSUME IInv, NEW p \in Procs, Move(p) PROVE IInv'
  <1>1. PICK q : q = proc[p]
    OBVIOUS
  <1>2. /\ q \in Process /\ Fits(q) /\ q.pc = "move"
        /\ q.ids \subseteq Msgs /\ q.left \subseteq Folders
    BY <1>1 DEF IInv, Typed, TypeOK, Move, Process
  <1>3. PICK fo \in q.left :
            /\ server' = Removed(q.ids \intersect In(fo))
            /\ Become(p, [q EXCEPT !.left = @ \ {fo},
                                   !.pc = IF q.left = {fo} THEN "drop" ELSE "move"])
    BY <1>1 DEF Move
  <1>4. row' = row /\ site' = site
    BY <1>3 DEF Move, Become
  <1>5. PICK z : z = [q EXCEPT !.left = @ \ {fo}, !.pc = IF q.left = {fo} THEN "drop" ELSE "move"]
    OBVIOUS
  <1>6. /\ z.pc \in {"move", "drop"} /\ z.at = q.at /\ z.ids = q.ids /\ z.add = q.add /\ z.rem = q.rem
        /\ z.left = q.left \ {fo} /\ z.todo = q.todo /\ z.rest = q.rest /\ z.raced = q.raced
        /\ z \in Process
    BY <1>2, <1>3, <1>5 DEF Process, PCs
  <1>7. Concern(q) = q.ids \X Aspects /\ Concern(z) = Concern(q) /\ Claims(z)'
    <2>1. Concern(q) = q.ids \X Aspects
      BY <1>2, ConcernOf DEF Flagging
    <2> QED BY <1>6, <2>1, NothingClaimed
  <1>8. Fits(z)
    BY <1>2, <1>3, <1>6, <1>7 DEF Fits
  <1>9. OnlyTouches(Concern(q)) /\ Contents'
    <2>1. \A m \in q.ids \intersect In(fo) : <<m, Gone>> \in Concern(q)
      BY <1>7 DEF Aspects
    <2> QED BY <1>3, <1>4, <2>1, RemovedTouches
  <1> QED BY <1>1, <1>2, <1>3, <1>5, <1>6, <1>7, <1>8, <1>9, BecomeKeeps

LEMMA MarkKeeps ==
    ASSUME IInv, NEW p \in Procs, Mark(p) PROVE IInv'
  <1>1. PICK q : q = proc[p]
    OBVIOUS
  <1>2. /\ q \in Process /\ Fits(q) /\ q.pc = "mark" /\ ~site.gmail
        /\ q.ids \subseteq Msgs /\ q.left \subseteq Folders
    BY <1>1 DEF IInv, Typed, TypeOK, Mark, Process, Fits
  <1>3. PICK fo \in q.left :
            /\ server' = Stored(q.ids \intersect In(fo), {Deleted}, {})
            /\ Become(p, [q EXCEPT !.pc = "expunge", !.at = fo])
    BY <1>1 DEF Mark
  <1>4. row' = row /\ site' = site
    BY <1>3 DEF Mark, Become
  <1>5. PICK z : z = [q EXCEPT !.pc = "expunge", !.at = fo]
    OBVIOUS
  <1>6. /\ z.pc = "expunge" /\ z.at = fo /\ z.ids = q.ids /\ z.add = q.add /\ z.rem = q.rem
        /\ z.left = q.left /\ z.todo = q.todo /\ z.rest = q.rest /\ z.raced = q.raced
        /\ z \in Process
    BY <1>2, <1>3, <1>5 DEF Process, PCs
  <1>7. Concern(q) = q.ids \X Aspects /\ Concern(z) = Concern(q) /\ Claims(z)'
    <2>1. Concern(q) = q.ids \X Aspects
      BY <1>2, ConcernOf DEF Flagging
    <2> QED BY <1>6, <2>1, NothingClaimed
  <1>8. Fits(z)
    BY <1>2, <1>3, <1>6, <1>7 DEF Fits
  <1>9. OnlyTouches(Concern(q)) /\ Contents'
    <2>1. {Deleted} \subseteq site.marks
      BY <1>2, MarksAreFlags
    <2>2. \A m \in q.ids \intersect In(fo), a \in {Deleted} \union {} : <<m, a>> \in Concern(q)
      BY <1>7, <2>1 DEF Aspects
    <2> QED BY <1>3, <1>4, <2>1, <2>2, StoredTouches
  <1> QED BY <1>1, <1>2, <1>3, <1>5, <1>6, <1>7, <1>8, <1>9, BecomeKeeps

LEMMA PurgeMarkKeeps ==
    ASSUME IInv, NEW p \in Procs, PurgeMark(p) PROVE IInv'
  <1>1. PICK q : q = proc[p]
    OBVIOUS
  <1>2. /\ q \in Process /\ Fits(q) /\ q.pc = "purge" /\ ~site.gmail /\ q.ids \subseteq Msgs
    BY <1>1 DEF IInv, Typed, TypeOK, PurgeMark, Process, Fits
  <1>3. /\ server' = Stored(q.ids, {Deleted}, {})
        /\ Become(p, [q EXCEPT !.pc = "sweep"])
        /\ row' = row /\ site' = site
    BY <1>1 DEF PurgeMark, Become
  <1>4. PICK z : z = [q EXCEPT !.pc = "sweep"]
    OBVIOUS
  <1>5. /\ z.pc = "sweep" /\ z.at = q.at /\ z.ids = q.ids /\ z.add = q.add /\ z.rem = q.rem
        /\ z.left = q.left /\ z.todo = q.todo /\ z.rest = q.rest /\ z.raced = q.raced
        /\ z \in Process
    BY <1>2, <1>4 DEF Process, PCs
  <1>6. Concern(q) = q.ids \X Aspects
    BY <1>2, ConcernOf DEF Flagging
  <1>7. Concern(z) = Concern(q) /\ Claims(z)'
    BY <1>5, <1>6, NothingClaimed
  <1>8. Fits(z)
    BY <1>2, <1>5, <1>6, <1>7 DEF Fits
  <1>9. OnlyTouches(Concern(q)) /\ Contents'
    <2>1. {Deleted} \subseteq site.marks
      BY <1>2, MarksAreFlags
    <2>2. \A m \in q.ids, a \in {Deleted} \union {} : <<m, a>> \in Concern(q)
      BY <1>6, <2>1 DEF Aspects
    <2> QED BY <1>3, <2>1, <2>2, StoredTouches
  <1> QED BY <1>1, <1>2, <1>3, <1>4, <1>5, <1>7, <1>8, <1>9, BecomeKeeps

\* What it is for a row to be wrong after a step.
LEMMA WrongIs ==
    ASSUME IInv, site' = site, Contents', NEW c \in AllWrong'
    PROVE  \E n \in Msgs, a \in Aspects :
               /\ c = <<n, a>> /\ row'[n] # NoRow
               /\ IF a = Gone THEN server'[n] = Gone
                  ELSE server'[n] # Gone /\ ~(a \in row'[n] <=> a \in server'[n])
  <1>0. PICK n \in Msgs : c \in Wrong(n)'
    BY DEF AllWrong
  <1>1. row'[n] # NoRow
    BY <1>0 DEF Wrong
  <1>2. CASE server'[n] = Gone
    <2>1. c = <<n, Gone>>
      BY <1>0, <1>1, <1>2 DEF Wrong
    <2> QED BY <1>1, <1>2, <2>1 DEF Aspects
  <1>3. CASE server'[n] # Gone
    <2>1. PICK a \in (row'[n] \ server'[n]) \union (server'[n] \ row'[n]) : c = <<n, a>>
      BY <1>0, <1>1, <1>3 DEF Wrong
    <2>2. a \in site.marks
      <3>1. row'[n] \subseteq site.marks /\ server'[n] \subseteq site.marks
        BY <1>1, <1>3 DEF Contents
      <3> QED BY <2>1, <3>1
    <2>3. a # Gone
      BY <2>2, MarksAreFlags
    <2> QED BY <1>1, <1>3, <2>1, <2>2, <2>3 DEF Aspects
  <1> QED BY <1>2, <1>3

LEMMA WriteFlagsKeeps ==
    ASSUME IInv, NEW p \in Procs, WriteFlags(p) PROVE IInv'
  <1>1. PICK q : q = proc[p]
    OBVIOUS
  <1>2. /\ q \in Process /\ Fits(q) /\ Claims(q) /\ q.pc = "flags"
        /\ q.ids \subseteq Msgs /\ q.todo \subseteq q.ids /\ q.add \union q.rem \subseteq site.marks
        /\ q.raced \subseteq Concern(q)
    BY <1>1 DEF IInv, Typed, TypeOK, WriteFlags, Process, Fits
  <1>a. PICK m \in q.todo, written \in BOOLEAN :
            LET un == {m} \X (IF written THEN q.add \intersect q.rem ELSE q.add \union q.rem)
            IN  /\ IF written THEN UpdateFlags(m, q.add, q.rem) ELSE UNCHANGED row
                /\ IF q.todo = {m} THEN End(p, Concern(q) \ un)
                   ELSE Become(p, [q EXCEPT !.todo = @ \ {m}, !.raced = @ \union un])
    BY <1>1 DEF WriteFlags
  <1>b. PICK un : un = {m} \X (IF written THEN q.add \intersect q.rem ELSE q.add \union q.rem)
    OBVIOUS
  <1>3. /\ un = {m} \X (IF written THEN q.add \intersect q.rem ELSE q.add \union q.rem)
        /\ IF written THEN UpdateFlags(m, q.add, q.rem) ELSE UNCHANGED row
        /\ IF q.todo = {m} THEN End(p, Concern(q) \ un)
           ELSE Become(p, [q EXCEPT !.todo = @ \ {m}, !.raced = @ \union un])
    BY <1>a, <1>b
  <1>4. server' = server /\ site' = site
    BY <1>3 DEF WriteFlags, End, Become
  <1>5. Concern(q) = q.ids \X (q.add \union q.rem) /\ un \subseteq Concern(q)
        /\ Concern(q) \subseteq Msgs \X (Flags \union {Gone})
    <2>1. Concern(q) = q.ids \X (q.add \union q.rem)
      BY <1>2, ConcernOf DEF Flagging
    <2>2. site.marks \subseteq Flags
      BY MarksAreFlags
    <2>3. Concern(q) \subseteq Msgs \X (Flags \union {Gone})
      BY <1>2, <2>1, <2>2
    <2> QED BY <1>2, <1>3, <2>1, <2>3
  <1>6. /\ \A n \in Msgs \ {m} : row'[n] = row[n]
        /\ row'[m] = IF written /\ row[m] # NoRow THEN (row[m] \ q.rem) \union q.add ELSE row[m]
        /\ row' \in [Msgs -> Value \union {NoRow}]
    <2>1. \A n \in Msgs : row[n] = NoRow \/ (row[n] \subseteq site.marks /\ row[n] \in Value)
      BY MarksAreFlags DEF IInv, Typed, Contents, Value
    <2>2. row \in [Msgs -> Value \union {NoRow}] /\ m \in Msgs
      BY <1>2 DEF IInv, Typed, Contents
    <2>3. row[m] # NoRow => (row[m] \ q.rem) \union q.add \in Value
      BY <1>2, <2>1, <2>2, MarksAreFlags DEF Value
    <2>4. row' = row \/ (row[m] # NoRow /\ row' = [row EXCEPT ![m] = (row[m] \ q.rem) \union q.add])
      BY <1>3 DEF UpdateFlags
    <2>5. written /\ row[m] # NoRow => row' = [row EXCEPT ![m] = (row[m] \ q.rem) \union q.add]
      BY <1>3 DEF UpdateFlags
    <2>6. ~written \/ row[m] = NoRow => row' = row
      BY <1>3 DEF UpdateFlags
    <2> QED BY <2>2, <2>3, <2>4, <2>5, <2>6
  <1>7. Contents'
    <2>1. \A n \in Msgs : row'[n] = NoRow \/ row'[n] \subseteq site.marks
      BY <1>2, <1>6 DEF IInv, Typed, Contents
    <2> QED BY <1>4, <1>6, <2>1 DEF IInv, Typed, Contents
  <1>8. OnlyTouches(Concern(q))
    <2>1. \A n \in Msgs, a \in Aspects : SameServer(n, a)
      BY <1>4 DEF SameServer
    <2>2. \A n \in Msgs, a \in Aspects : <<n, a>> \notin Concern(q) => SameRow(n, a)
      BY <1>2, <1>5, <1>6 DEF SameRow
    <2> QED BY <2>1, <2>2 DEF OnlyTouches
  <1>9. ASSUME NEW a \in q.add \union q.rem, <<m, a>> \notin un
        PROVE  /\ row'[m] = NoRow \/ (a \in row'[m] <=> a \in q.add)
               /\ a \notin q.add \intersect q.rem
    BY <1>2, <1>3, <1>6, <1>9
  <1>10. CASE q.todo = {m}
    <2>1. End(p, Concern(q) \ un)
      BY <1>3, <1>10
    <2>2. \A c \in AllWrong' : c \notin (Concern(q) \ un) \ q.raced
      <3> SUFFICES ASSUME NEW c \in AllWrong', c \in Concern(q), c \notin un, c \notin q.raced
                   PROVE  FALSE
        OBVIOUS
      <3>1. PICK n \in Msgs, a \in Aspects :
               /\ c = <<n, a>> /\ row'[n] # NoRow
               /\ IF a = Gone THEN server'[n] = Gone
                  ELSE server'[n] # Gone /\ ~(a \in row'[n] <=> a \in server'[n])
        BY <1>4, <1>7, WrongIs
      <3>2. n \in q.ids /\ a \in q.add \union q.rem
        BY <1>5, <3>1
      <3>3. a # Gone
        BY <1>2, <3>2, MarksAreFlags
      <3>4. server[n] # Gone /\ ~(a \in row'[n] <=> a \in server[n])
        BY <1>4, <3>1, <3>3
      <3>5. ServerRight(q, n, a)
        BY <1>2, <3>1, <3>2 DEF Claims, Pushed
      <3>6. row'[n] # NoRow => (a \in row'[n] <=> a \in q.add) /\ a \notin q.add \intersect q.rem
        <4>1. CASE n = m
          BY <1>9, <3>1, <3>2, <4>1
        <4>2. CASE n # m
          <5>1. n \in Written(q)
            BY <1>2, <1>10, <3>2, <4>2 DEF Written
          <5>2. RowRight(q, n, a) /\ a \notin q.add \intersect q.rem
            BY <1>2, <3>1, <3>2, <5>1 DEF Claims
          <5> QED BY <1>6, <3>1, <4>2, <5>2 DEF RowRight
        <4> QED BY <4>1, <4>2
      <3> QED BY <3>1, <3>2, <3>4, <3>5, <3>6 DEF ServerRight
    <2> QED BY <1>1, <1>7, <1>8, <2>1, <2>2, EndKeeps
  <1>11. CASE q.todo # {m}
    <2>1. PICK z : z = [q EXCEPT !.todo = @ \ {m}, !.raced = @ \union un]
      OBVIOUS
    <2>2. /\ z.pc = "flags" /\ z.at = q.at /\ z.ids = q.ids /\ z.add = q.add /\ z.rem = q.rem
          /\ z.left = q.left /\ z.todo = q.todo \ {m} /\ z.rest = q.rest /\ z.raced = q.raced \union un
          /\ z.verb = q.verb /\ z.got = q.got
      BY <1>2, <2>1 DEF Process
    <2>3. z \in Process
      <3>1. q.raced \union un \subseteq Msgs \X (Flags \union {Gone})
        BY <1>2, <1>5
      <3> QED BY <1>2, <2>1, <3>1 DEF Process
    <2>4. Concern(z) = Concern(q)
      BY <1>5, <2>2, ConcernOf DEF Flagging
    <2>5. Fits(z)
      BY <1>2, <1>5, <2>2, <2>4 DEF Fits
    <2>6. Claims(z)'
      <3>1. Pushed(z)' = q.ids /\ Pushed(q) = q.ids /\ Half(z)' = {}
            /\ Written(z)' = Written(q) \union {m}
        BY <1>2, <2>2 DEF Pushed, Half, Written
      <3>2. \A n \in Pushed(q), a \in q.add \union q.rem :
               <<n, a>> \notin z.raced => ServerRight(z, n, a)'
        BY <1>2, <1>4, <2>2 DEF Claims, ServerRight
      <3>3. \A n \in Written(q), a \in q.add \union q.rem :
               <<n, a>> \notin z.raced => RowRight(z, n, a)' /\ a \notin q.add \intersect q.rem
        <4> SUFFICES ASSUME NEW n \in Written(q), NEW a \in q.add \union q.rem, <<n, a>> \notin z.raced
                     PROVE  RowRight(z, n, a)' /\ a \notin q.add \intersect q.rem
          OBVIOUS
        <4>1. n \in Msgs /\ n # m
          BY <1>2 DEF Written
        <4>2. RowRight(q, n, a) /\ a \notin q.add \intersect q.rem
          BY <1>2, <2>2 DEF Claims
        <4> QED BY <1>6, <2>2, <4>1, <4>2 DEF RowRight
      <3>4. \A a \in q.add \union q.rem :
               <<m, a>> \notin z.raced => RowRight(z, m, a)' /\ a \notin q.add \intersect q.rem
        BY <1>9, <2>2 DEF RowRight
      <3> QED BY <2>2, <3>1, <3>2, <3>3, <3>4 DEF Claims
    <2>7. Become(p, z) /\ z.pc # "put" /\ q.pc # "put" /\ q.raced \subseteq z.raced
      BY <1>2, <1>3, <1>11, <2>1, <2>2
    <2> QED BY <1>1, <1>7, <1>8, <2>3, <2>4, <2>5, <2>6, <2>7, BecomeKeeps
  <1> QED BY <1>10, <1>11

LEMMA DropRowsKeeps ==
    ASSUME IInv, NEW p \in Procs, DropRows(p) PROVE IInv'
  <1>1. PICK q : q = proc[p]
    OBVIOUS
  <1>2. /\ q \in Process /\ q.pc = "drop" /\ DeleteByIDs(q.ids) /\ End(p, Concern(q))
        /\ server' = server /\ site' = site
    BY <1>1 DEF IInv, Typed, TypeOK, DropRows, End
  <1>3. Concern(q) = q.ids \X Aspects
    BY <1>2, ConcernOf DEF Flagging
  <1>4. \A n \in Msgs : IF n \in q.ids THEN row'[n] = NoRow ELSE row'[n] = row[n]
    BY <1>2 DEF DeleteByIDs
  <1>5. Contents'
    <2>1. row' \in [Msgs -> Value \union {NoRow}]
      BY <1>2 DEF DeleteByIDs, IInv, Typed, Contents
    <2> QED BY <1>2, <1>4, <2>1 DEF IInv, Typed, Contents
  <1>6. OnlyTouches(Concern(q))
    BY <1>2, <1>3, <1>4 DEF OnlyTouches, SameServer, SameRow
  <1>7. \A c \in AllWrong' : c \notin Concern(q) \ q.raced
    <2> SUFFICES ASSUME NEW c \in AllWrong' PROVE c \notin Concern(q)
      OBVIOUS
    <2>1. PICK n \in Msgs, a \in Aspects : c = <<n, a>> /\ row'[n] # NoRow
      BY <1>2, <1>5, WrongIs
    <2> QED BY <1>3, <1>4, <2>1
  <1> QED BY <1>1, <1>2, <1>5, <1>6, <1>7, EndKeeps

LEMMA SweepKeeps ==
    ASSUME IInv, NEW p \in Procs, Sweep(p) PROVE IInv'
  <1>1. PICK q, ms : q = proc[p] /\ ms = {m \in q.ids \intersect There : Deleted \in server[m]}
    OBVIOUS
  <1>2. /\ q \in Process /\ Fits(q) /\ q.pc = "sweep" /\ server' = Removed(ms)
        /\ row' = row /\ site' = site
    BY <1>1 DEF IInv, Typed, TypeOK, Sweep, End, Become
  <1>3. Concern(q) = q.ids \X Aspects
    BY <1>2, ConcernOf DEF Flagging
  <1>4. OnlyTouches(Concern(q)) /\ Contents'
    <2>1. \A m \in ms : <<m, Gone>> \in Concern(q)
      BY <1>1, <1>3 DEF Aspects
    <2> QED BY <1>2, <2>1, RemovedTouches
  <1>5. CASE q.left = {}
    <2>1. End(p, {})
      BY <1>1, <1>5 DEF Sweep
    <2> QED BY <1>1, <1>4, <2>1, FailureKeeps
  <1>6. CASE q.left # {}
    <2>1. PICK z : z = [q EXCEPT !.pc = "delete"]
      OBVIOUS
    <2>2. Become(p, z)
      BY <1>1, <1>6, <2>1 DEF Sweep
    <2>3. /\ z.pc = "delete" /\ z.at = q.at /\ z.ids = q.ids /\ z.add = q.add /\ z.rem = q.rem
          /\ z.left = q.left /\ z.todo = q.todo /\ z.rest = q.rest /\ z.raced = q.raced
          /\ z \in Process
      BY <1>2, <2>1 DEF Process, PCs
    <2>4. Concern(z) = Concern(q) /\ Claims(z)'
      BY <1>3, <2>3, NothingClaimed
    <2>5. Fits(z)
      BY <1>2, <2>3, <2>4 DEF Fits
    <2> QED BY <1>1, <1>2, <1>4, <2>2, <2>3, <2>4, <2>5, BecomeKeeps
  <1> QED BY <1>5, <1>6

LEMMA DeleteFolderKeeps ==
    ASSUME IInv, NEW p \in Procs, DeleteFolder(p) PROVE IInv'
  <1>1. PICK q : q = proc[p]
    OBVIOUS
  <1>2. /\ q.pc = "delete" /\ q.ids \subseteq Msgs /\ server' = Removed(q.ids)
        /\ End(p, {}) /\ row' = row /\ site' = site
    BY <1>1 DEF IInv, Typed, TypeOK, DeleteFolder, End, Process
  <1>3. \A m \in q.ids : <<m, Gone>> \in Concern(q)
    BY <1>2, ConcernOf DEF Flagging, Aspects
  <1>4. OnlyTouches(Concern(q)) /\ Contents'
    BY <1>2, <1>3, RemovedTouches
  <1> QED BY <1>1, <1>2, <1>4, FailureKeeps

\* The flag that a read sets is its whole concern, which is in doubt from then on.
LEMMA MarkSeenKeeps ==
    ASSUME IInv, NEW p \in Procs, MarkSeen(p) PROVE IInv'
  <1>1. PICK q : q = proc[p]
    OBVIOUS
  <1>2. /\ Fits(q) /\ q.pc = "read" /\ server' = Stored(q.ids, q.add, {})
        /\ End(p, {}) /\ row' = row /\ site' = site
    BY <1>1 DEF IInv, Typed, MarkSeen, End
  <1>3. q.add \in SUBSET site.marks /\ \A m \in q.ids, a \in q.add \union {} : <<m, a>> \in Concern(q)
    BY <1>2, ConcernOf DEF Flagging, Fits
  <1>4. OnlyTouches(Concern(q)) /\ Contents'
    BY <1>2, <1>3, StoredTouches
  <1> QED BY <1>1, <1>2, <1>4, FailureKeeps

LEMMA FailKeeps ==
    ASSUME IInv, NEW p \in Procs, Fail(p) PROVE IInv'
  <1>1. End(p, {}) /\ server' = server /\ row' = row /\ site' = site
    BY DEF Fail, End
  <1>2. Contents'
    BY <1>1 DEF IInv, Typed, Contents
  <1>3. OnlyTouches(Concern(proc[p]))
    BY <1>1 DEF OnlyTouches, SameServer, SameRow
  <1> QED BY <1>1, <1>2, <1>3, FailureKeeps

LEMMA GmailCallKeeps ==
    ASSUME IInv, NEW p \in Procs, GmailCall(p) PROVE IInv'
  <1>1. PICK q : q = proc[p]
    OBVIOUS
  <1>2. /\ q \in Process /\ Fits(q) /\ Claims(q) /\ q.pc = "call"
        /\ q.ids \subseteq Msgs /\ q.rest \subseteq q.ids /\ q.add \union q.rem \subseteq site.marks
        /\ q.raced \subseteq Concern(q)
    BY <1>1 DEF IInv, Typed, TypeOK, GmailCall, Process, Fits
  <1>a. PICK m \in q.rest \intersect There :
          \E v : /\ v \in IF q.verb \in {"erase", "purge"} THEN {Gone}
                            ELSE {(server[m] \union q.add) \ q.rem, (server[m] \ q.rem) \union q.add}
                 /\ server' = [server EXCEPT ![m] = v]
                 /\ IF q.rest # {m} THEN Become(p, [q EXCEPT !.rest = @ \ {m}])
                    ELSE IF q.verb \in {"copy", "purge"} THEN End(p, {})
                    ELSE Become(p, [q EXCEPT !.rest = {},
                                             !.pc = IF q.verb = "flag" THEN "flags" ELSE "drop"])
    BY <1>1 DEF GmailCall
  <1>3. PICK v :
            /\ v \in IF q.verb \in {"erase", "purge"} THEN {Gone}
                     ELSE {(server[m] \union q.add) \ q.rem, (server[m] \ q.rem) \union q.add}
            /\ server' = [server EXCEPT ![m] = v]
            /\ IF q.rest # {m} THEN Become(p, [q EXCEPT !.rest = @ \ {m}])
               ELSE IF q.verb \in {"copy", "purge"} THEN End(p, {})
               ELSE Become(p, [q EXCEPT !.rest = {},
                                        !.pc = IF q.verb = "flag" THEN "flags" ELSE "drop"])
    BY <1>a
  <1>4. row' = row /\ site' = site
    BY <1>3 DEF GmailCall, Become, End
  <1>5. m \in Msgs /\ m \in q.ids /\ server[m] # Gone /\ server[m] \subseteq site.marks
    BY <1>2, <1>3 DEF There, IInv, Typed, Contents
  <1>6. /\ server'[m] = v /\ \A n \in Msgs \ {m} : server'[n] = server[n]
        /\ v = Gone \/ (v \in Value /\ v \subseteq site.marks)
        /\ server' \in [Msgs -> Value \union {Gone}]
    <2>1. server \in [Msgs -> Value \union {Gone}]
      BY DEF IInv, Typed, Contents
    <2>2. v = Gone \/ v \subseteq site.marks
      BY <1>2, <1>3, <1>5
    <2>3. v = Gone \/ v \in Value
      BY <2>2, MarksAreFlags DEF Value
    <2> QED BY <1>3, <1>5, <2>1, <2>2, <2>3
  <1>7. Concern(q) = IF q.verb \in {"flag", "copy"} THEN q.ids \X (q.add \union q.rem)
                     ELSE q.ids \X Aspects
    BY <1>2, ConcernOf DEF Flagging
  <1>8. q.add \union q.rem \subseteq Aspects /\ Gone \in Aspects
    BY <1>2 DEF Aspects
  <1>9. OnlyTouches(Concern(q)) /\ Contents'
    <2>1. CASE q.verb \in {"erase", "purge"}
      <3>1. server' = Removed({m})
        <4>1. v = Gone
          BY <1>3, <2>1
        <4> QED BY <1>3, <4>1 DEF Removed, IInv, Typed, Contents
      <3>2. \A n \in {m} : <<n, Gone>> \in Concern(q)
        BY <1>5, <1>7, <1>8, <2>1
      <3> QED BY <1>4, <3>1, <3>2, RemovedTouches
    <2>2. CASE q.verb \notin {"erase", "purge"}
      <3>1. PICK ms, marks, C : ms = {m} /\ marks = q.add \union q.rem /\ C = Concern(q)
        OBVIOUS
      <3>2. v # Gone /\ v \subseteq site.marks
        BY <1>2, <1>3, <1>5, <2>2, MarksAreFlags
      <3>3. \A a \in site.marks \ marks : a \in v <=> a \in server[m]
        BY <1>3, <2>2, <3>1
      <3>4. \A n \in Msgs :
               IF n \in ms /\ server[n] # Gone
               THEN /\ server'[n] # Gone /\ server'[n] \subseteq site.marks
                    /\ \A a \in site.marks \ marks : a \in server'[n] <=> a \in server[n]
               ELSE server'[n] = server[n]
        BY <1>5, <1>6, <3>1, <3>2, <3>3
      <3>5. \A n \in ms, a \in marks : <<n, a>> \in C
        BY <1>5, <1>7, <1>8, <3>1
      <3>6. marks \subseteq site.marks
        BY <1>2, <3>1
      <3>7. OnlyTouches(C) /\ Contents'
        BY <1>4, <1>6, <3>4, <3>5, <3>6, ServerChanged
      <3> QED BY <3>1, <3>7
    <2> QED BY <2>1, <2>2
  <1>10. ASSUME NEW a \in q.add \union q.rem
         PROVE  v = Gone \/ (/\ a \in q.add \ q.rem => a \in v
                             /\ a \in q.rem \ q.add => a \notin v)
    BY <1>3
  <1>11. ASSUME NEW n \in Pushed(q) \union {m}, NEW a \in q.add \union q.rem, <<n, a>> \notin q.raced
         PROVE  /\ server'[n] = Gone \/ (/\ a \in q.add \ q.rem => a \in server'[n]
                                         /\ a \in q.rem \ q.add => a \notin server'[n])
    <2>1. CASE n = m
      BY <1>6, <1>10, <2>1
    <2>2. CASE n # m
      <3>1. n \in Msgs /\ server'[n] = server[n]
        BY <1>2, <1>6, <1>11, <2>2 DEF Pushed
      <3>2. ServerRight(q, n, a)
        BY <1>2, <1>11, <2>2 DEF Claims
      <3> QED BY <3>1, <3>2 DEF ServerRight
    <2> QED BY <2>1, <2>2
  <1>12. CASE q.rest # {m}
    <2>1. PICK z : z = [q EXCEPT !.rest = @ \ {m}]
      OBVIOUS
    <2>2. /\ z.pc = "call" /\ z.at = q.at /\ z.ids = q.ids /\ z.add = q.add /\ z.rem = q.rem
          /\ z.left = q.left /\ z.todo = q.todo /\ z.rest = q.rest \ {m} /\ z.raced = q.raced
          /\ z.verb = q.verb /\ z.got = q.got
      BY <1>2, <2>1 DEF Process
    <2>3. z \in Process
      BY <1>2, <2>1 DEF Process
    <2>4. Concern(z) = Concern(q)
      BY <1>7, <2>2, ConcernOf DEF Flagging
    <2>5. Fits(z)
      BY <1>2, <2>2, <2>4 DEF Fits
    <2>6. Claims(z)'
      <3>1. Pushed(z)' \subseteq Pushed(q) \union {m} /\ Half(z)' = {} /\ Written(z)' = {}
        BY <1>2, <2>2 DEF Pushed, Half, Written
      <3>2. \A n \in Pushed(z)', a \in q.add \union q.rem :
                 <<n, a>> \notin q.raced => ServerRight(z, n, a)'
        BY <1>11, <2>2, <3>1 DEF ServerRight
      <3> QED BY <2>2, <3>1, <3>2 DEF Claims
    <2>7. Become(p, z) /\ z.pc # "put" /\ q.pc # "put"
      BY <1>2, <1>3, <1>12, <2>1, <2>2
    <2> QED BY <1>1, <1>9, <2>2, <2>3, <2>4, <2>5, <2>6, <2>7, BecomeKeeps
  <1>13. CASE q.rest = {m} /\ q.verb \in {"copy", "purge"}
    <2>1. End(p, {})
      BY <1>3, <1>13
    <2> QED BY <1>1, <1>9, <2>1, FailureKeeps
  <1>14. CASE q.rest = {m} /\ q.verb \notin {"copy", "purge"}
    <2>1. PICK pc : pc = IF q.verb = "flag" THEN "flags" ELSE "drop"
      OBVIOUS
    <2>2. PICK z : z = [q EXCEPT !.rest = {}, !.pc = pc]
      OBVIOUS
    <2>3. /\ z.pc = pc /\ z.at = q.at /\ z.ids = q.ids /\ z.add = q.add /\ z.rem = q.rem
          /\ z.left = q.left /\ z.todo = q.todo /\ z.rest = {} /\ z.raced = q.raced
          /\ z.verb = q.verb /\ z.got = q.got
      BY <1>2, <2>2 DEF Process
    <2>4. z \in Process
      <3>1. pc \in PCs
        BY <2>1 DEF PCs
      <3> QED BY <1>2, <2>2, <3>1 DEF Process
    <2>5. Concern(z) = Concern(q)
      <3>1. CASE q.verb = "flag"
        BY <1>7, <2>1, <2>3, <3>1, ConcernOf DEF Flagging
      <3>2. CASE q.verb # "flag"
        BY <1>7, <1>14, <2>1, <2>3, <3>2, ConcernOf DEF Flagging
      <3> QED BY <3>1, <3>2
    <2>6. Fits(z)
      BY <1>2, <2>1, <2>3, <2>5 DEF Fits
    <2>7. Claims(z)'
      <3>1. CASE q.verb = "flag"
        <4>1. Pushed(z)' = q.ids /\ Half(z)' = {} /\ Written(z)' = {}
          BY <1>2, <2>1, <2>3, <3>1 DEF Pushed, Half, Written, Fits
        <4>2. q.ids \subseteq Pushed(q) \union {m}
          BY <1>2, <1>14 DEF Pushed
        <4>3. \A n \in q.ids, a \in q.add \union q.rem :
                   <<n, a>> \notin q.raced => ServerRight(z, n, a)'
          BY <1>11, <2>3, <4>2 DEF ServerRight
        <4> QED BY <2>1, <2>3, <3>1, <4>1, <4>3 DEF Claims
      <3>2. CASE q.verb # "flag"
        BY <2>1, <2>3, <3>2, NothingClaimed
      <3> QED BY <3>1, <3>2
    <2>8. Become(p, z) /\ z.pc # "put" /\ q.pc # "put"
      BY <1>2, <1>3, <1>14, <2>1, <2>2, <2>3
    <2> QED BY <1>1, <1>9, <2>3, <2>4, <2>5, <2>6, <2>7, <2>8, BecomeKeeps
  <1> QED BY <1>12, <1>13, <1>14

\* A bare EXPUNGE takes messages that the verb does not concern: they come to be in
\* doubt, and whoever they concern is raced.
LEMMA ExpungeMarkedKeeps ==
    ASSUME IInv, NEW p \in Procs, ExpungeMarked(p) PROVE IInv'
  <1>1. PICK q : q = proc[p]
    OBVIOUS
  <1>2. /\ q \in Process /\ Fits(q) /\ q.pc = "expunge" /\ ~site.gmail
        /\ q.ids \subseteq Msgs /\ q.left \subseteq Folders
    BY <1>1 DEF IInv, Typed, TypeOK, ExpungeMarked, Process, Fits
  <1>a. PICK taken \in SUBSET Msgs :
          \E aside, pc :
            /\ aside = (taken \ q.ids) \X {Gone}
            /\ pc = IF q.left \ {q.at} = {} THEN "drop" ELSE "mark"
            /\ server' = Removed(taken)
            /\ proc' = [Disturbed(aside) EXCEPT
                           ![p] = [q EXCEPT !.pc = pc, !.left = q.left \ {q.at}, !.at = NoFolder]]
            /\ doubt' = doubt \union aside
            /\ site' = site /\ row' = row
    <2>1. {m \in In(q.at) \intersect There : Deleted \in server[m]} \in SUBSET Msgs
      BY DEF In
    <2> QED BY <1>1, <2>1 DEF ExpungeMarked
  <1>3. PICK aside, pc :
            /\ aside = (taken \ q.ids) \X {Gone}
            /\ pc = IF q.left \ {q.at} = {} THEN "drop" ELSE "mark"
            /\ server' = Removed(taken)
            /\ proc' = [Disturbed(aside) EXCEPT
                           ![p] = [q EXCEPT !.pc = pc, !.left = q.left \ {q.at}, !.at = NoFolder]]
            /\ doubt' = doubt \union aside
            /\ site' = site /\ row' = row
    BY <1>a
  <1>4. PICK z : z = [q EXCEPT !.pc = pc, !.left = q.left \ {q.at}, !.at = NoFolder]
    OBVIOUS
  <1>5. /\ z.pc = pc /\ z.at = NoFolder /\ z.ids = q.ids /\ z.add = q.add /\ z.rem = q.rem
        /\ z.left = q.left \ {q.at} /\ z.todo = q.todo /\ z.rest = q.rest /\ z.raced = q.raced
        /\ z \in Process
    BY <1>2, <1>3, <1>4 DEF Process, PCs
  <1>6. proc'[p] = z /\ \A r \in Procs \ {p} : proc'[r] = Disturbed(aside)[r]
    BY <1>3, <1>4, DisturbedIs
  <1>7. Concern(q) = q.ids \X Aspects /\ Concern(z) = Concern(q) /\ Concern(proc[p])' = Concern(q)
    <2>1. Concern(q) = q.ids \X Aspects
      BY <1>2, ConcernOf DEF Flagging
    <2>2. Concern(z) = Concern(q)
      BY <1>3, <1>5, <2>1, NothingClaimed
    <2>3. Concern(proc[p])' = Concern(z)
      BY <1>3, <1>6 DEF Concern, Aspects
    <2> QED BY <2>1, <2>2, <2>3
  <1>8. Fits(proc[p])'
    <2>1. Fits(z)
      BY <1>2, <1>3, <1>5, <1>7 DEF Fits
    <2>2. site' = site /\ proc'[p] = z /\ Concern(proc[p])' = Concern(z)
      BY <1>3, <1>6, <1>7
    <2> QED BY <2>1, <2>2 DEF Fits
  <1>9. Claims(proc[p])'
    <2>1. Pushed(proc[p])' = {} /\ Half(proc[p])' = {} /\ Written(proc[p])' = {}
          /\ proc'[p].pc # "put"
      BY <1>3, <1>5, <1>6 DEF Pushed, Half, Written
    <2> QED BY <2>1 DEF Claims
  <1>10. PICK C : C = Concern(q) \union aside
    OBVIOUS
  <1>11. OnlyTouches(C) /\ Contents'
    <2>1. \A m \in taken : <<m, Gone>> \in C
      BY <1>3, <1>7, <1>10 DEF Aspects
    <2> QED BY <1>3, <2>1, RemovedTouches
  <1>12. TypeOK'
    <2>1. proc' \in [Procs -> Process]
      BY <1>3, <1>4, <1>5, DisturbedIs
    <2>2. \A r \in Procs : proc'[r].at \in proc'[r].left \union {NoFolder}
      BY <1>5, <1>6, DisturbedIs DEF IInv, Typed, TypeOK, Fits, Alike
    <2>3. aside \subseteq Msgs \X Aspects
      BY <1>3 DEF Aspects
    <2> QED BY <1>3, <1>11, <2>1, <2>2, <2>3 DEF IInv, Typed, TypeOK, Contents, Aspects
  <1>13. \A r \in Procs \ {p} :
             /\ Alike(proc[r], proc'[r])
             /\ proc'[r].raced \subseteq Concern(proc[r])
             /\ C \intersect Concern(proc[r]) \subseteq proc'[r].raced
             /\ Concern(proc[p])' \intersect Concern(proc[r])
                    \subseteq proc'[p].raced \intersect proc'[r].raced
    <2> SUFFICES ASSUME NEW r \in Procs \ {p}
                 PROVE  /\ Alike(proc[r], proc'[r])
                        /\ proc'[r].raced \subseteq Concern(proc[r])
                        /\ C \intersect Concern(proc[r]) \subseteq proc'[r].raced
                        /\ Concern(q) \intersect Concern(proc[r])
                               \subseteq q.raced \intersect proc'[r].raced
      BY <1>5, <1>6, <1>7
    <2>1. /\ Alike(proc[r], proc'[r])
          /\ proc'[r].raced \subseteq Concern(proc[r])
          /\ proc'[r].raced = proc[r].raced \union (Concern(proc[r]) \intersect aside)
      BY <1>6, DisturbedIs
    <2>2. Concern(q) \intersect Concern(proc[r]) \subseteq q.raced \intersect proc[r].raced
      BY <1>1 DEF IInv, Shared
    <2> QED BY <1>10, <2>1, <2>2
  <1>14. \A c \in AllWrong' :
            c \in C \/ c \in doubt \/ (c \in Concern(proc[p]) /\ proc[p].pc # "put")
                => c \in doubt' \/ (c \in Concern(proc[p])' /\ proc'[p].pc # "put")
    BY <1>1, <1>3, <1>5, <1>6, <1>7, <1>10
  <1> QED BY <1>3, <1>8, <1>9, <1>11, <1>12, <1>13, <1>14, StepKeeps

\* A page of a sync is stored: where nobody raced the sync it is still what the
\* server says.
LEMMA SyncPutKeeps ==
    ASSUME IInv, NEW p \in Procs, SyncPut(p) PROVE IInv'
  <1>1. PICK q, put, C :
            /\ q = proc[p] /\ put = {m \in Msgs : q.got[m] # Gone} /\ C = put \X Aspects
    OBVIOUS
  <1>2. /\ q \in Process /\ Fits(q) /\ Claims(q) /\ q.pc = "put"
        /\ q.got \in [Msgs -> Value \union {Gone}]
        /\ \A m \in Msgs : q.got[m] = Gone \/ (m \in q.ids /\ q.got[m] \subseteq site.marks)
    BY <1>1 DEF IInv, Typed, TypeOK, SyncPut, Process, Fits
  <1>3. /\ PutEnvelopes(q.got)
        /\ doubt' = (doubt \ (C \ q.raced)) \union q.raced
        /\ proc' = [proc EXCEPT ![p] = Idle]
        /\ site' = site /\ server' = server
    BY <1>1 DEF SyncPut
  <1>4. proc'[p] = Idle /\ \A r \in Procs \ {p} : proc'[r] = proc[r]
    BY <1>3 DEF IInv, Typed, TypeOK
  <1>5. Concern(q) = q.ids \X Aspects /\ C \subseteq Concern(q) /\ Concern(proc[p])' = {}
    <2>1. Concern(q) = q.ids \X Aspects
      BY <1>2, ConcernOf DEF Flagging
    <2>2. Concern(proc[p])' = {}
      BY <1>4, IdleIs DEF Concern
    <2> QED BY <1>1, <1>2, <2>1, <2>2
  <1>6. \A n \in Msgs : IF n \in put THEN row'[n] = q.got[n] ELSE row'[n] = row[n]
    BY <1>1, <1>3 DEF PutEnvelopes
  <1>7. Contents'
    <2>1. \A n \in Msgs : row'[n] \in Value \union {NoRow}
      BY <1>1, <1>2, <1>6 DEF IInv, Typed, Contents
    <2>2. row' \in [Msgs -> Value \union {NoRow}]
      <3>1. row' = [n \in Msgs |-> row'[n]]
        BY <1>3 DEF PutEnvelopes
      <3> QED BY <2>1, <3>1
    <2>3. \A n \in Msgs : row'[n] = NoRow \/ row'[n] \subseteq site.marks
      BY <1>1, <1>2, <1>6 DEF IInv, Typed, Contents
    <2> QED BY <1>3, <2>2, <2>3 DEF IInv, Typed, Contents
  <1>8. OnlyTouches(C)
    <2>1. \A n \in Msgs, a \in Aspects : <<n, a>> \notin C => SameRow(n, a)
      BY <1>1, <1>6 DEF SameRow
    <2> QED BY <1>3, <2>1 DEF OnlyTouches, SameServer
  <1>9. Fits(proc[p])' /\ Claims(proc[p])'
    <2>1. Fits(proc[p])'
      BY <1>3, <1>4, <1>5, IdleIs DEF Fits
    <2>2. Claims(proc[p])'
      BY <1>4 DEF Claims, Pushed, Half, Written, Idle
    <2> QED BY <2>1, <2>2
  <1>10. TypeOK'
    <2>1. \A r \in Procs : proc'[r].at \in proc'[r].left \union {NoFolder}
      BY <1>4, IdleIs DEF IInv, Typed, TypeOK, Fits, Idle
    <2>2. proc' \in [Procs -> Process]
      BY <1>3, IdleIs DEF IInv, Typed, TypeOK
    <2>3. doubt' \subseteq Msgs \X Aspects
      BY <1>1, <1>3, ConcernTyped DEF IInv, Typed, TypeOK
    <2> QED BY <1>3, <1>7, <2>1, <2>2, <2>3 DEF IInv, Typed, TypeOK, Contents, Aspects
  <1>11. \A r \in Procs \ {p} :
             /\ Alike(proc[r], proc'[r])
             /\ proc'[r].raced \subseteq Concern(proc[r])
             /\ C \intersect Concern(proc[r]) \subseteq proc'[r].raced
             /\ Concern(proc[p])' \intersect Concern(proc[r])
                    \subseteq proc'[p].raced \intersect proc'[r].raced
    BY <1>1, <1>4, <1>5, Unmoved
  <1>12. \A c \in AllWrong' : c \notin C \ q.raced
    <2> SUFFICES ASSUME NEW c \in AllWrong', c \in C, c \notin q.raced
                 PROVE  FALSE
      OBVIOUS
    <2>1. PICK n \in Msgs, a \in Aspects :
               /\ c = <<n, a>> /\ row'[n] # NoRow
               /\ IF a = Gone THEN server'[n] = Gone
                  ELSE server'[n] # Gone /\ ~(a \in row'[n] <=> a \in server'[n])
      BY <1>3, <1>7, WrongIs
    <2>2. n \in put /\ row'[n] = q.got[n] /\ q.got[n] # Gone
      BY <1>1, <1>6, <2>1
    <2>3. Fresh(q, n, a)
      BY <1>2, <2>1, <2>2 DEF Claims
    <2> QED BY <1>3, <2>1, <2>2, <2>3 DEF Fresh
  <1>13. \A c \in AllWrong' :
            c \in C \/ c \in doubt \/ (c \in Concern(proc[p]) /\ proc[p].pc # "put")
                => c \in doubt' \/ (c \in Concern(proc[p])' /\ proc'[p].pc # "put")
    BY <1>1, <1>2, <1>3, <1>12
  <1> QED BY <1>3, <1>7, <1>8, <1>9, <1>10, <1>11, <1>13, StepKeeps

\* Another client changes one aspect, which comes to be in doubt.
LEMMA OtherClientKeeps ==
    ASSUME IInv, OtherClient PROVE IInv'
  <1>a. PICK m \in There, a \in Aspects :
          \E v, C :
            /\ v = IF a = Gone THEN Gone
                   ELSE IF a \in server[m] THEN server[m] \ {a} ELSE server[m] \union {a}
            /\ server' = [server EXCEPT ![m] = v]
            /\ C = {<<m, a>>}
            /\ doubt' = doubt \union C
            /\ proc' = Disturbed(C)
            /\ site' = site /\ row' = row
    BY DEF OtherClient
  <1>1. PICK v, C :
            /\ v = IF a = Gone THEN Gone
                   ELSE IF a \in server[m] THEN server[m] \ {a} ELSE server[m] \union {a}
            /\ server' = [server EXCEPT ![m] = v]
            /\ C = {<<m, a>>}
            /\ doubt' = doubt \union C
            /\ proc' = Disturbed(C)
            /\ site' = site /\ row' = row
    BY <1>a
  <1>2. m \in Msgs /\ server[m] # Gone /\ server[m] \subseteq site.marks
    BY DEF There, IInv, Typed, Contents
  <1>3. OnlyTouches(C) /\ Contents'
    <2>1. CASE a = Gone
      <3>1. server' = Removed({m})
        BY <1>1, <2>1 DEF Removed, IInv, Typed, Contents
      <3>2. \A n \in {m} : <<n, Gone>> \in C
        BY <1>1, <2>1
      <3> QED BY <1>1, <3>1, <3>2, RemovedTouches
    <2>2. CASE a # Gone
      <3>1. PICK ms, marks : ms = {m} /\ marks = {a}
        OBVIOUS
      <3>2. a \in site.marks
        BY <2>2 DEF Aspects
      <3>3. v \subseteq site.marks /\ \A b \in site.marks \ marks : b \in v <=> b \in server[m]
        BY <1>1, <1>2, <2>2, <3>1, <3>2
      <3>4. v # Gone /\ v \in Value
        BY <3>3, MarksAreFlags DEF Value
      <3>5. /\ server'[m] = v /\ \A n \in Msgs \ {m} : server'[n] = server[n]
            /\ server' \in [Msgs -> Value \union {Gone}]
        BY <1>1, <1>2, <3>4 DEF IInv, Typed, Contents
      <3>6. \A n \in Msgs :
               IF n \in ms /\ server[n] # Gone
               THEN /\ server'[n] # Gone /\ server'[n] \subseteq site.marks
                    /\ \A b \in site.marks \ marks : b \in server'[n] <=> b \in server[n]
               ELSE server'[n] = server[n]
        BY <1>2, <3>1, <3>3, <3>4, <3>5
      <3>7. marks \subseteq site.marks /\ \A n \in ms, b \in marks : <<n, b>> \in C
        BY <1>1, <3>1, <3>2
      <3>8. site' = site /\ row' = row
        BY <1>1
      <3>9. server' \in [Msgs -> Value \union {Gone}]
        BY <3>5
      <3> QED BY <3>6, <3>7, <3>8, <3>9, ServerChanged
    <2> QED BY <2>1, <2>2
  <1>4. \A r \in Procs :
            /\ Alike(proc[r], proc'[r]) /\ proc'[r] \in Process
            /\ proc'[r].raced \subseteq Concern(proc[r])
            /\ C \intersect Concern(proc[r]) \subseteq proc'[r].raced
    BY <1>1, DisturbedIs
  <1>5. \A r \in Procs :
            Fits(proc[r])' /\ Claims(proc[r])' /\ Concern(proc[r])' = Concern(proc[r])
    BY <1>1, <1>3, <1>4, OthersKeep
  <1>6. Typed'
    <2>1. proc' \in [Procs -> Process]
      <3>1. proc' = [r \in Procs |-> proc'[r]]
        BY <1>1 DEF Disturbed
      <3> QED BY <1>4, <3>1
    <2>2. \A r \in Procs : proc'[r].at \in proc'[r].left \union {NoFolder}
      BY <1>4 DEF IInv, Typed, TypeOK, Alike
    <2>3. doubt' \subseteq Msgs \X Aspects
      BY <1>1, <1>2 DEF IInv, Typed, TypeOK
    <2>4. TypeOK'
      BY <1>1, <1>3, <2>1, <2>2, <2>3 DEF IInv, Typed, TypeOK, Contents, Aspects
    <2> QED BY <1>3, <1>5, <2>4 DEF Typed
  <1>7. Shared'
    BY <1>4, <1>5 DEF IInv, Shared, Alike
  <1>8. Covered'
    <2> SUFFICES ASSUME NEW c \in AllWrong'
                 PROVE  c \in doubt' \/ c \in Changing'
      BY DEF Covered
    <2>1. CASE c \in C
      BY <1>1, <2>1
    <2>2. CASE c \notin C
      <3>1. Typed
        BY DEF IInv
      <3>2. c \in AllWrong
        BY <1>1, <1>3, <1>6, <2>2, <3>1, WrongOnlyTouched
      <3>3. c \in doubt \/ c \in Changing
        BY <3>2 DEF IInv, Covered
      <3>4. Changing' = Changing
        BY <1>4, <1>5 DEF Changing, Alike
      <3> QED BY <1>1, <3>3, <3>4
    <2> QED BY <2>1, <2>2
  <1> QED BY <1>5, <1>6, <1>7, <1>8 DEF IInv

-----------------------------------------------------------------------------
(* The theorems *)

LEMMA InitHolds == ASSUME Init PROVE IInv
  <1>1. proc = [p \in Procs |-> Idle] /\ \A p \in Procs : proc[p] = Idle
    BY DEF Init
  <1>2. site.marks \subseteq Flags /\ \A v \in SUBSET site.marks : v \in Value
    BY SitesType DEF Init, Value
  <1>3. Contents
    BY <1>2 DEF Init, Contents
  <1>4. TypeOK
    BY <1>1, <1>3, IdleIs DEF Init, TypeOK, Contents, Idle
  <1>5. \A p \in Procs : Fits(proc[p]) /\ Claims(proc[p]) /\ Concern(proc[p]) = {}
    BY <1>1, IdleIs
  <1>6. Shared
    BY <1>5 DEF Shared
  <1>7. AllWrong = {}
    BY DEF Init, AllWrong, Wrong
  <1> QED BY <1>3, <1>4, <1>5, <1>6, <1>7 DEF IInv, Typed, Covered

LEMMA NextKeeps == ASSUME IInv, [Next]_vars PROVE IInv'
  <1>1. CASE UNCHANGED vars
    <2>1. /\ TypeOK' /\ Contents' /\ Shared' /\ Covered'
      BY <1>1 DEF vars, IInv, Typed, TypeOK, Contents, Shared, Covered, AllWrong, Wrong,
                  Changing, Concern, Aspects
    <2>2. ASSUME NEW r \in Procs PROVE Fits(proc[r])' /\ Claims(proc[r])'
      <3>1. Fits(proc[r])'
        BY <1>1 DEF vars, IInv, Typed, Fits, Concern, Aspects
      <3>2. Claims(proc[r])'
        BY <1>1 DEF vars, IInv, Claims, Pushed, Half, Written, ServerRight, RowRight, Fresh, Aspects
      <3> QED BY <3>1, <3>2
    <2> QED BY <2>1, <2>2 DEF IInv, Typed
  <1>2. CASE OtherClient
    BY <1>2, OtherClientKeeps
  <1>3. ASSUME NEW p \in Procs,
               \/ FlagStart(p) \/ StoreAdd(p) \/ StoreDel(p) \/ WriteFlags(p)
               \/ MoveStart(p) \/ Move(p) \/ Mark(p) \/ ExpungeMarked(p) \/ DropRows(p)
               \/ ReadStart(p) \/ MarkSeen(p)
               \/ PurgeStart(p) \/ PurgeMark(p) \/ Sweep(p) \/ DeleteFolder(p)
               \/ GmailStart(p) \/ GmailCall(p)
               \/ SyncFetch(p) \/ SyncPut(p)
               \/ Fail(p)
        PROVE  IInv'
    <2>1. CASE FlagStart(p) BY <2>1, FlagStartKeeps
    <2>2. CASE StoreAdd(p) BY <2>2, StoreAddKeeps
    <2>3. CASE StoreDel(p) BY <2>3, StoreDelKeeps
    <2>4. CASE WriteFlags(p) BY <2>4, WriteFlagsKeeps
    <2>5. CASE MoveStart(p) BY <2>5, MoveStartKeeps
    <2>6. CASE Move(p) BY <2>6, MoveKeeps
    <2>7. CASE Mark(p) BY <2>7, MarkKeeps
    <2>8. CASE ExpungeMarked(p) BY <2>8, ExpungeMarkedKeeps
    <2>9. CASE DropRows(p) BY <2>9, DropRowsKeeps
    <2>10. CASE PurgeStart(p) BY <2>10, PurgeStartKeeps
    <2>11. CASE PurgeMark(p) BY <2>11, PurgeMarkKeeps
    <2>12. CASE Sweep(p) BY <2>12, SweepKeeps
    <2>13. CASE GmailStart(p) BY <2>13, GmailStartKeeps
    <2>14. CASE GmailCall(p) BY <2>14, GmailCallKeeps
    <2>15. CASE SyncFetch(p) BY <2>15, SyncFetchKeeps
    <2>16. CASE SyncPut(p) BY <2>16, SyncPutKeeps
    <2>17. CASE Fail(p) BY <2>17, FailKeeps
    <2>18. CASE ReadStart(p) BY <2>18, ReadStartKeeps
    <2>19. CASE MarkSeen(p) BY <2>19, MarkSeenKeeps
    <2>20. CASE DeleteFolder(p) BY <2>20, DeleteFolderKeeps
    <2> QED BY <1>3, <2>1, <2>2, <2>3, <2>4, <2>5, <2>6, <2>7, <2>8, <2>9, <2>10, <2>11,
               <2>12, <2>13, <2>14, <2>15, <2>16, <2>17, <2>18, <2>19, <2>20
  <1> QED BY <1>1, <1>2, <1>3 DEF Next

\* Every variable stays in its range, and a verb that works on folder groups has in
\* hand a group that is still to be done: the loops of imap/message.go and
\* imap/relocate.go.
THEOREM TypeCorrect == Spec => []TypeOK
  <1>1. IInv => TypeOK
    BY DEF IInv, Typed
  <1> QED BY <1>1, InitHolds, NextKeeps, PTL DEF Spec

\* However many invocations and other clients change however many messages, and
\* wherever one of them fails, a cached row differs from its message on the server
\* only where a verb is still at work, or where a failure, an overlap or another
\* client has put it in doubt: the write-through of cmd/mbx/write_through.go.
THEOREM WrongIsInDoubt == Spec => []WrongOnlyInDoubt
  <1>1. IInv => WrongOnlyInDoubt
    <2>1. Changing \subseteq InFlight
      BY DEF Changing, InFlight
    <2>2. \A m \in Msgs : Wrong(m) \subseteq AllWrong
      BY DEF AllWrong
    <2> QED BY <2>1, <2>2 DEF IInv, Covered, WrongOnlyInDoubt
  <1> QED BY <1>1, InitHolds, NextKeeps, PTL DEF Spec
=============================================================================
