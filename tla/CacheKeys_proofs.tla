--------------------------- MODULE CacheKeys_proofs ---------------------------
(***************************************************************************)
(* Proofs about CacheKeys, for every set of names, mailboxes, keys and     *)
(* folders: with any number of invocations interleaving and dying, the     *)
(* variables stay in their ranges, the account column of a cached row is   *)
(* the account segment of its primary key, and a rename moves all rows of  *)
(* an account or none; with one invocation after the other, none failing,  *)
(* cached rows follow their account.                                       *)
(***************************************************************************)
EXTENDS CacheKeys, TLAPS

\* What an invocation has in hand at each of its labels.
HandOK ==
    \A p \in Procs :
        /\ proc[p].pc = "sync" => proc[p].acct \in Accounts(proc[p].cfg)
        /\ proc[p].pc \in {"mutated", "invalidate", "clear", "rekey"}
               => proc[p].acct \in Names
        /\ proc[p].pc = "rekey" => proc[p].to \in Names
        /\ proc[p].pc = "write" /\ proc[p].to # NoName => proc[p].acct \in Names

\* The inductive invariant.
IInv == TypeOK /\ HandOK

-----------------------------------------------------------------------------
(* The operators *)

\* Resolve answers a name with an active block, or NoName.
LEMMA ResolveType ==
    ASSUME NEW f \in File, NEW n \in Names
    PROVE  Resolve(f, n) \in Accounts(f) \union {NoName}
BY DEF Resolve, Accounts

\* A name is canonicalised to a name.
LEMMA CanonicalType ==
    ASSUME NEW f \in File, NEW n \in Names
    PROVE  CanonicalAccount(f, n) \in Names
BY ResolveType DEF CanonicalAccount, Accounts

\* The page PutEnvelopes writes leaves the table well formed.
LEMMA PutType ==
    ASSUME TypeOK, NEW f \in File, NEW a \in Names, NEW ids \in SUBSET ID,
           NEW b \in Boxes, PutEnvelopes(f, a, ids, b)
    PROVE  rows' \in [ID -> Row \union {NoRow}]
<1>1. CanonicalAccount(f, a) \in Names
    BY CanonicalType
<1>2. [owner |-> CanonicalAccount(f, a), box |-> b] \in Row
    BY <1>1 DEF Row
<1> QED
    BY <1>2 DEF TypeOK, PutEnvelopes

\* The re-keying of a rename leaves both tables well formed.
LEMMA RekeyType ==
    ASSUME TypeOK, NEW old \in Names, NEW new \in Names, RekeyRows(old, new)
    PROVE  /\ rows' \in [ID -> Row \union {NoRow}]
           /\ stamped' \in SUBSET (Names \X Folders)
<1>1. CASE old = new \/ RekeyConflict(old, new)
    BY <1>1 DEF RekeyRows, TypeOK
<1>2. CASE ~(old = new \/ RekeyConflict(old, new))
    <2> DEFINE Moved(i) == [rows[CHOOSE o \in Owned(old) : Rekeyed(o, new) = i]
                              EXCEPT !.owner = new]
    <2>1. ASSUME NEW i \in ID, \E o \in Owned(old) : Rekeyed(o, new) = i
          PROVE  Moved(i) \in Row
        <3>1. PICK o \in Owned(old) :
                  o = CHOOSE x \in Owned(old) : Rekeyed(x, new) = i
            BY <2>1
        <3>2. o \in ID /\ rows[o] \in Row
            BY DEF Owned, TypeOK
        <3> QED
            BY <3>1, <3>2 DEF Row
    <2>2. rows' = [i \in ID |-> IF \E o \in Owned(old) : Rekeyed(o, new) = i
                                THEN Moved(i)
                                ELSE IF i \in Owned(old) THEN NoRow ELSE rows[i]]
        BY <1>2 DEF RekeyRows
    <2>3. rows' \in [ID -> Row \union {NoRow}]
        BY <2>1, <2>2 DEF TypeOK
    <2>4. stamped' \in SUBSET (Names \X Folders)
        BY <1>2 DEF RekeyRows, TypeOK
    <2> QED
        BY <2>3, <2>4
<1> QED
    BY <1>1, <1>2

-----------------------------------------------------------------------------
(* The inductive invariant *)

\* What Become, Goto and Finish do to the other processes.
LEMMA BecomeHand ==
    ASSUME TypeOK, NEW p \in Procs, NEW q \in Process, Become(p, q)
    PROVE  /\ proc' \in [Procs -> Process]
           /\ proc'[p] = q
           /\ \A r \in Procs : r # p => proc'[r] = proc[r]
BY DEF TypeOK, Become

\* A process with nothing in hand is well formed.
LEMMA IdleType == Idle \in Process
BY DEF Idle, Process, PCs, File

\* A verb starts with an account that is active in the config it loaded.
LEMMA BeginKeepsIInv ==
    ASSUME IInv, NEW p \in Procs, NEW label \in {"sync", "mutated", "clear"},
           NEW n \in Names, NEW keys \in SUBSET Keys, Begin(p, label, n, keys)
    PROVE  IInv'
<1> DEFINE q == [pc |-> label, cfg |-> file, acct |-> Resolve(file, n),
                 to |-> NoName, keys |-> keys]
<1> USE DEF IInv
<1>1. Resolve(file, n) \in Accounts(file) /\ Resolve(file, n) \in Names
    BY ResolveType DEF Begin, TypeOK, Accounts
<1>2. q \in Process
    BY <1>1 DEF Process, PCs, TypeOK
<1>3. Become(p, q) /\ UNCHANGED <<file, rows, stamped, intact>>
    BY DEF Begin
<1> HIDE DEF q
<1>4. /\ proc' \in [Procs -> Process]
      /\ proc'[p] = q
      /\ \A r \in Procs : r # p => proc'[r] = proc[r]
    BY <1>2, <1>3, BecomeHand
<1>5. TypeOK'
    BY <1>3, <1>4 DEF TypeOK
<1>6. HandOK'
    <2>1. /\ q.pc = label /\ q.cfg = file /\ q.acct = Resolve(file, n)
        BY DEF q
    <2> QED
        BY <1>1, <1>4, <2>1 DEF HandOK
<1> QED
    BY <1>5, <1>6

\* An edit takes up a whole config.toml, to be written at the next step.
LEMMA EditKeepsIInv ==
    ASSUME IInv, NEW p \in Procs, NEW f \in File, NEW old \in Names \union {NoName},
           NEW new \in Names \union {NoName}, new # NoName => old \in Names,
           Edit(p, f, old, new)
    PROVE  IInv'
<1> DEFINE q == [pc |-> "write", cfg |-> f, acct |-> old, to |-> new, keys |-> {}]
<1> USE DEF IInv
<1>1. q \in Process
    BY DEF Process, PCs
<1>2. Become(p, q) /\ UNCHANGED <<file, rows, stamped, intact>>
    BY DEF Edit
<1>3. q.pc = "write" /\ q.acct = old /\ q.to = new
    OBVIOUS
<1> HIDE DEF q
<1>4. /\ proc' \in [Procs -> Process]
      /\ proc'[p] = q
      /\ \A r \in Procs : r # p => proc'[r] = proc[r]
    BY <1>1, <1>2, BecomeHand
<1>5. TypeOK'
    BY <1>2, <1>4 DEF TypeOK
<1>6. HandOK'
    BY <1>3, <1>4 DEF HandOK
<1> QED
    BY <1>5, <1>6

\* A step that ends an invocation disturbs no other one's hand.
LEMMA FinishKeepsHands ==
    ASSUME IInv, NEW p \in Procs, Finish(p)
    PROVE  proc' \in [Procs -> Process] /\ HandOK'
<1>1. /\ proc' \in [Procs -> Process]
      /\ proc'[p] = Idle
      /\ \A r \in Procs : r # p => proc'[r] = proc[r]
    BY IdleType, BecomeHand DEF Finish, IInv
<1>2. Idle.pc = "idle"
    BY DEF Idle
<1> QED
    BY <1>1, <1>2 DEF HandOK, IInv

\* The three edits produce a well-formed file.
LEMMA EditType ==
    ASSUME TypeOK
    PROVE  /\ \A old, new \in Names : HasAccount(file, old) => Renamed(file, old, new) \in File
           /\ \A n \in Names, b \in Boxes :
                  [file EXCEPT ![n] = [box |-> b, on |-> FALSE, aliases |-> {}]] \in File
           /\ \A n \in Names, v \in BOOLEAN :
                  HasAccount(file, n) => [file EXCEPT ![n].on = v] \in File
<1>1. file \in [Names -> Section \union {NoSection}]
    BY DEF TypeOK, File
<1>2. ASSUME NEW old \in Names, NEW new \in Names, HasAccount(file, old)
      PROVE  Renamed(file, old, new) \in File
    <2>1. file[old] \in Section
        BY <1>1, <1>2 DEF HasAccount
    <2>2. [file[old] EXCEPT !.aliases = {old}] \in Section
        BY <2>1 DEF Section
    <2> QED
        BY <1>1, <2>2 DEF Renamed, File
<1>3. ASSUME NEW n \in Names, NEW b \in Boxes
      PROVE  [file EXCEPT ![n] = [box |-> b, on |-> FALSE, aliases |-> {}]] \in File
    <2>1. [box |-> b, on |-> FALSE, aliases |-> {}] \in Section
        BY DEF Section
    <2> QED
        BY <1>1, <2>1 DEF File
<1>4. ASSUME NEW n \in Names, NEW v \in BOOLEAN, HasAccount(file, n)
      PROVE  [file EXCEPT ![n].on = v] \in File
    <2>1. file[n] \in Section
        BY <1>1, <1>4 DEF HasAccount
    <2>2. [file[n] EXCEPT !.on = v] \in Section
        BY <2>1 DEF Section
    <2>3. [file EXCEPT ![n] = [file[n] EXCEPT !.on = v]] \in File
        BY <1>1, <2>2 DEF File
    <2> QED
        BY <2>3
<1> QED
    BY <1>2, <1>3, <1>4

LEMMA InitIInv == Init => IInv
<1> SUFFICES ASSUME Init PROVE IInv
    OBVIOUS
<1>1. file \in File
    BY DEF Init, File, Section
<1>2. rows \in [ID -> Row \union {NoRow}] /\ stamped \in SUBSET (Names \X Folders)
    BY DEF Init
<1>3. proc \in [Procs -> Process] /\ intact \in BOOLEAN
    BY IdleType DEF Init
<1>4. \A p \in Procs : proc[p].pc = "idle"
    BY DEF Init, Idle
<1> QED
    BY <1>1, <1>2, <1>3, <1>4 DEF IInv, TypeOK, HandOK

\* One step of one invocation keeps the inductive invariant.
LEMMA StepKeepsIInv ==
    ASSUME IInv, NEW p \in Procs,
           \/ SyncStart(p) \/ SyncPut(p) \/ SyncStamp(p) \/ SyncFail(p)
           \/ Mutate(p) \/ ReloadConfig(p) \/ Invalidate(p)
           \/ ClearStart(p) \/ ClearRows(p)
           \/ RenameRead(p) \/ AddRead(p) \/ RemoveRead(p)
           \/ ConfigWrite(p) \/ RenameRows(p) \/ Activate(p) \/ Abort(p)
    PROVE  IInv'
<1> USE DEF IInv
<1>0. proc[p] \in Process
    BY DEF TypeOK
<1>1. CASE SyncStart(p)
    BY <1>1, BeginKeepsIInv DEF SyncStart
<1>2. CASE SyncPut(p)
    <2>1. /\ proc[p].cfg \in File
          /\ proc[p].acct \in Names
          /\ proc[p].cfg[proc[p].acct] \in Section
        BY <1>0, <1>2 DEF SyncPut, HandOK, Accounts, Process, File
    <2>2. proc[p].cfg[proc[p].acct].box \in Boxes
        BY <2>1 DEF Section
    <2>3. PICK ks \in SUBSET Keys :
              PutEnvelopes(proc[p].cfg, proc[p].acct, {proc[p].acct} \X ks,
                           proc[p].cfg[proc[p].acct].box)
        BY <1>2 DEF SyncPut
    <2>4. {proc[p].acct} \X ks \in SUBSET ID
        BY <2>1 DEF ID
    <2>5. rows' \in [ID -> Row \union {NoRow}]
        BY <2>1, <2>2, <2>3, <2>4, PutType
    <2> QED
        BY <1>2, <2>5 DEF SyncPut, TypeOK, HandOK
<1>3. CASE SyncStamp(p)
    <2>1. CanonicalAccount(proc[p].cfg, proc[p].acct) \in Names
        BY <1>0, <1>3, CanonicalType DEF SyncStamp, HandOK, Accounts, Process
    <2>2. stamped' \in SUBSET (Names \X Folders)
        BY <1>3, <2>1 DEF SyncStamp, TypeOK
    <2> QED
        BY <1>3, <2>2, FinishKeepsHands DEF SyncStamp, TypeOK
<1>4. CASE SyncFail(p)
    BY <1>4, FinishKeepsHands DEF SyncFail, TypeOK
<1>5. CASE Mutate(p)
    BY <1>5, BeginKeepsIInv DEF Mutate
<1>6. CASE ReloadConfig(p)
    <2>1. CASE Loadable(file)
        <3> DEFINE q == [proc[p] EXCEPT !.pc = "invalidate", !.cfg = file]
        <3>1. q \in Process /\ q.pc = "invalidate" /\ q.acct = proc[p].acct
            BY <1>0 DEF Process, PCs, TypeOK
        <3>2. Become(p, q)
            BY <1>6, <2>1 DEF ReloadConfig
        <3>3. proc[p].acct \in Names
            BY <1>6 DEF ReloadConfig, HandOK
        <3> HIDE DEF q
        <3>4. /\ proc' \in [Procs -> Process]
              /\ proc'[p] = q
              /\ \A r \in Procs : r # p => proc'[r] = proc[r]
            BY <3>1, <3>2, BecomeHand
        <3> QED
            BY <1>6, <3>1, <3>3, <3>4 DEF ReloadConfig, TypeOK, HandOK
    <2>2. CASE ~Loadable(file)
        BY <1>6, <2>2, FinishKeepsHands DEF ReloadConfig, TypeOK
    <2> QED
        BY <2>1, <2>2
<1>7. CASE Invalidate(p)
    <2>1. rows' \in [ID -> Row \union {NoRow}]
        BY <1>7 DEF Invalidate, DeleteByIDs, TypeOK
    <2> QED
        BY <1>7, <2>1, FinishKeepsHands DEF Invalidate, TypeOK
<1>8. CASE ClearStart(p)
    BY <1>8, BeginKeepsIInv DEF ClearStart
<1>9. CASE ClearRows(p)
    <2>1. /\ rows' \in [ID -> Row \union {NoRow}]
          /\ stamped' \in SUBSET (Names \X Folders)
        BY <1>9 DEF ClearRows, ClearAccount, TypeOK
    <2> QED
        BY <1>9, <2>1, FinishKeepsHands DEF ClearRows, TypeOK
<1>10. CASE RenameRead(p)
    BY <1>10, EditType, EditKeepsIInv DEF RenameRead
<1>11. CASE AddRead(p)
    BY <1>11, EditType, EditKeepsIInv DEF AddRead
<1>12. CASE RemoveRead(p)
    <2>1. PICK n \in Accounts(file) : Edit(p, [file EXCEPT ![n].on = FALSE], NoName, NoName)
        BY <1>12 DEF RemoveRead
    <2>2. [file EXCEPT ![n].on = FALSE] \in File
        BY EditType DEF Accounts, HasAccount
    <2> QED
        BY <2>1, <2>2, EditKeepsIInv
<1>13. CASE ConfigWrite(p)
    <2>1. file' \in File /\ intact' \in BOOLEAN
        BY <1>0, <1>13 DEF ConfigWrite, TypeOK, Process
    <2>2. CASE proc[p].to = NoName
        BY <1>13, <2>1, <2>2, FinishKeepsHands DEF ConfigWrite, TypeOK
    <2>3. CASE proc[p].to # NoName
        <3> DEFINE q == [proc[p] EXCEPT !.pc = "rekey"]
        <3>1. /\ q \in Process
              /\ q.pc = "rekey" /\ q.acct = proc[p].acct /\ q.to = proc[p].to
            BY <1>0 DEF Process, PCs
        <3>2. Become(p, q)
            BY <1>13, <2>3 DEF ConfigWrite, Goto
        <3>3. proc[p].acct \in Names /\ proc[p].to \in Names
            BY <1>0, <1>13, <2>3 DEF ConfigWrite, HandOK, Process
        <3> HIDE DEF q
        <3>4. /\ proc' \in [Procs -> Process]
              /\ proc'[p] = q
              /\ \A r \in Procs : r # p => proc'[r] = proc[r]
            BY <3>1, <3>2, BecomeHand
        <3> QED
            BY <1>13, <2>1, <3>1, <3>3, <3>4 DEF ConfigWrite, TypeOK, HandOK
    <2> QED
        BY <2>2, <2>3
<1>14. CASE RenameRows(p)
    <2>1. proc[p].acct \in Names /\ proc[p].to \in Names
        BY <1>14 DEF RenameRows, HandOK
    <2>2. /\ rows' \in [ID -> Row \union {NoRow}]
          /\ stamped' \in SUBSET (Names \X Folders)
        BY <1>14, <2>1, RekeyType DEF RenameRows, TypeOK
    <2> QED
        BY <1>14, <2>2, FinishKeepsHands DEF RenameRows, TypeOK
<1>15. CASE Activate(p)
    <2>1. file' \in File /\ intact' \in BOOLEAN
        BY <1>15, EditType DEF Activate, TypeOK
    <2> QED
        BY <1>15, <2>1 DEF Activate, TypeOK, HandOK
<1>16. CASE Abort(p)
    BY <1>16, FinishKeepsHands DEF Abort, TypeOK
<1> QED
    BY <1>1, <1>2, <1>3, <1>4, <1>5, <1>6, <1>7, <1>8, <1>9, <1>10, <1>11, <1>12,
       <1>13, <1>14, <1>15, <1>16

\* The inductive invariant holds throughout.
THEOREM AlwaysIInv == Spec => []IInv
<1>1. IInv /\ [Next]_vars => IInv'
    <2> SUFFICES ASSUME IInv, [Next]_vars PROVE IInv'
        OBVIOUS
    <2>1. CASE Next
        BY <2>1, StepKeepsIInv DEF Next
    <2>2. CASE UNCHANGED vars
        BY <2>2 DEF vars, IInv, TypeOK, HandOK
    <2> QED
        BY <2>1, <2>2
<1> QED
    BY InitIInv, <1>1, PTL DEF Spec

\* Every variable stays in its range, however invocations interleave and die.
THEOREM TypeCorrect == Spec => []TypeOK
<1>1. IInv => TypeOK
    BY DEF IInv
<1> QED
    BY AlwaysIInv, <1>1, PTL

-----------------------------------------------------------------------------
(* The account column and the primary key *)

\* A page of one account gets that account, canonicalised the same way, in both
\* the column and the keys.
LEMMA PutKeepsKeys ==
    ASSUME TypeOK, KeyMatchesOwner, NEW f \in File, NEW a \in Names,
           NEW ks \in SUBSET Keys, NEW b \in Boxes, PutEnvelopes(f, a, {a} \X ks, b)
    PROVE  KeyMatchesOwner'
<1> SUFFICES ASSUME NEW i \in ID, rows'[i] # NoRow
             PROVE  rows'[i].owner = i[1]
    BY DEF KeyMatchesOwner
<1>1. CASE \E id \in {a} \X ks : CanonicalID(f, id) = i
    <2>1. i[1] = CanonicalAccount(f, a)
        BY <1>1 DEF CanonicalID
    <2>2. rows'[i] = [owner |-> CanonicalAccount(f, a), box |-> b]
        BY <1>1 DEF PutEnvelopes
    <2> QED
        BY <2>1, <2>2
<1>2. CASE ~\E id \in {a} \X ks : CanonicalID(f, id) = i
    BY <1>2 DEF PutEnvelopes, KeyMatchesOwner
<1> QED
    BY <1>1, <1>2

\* A rename moves the column and the keys together.
LEMMA RekeyKeepsKeys ==
    ASSUME TypeOK, KeyMatchesOwner, NEW old \in Names, NEW new \in Names,
           RekeyRows(old, new)
    PROVE  KeyMatchesOwner'
<1> SUFFICES ASSUME NEW i \in ID, rows'[i] # NoRow
             PROVE  rows'[i].owner = i[1]
    BY DEF KeyMatchesOwner
<1>1. CASE old = new \/ RekeyConflict(old, new)
    BY <1>1 DEF RekeyRows, KeyMatchesOwner
<1>2. CASE ~(old = new \/ RekeyConflict(old, new))
    <2>1. CASE \E o \in Owned(old) : Rekeyed(o, new) = i
        <3>1. PICK o \in Owned(old) :
                  o = CHOOSE x \in Owned(old) : Rekeyed(x, new) = i
            BY <2>1
        <3>2. rows'[i] = [rows[o] EXCEPT !.owner = new]
            BY <1>2, <2>1, <3>1 DEF RekeyRows
        <3>3. rows[o] \in Row
            BY DEF Owned, TypeOK
        <3>4. i[1] = new
            BY <2>1 DEF Rekeyed
        <3> QED
            BY <3>2, <3>3, <3>4 DEF Row
    <2>2. CASE ~\E o \in Owned(old) : Rekeyed(o, new) = i
        BY <1>2, <2>2 DEF RekeyRows, KeyMatchesOwner
    <2> QED
        BY <2>1, <2>2
<1> QED
    BY <1>1, <1>2

\* The account column of a cached row is the account segment of its key.
THEOREM KeysMatchOwners == Spec => []KeyMatchesOwner
<1>1. Init => KeyMatchesOwner
    BY DEF Init, KeyMatchesOwner
<1>2. IInv /\ KeyMatchesOwner /\ [Next]_vars => KeyMatchesOwner'
    <2> SUFFICES ASSUME IInv, KeyMatchesOwner, [Next]_vars PROVE KeyMatchesOwner'
        OBVIOUS
    <2>1. CASE UNCHANGED rows
        BY <2>1 DEF KeyMatchesOwner
    <2>2. ASSUME NEW p \in Procs, SyncPut(p) PROVE KeyMatchesOwner'
        <3>1. /\ proc[p].cfg \in File
              /\ proc[p].acct \in Names
              /\ proc[p].cfg[proc[p].acct] \in Section
            BY <2>2 DEF SyncPut, IInv, TypeOK, HandOK, Accounts, Process, File
        <3>2. proc[p].cfg[proc[p].acct].box \in Boxes
            BY <3>1 DEF Section
        <3>3. PICK ks \in SUBSET Keys :
                  PutEnvelopes(proc[p].cfg, proc[p].acct, {proc[p].acct} \X ks,
                               proc[p].cfg[proc[p].acct].box)
            BY <2>2 DEF SyncPut
        <3> QED
            BY <3>1, <3>2, <3>3, PutKeepsKeys DEF IInv
    <2>3. ASSUME NEW p \in Procs, Invalidate(p) PROVE KeyMatchesOwner'
        BY <2>3 DEF Invalidate, DeleteByIDs, KeyMatchesOwner
    <2>4. ASSUME NEW p \in Procs, ClearRows(p) PROVE KeyMatchesOwner'
        BY <2>4 DEF ClearRows, ClearAccount, KeyMatchesOwner
    <2>5. ASSUME NEW p \in Procs, RenameRows(p) PROVE KeyMatchesOwner'
        <3>1. proc[p].acct \in Names /\ proc[p].to \in Names
            BY <2>5 DEF RenameRows, IInv, HandOK
        <3>2. RekeyRows(proc[p].acct, proc[p].to) \/ UNCHANGED rows
            BY <2>5 DEF RenameRows
        <3> QED
            BY <2>1, <3>1, <3>2, RekeyKeepsKeys DEF IInv
    <2>6. CASE UNCHANGED vars
        BY <2>1, <2>6 DEF vars
    <2>7. CASE Next
        <3>1. PICK p \in Procs :
                  \/ UNCHANGED rows
                  \/ SyncPut(p) \/ Invalidate(p) \/ ClearRows(p) \/ RenameRows(p)
            BY <2>7 DEF Next, SyncStart, SyncStamp, SyncFail, Mutate, ReloadConfig,
               ClearStart, RenameRead, AddRead, RemoveRead, ConfigWrite, Activate,
               Abort, Begin, Edit
        <3> QED
            BY <2>1, <2>2, <2>3, <2>4, <2>5, <3>1
    <2> QED
        BY <2>6, <2>7
<1> QED
    BY <1>1, <1>2, AlwaysIInv, PTL DEF Spec

-----------------------------------------------------------------------------
(* Renames *)

\* Two places of one re-keyed ID.
LEMMA Places ==
    ASSUME NEW a \in Names, NEW b \in Names, NEW k \in Keys
    PROVE  /\ <<a, k>> \in ID
           /\ Rekeyed(<<a, k>>, b) = <<b, k>>
           /\ a # b => <<a, k>> # <<b, k>>
BY DEF ID, Rekeyed

\* What a re-keying that goes through makes of the two places: a row of the old
\* name leaves its place, which is nobody's target, and the new place holds it.
LEMMA RekeyMoves ==
    ASSUME TypeOK, KeyMatchesOwner, NEW old \in Names, NEW new \in Names, old # new,
           ~RekeyConflict(old, new), RekeyRows(old, new), NEW k \in Keys
    PROVE  /\ rows'[<<old, k>>] = NoRow
           /\ rows[<<old, k>>] # NoRow => Moves(k, old, new)
<1>1. /\ <<old, k>> \in ID /\ <<new, k>> \in ID /\ <<old, k>> # <<new, k>>
      /\ Rekeyed(<<old, k>>, new) = <<new, k>>
    BY Places
<1>2. rows[<<old, k>>] # NoRow => <<old, k>> \in Owned(old)
    BY <1>1 DEF KeyMatchesOwner, Owned
<1>3. ~\E o \in Owned(old) : Rekeyed(o, new) = <<old, k>>
    BY DEF Rekeyed
<1>4. rows'[<<old, k>>] = NoRow
    BY <1>1, <1>2, <1>3 DEF RekeyRows
<1>5. ASSUME <<old, k>> \in Owned(old)
      PROVE  rows[<<new, k>>] = NoRow /\ rows'[<<new, k>>] # NoRow
    <2>1. rows[<<new, k>>] = NoRow
        BY <1>1, <1>5 DEF RekeyConflict
    <2>2. PICK o \in Owned(old) :
              o = CHOOSE x \in Owned(old) : Rekeyed(x, new) = <<new, k>>
        BY <1>1, <1>5
    <2>3. rows'[<<new, k>>] = [rows[o] EXCEPT !.owner = new]
        BY <1>1, <1>5, <2>2 DEF RekeyRows
    <2>4. rows[o] \in Row
        BY DEF Owned, TypeOK
    <2> QED
        BY <2>1, <2>3, <2>4, NoRowFresh DEF Row
<1> QED
    BY <1>2, <1>4, <1>5 DEF Moves

\* A step that fills no place, or that empties none, moves no row.
LEMMA MovesNothing ==
    ASSUME \/ \A i \in ID : rows[i] = NoRow => rows'[i] = NoRow
           \/ \A i \in ID : rows[i] # NoRow => rows'[i] # NoRow
    PROVE  \A a, b \in Names : ~\E k \in Keys : Moves(k, a, b)
BY Places DEF Moves

\* A row that goes from one place to another in a re-keying went as the rename says.
LEMMA OnlyRekeyMoves ==
    ASSUME TypeOK, KeyMatchesOwner, NEW old \in Names, NEW new \in Names,
           RekeyRows(old, new), NEW a \in Names, NEW b \in Names, NEW k \in Keys,
           a # b, Moves(k, a, b)
    PROVE  a = old /\ b = new /\ old # new /\ ~RekeyConflict(old, new)
<1>1. <<a, k>> \in ID /\ <<b, k>> \in ID
    BY Places
<1>2. old # new /\ ~RekeyConflict(old, new)
    BY DEF RekeyRows, Moves
<1>3. b = new
    <2>1. \E o \in Owned(old) : Rekeyed(o, new) = <<b, k>>
        BY <1>1, <1>2 DEF RekeyRows, Moves
    <2> QED
        BY <2>1 DEF Rekeyed
<1>4. a = old
    <2>1. ~\E o \in Owned(old) : Rekeyed(o, new) = <<a, k>>
        BY <1>3 DEF Rekeyed
    <2>2. <<a, k>> \in Owned(old)
        BY <1>1, <1>2, <2>1 DEF RekeyRows, Moves
    <2> QED
        BY <2>2 DEF Owned, KeyMatchesOwner
<1> QED
    BY <1>2, <1>3, <1>4

\* A rename moves all the rows of an account or none, whatever syncs and
\* invalidations it interleaves with.
THEOREM RenamesAreAtomic == Spec => RekeyIsAtomic
<1> DEFINE Atomic ==
        \A a, b \in Names : (a # b /\ \E k \in Keys : Moves(k, a, b)) =>
            \A k \in Keys : /\ rows'[<<a, k>>] = NoRow
                            /\ rows[<<a, k>>] # NoRow => Moves(k, a, b)
<1>1. IInv /\ KeyMatchesOwner /\ [Next]_vars => [Atomic]_rows
    <2> SUFFICES ASSUME IInv, KeyMatchesOwner, [Next]_vars, ~UNCHANGED rows PROVE Atomic
        OBVIOUS
    <2>1. PICK p \in Procs :
              SyncPut(p) \/ Invalidate(p) \/ ClearRows(p) \/ RenameRows(p)
        BY DEF Next, vars, SyncStart, SyncStamp, SyncFail, Mutate, ReloadConfig,
           ClearStart, RenameRead, AddRead, RemoveRead, ConfigWrite, Activate,
           Abort, Begin, Edit
    <2>2. CASE SyncPut(p)
        <3>1. /\ proc[p].cfg \in File
              /\ proc[p].acct \in Names
              /\ proc[p].cfg[proc[p].acct] \in Section
            BY <2>2 DEF SyncPut, IInv, TypeOK, HandOK, Accounts, Process, File
        <3> DEFINE put == [owner |-> CanonicalAccount(proc[p].cfg, proc[p].acct),
                           box |-> proc[p].cfg[proc[p].acct].box]
        <3>2. put \in Row
            BY <3>1, CanonicalType DEF Row, Section
        <3>3. \A i \in ID : rows'[i] = put \/ rows'[i] = rows[i]
            BY <2>2 DEF SyncPut, PutEnvelopes
        <3> HIDE DEF put
        <3>4. \A i \in ID : rows[i] # NoRow => rows'[i] # NoRow
            BY <3>2, <3>3, NoRowFresh
        <3> QED
            BY <3>4, MovesNothing
    <2>3. CASE Invalidate(p) \/ ClearRows(p)
        <3>1. \A i \in ID : rows[i] = NoRow => rows'[i] = NoRow
            BY <2>3 DEF Invalidate, DeleteByIDs, ClearRows, ClearAccount
        <3> QED
            BY <3>1, MovesNothing
    <2>4. CASE RenameRows(p)
        <3> DEFINE old == proc[p].acct
                   new == proc[p].to
        <3>1. old \in Names /\ new \in Names /\ RekeyRows(old, new)
            BY <2>4 DEF RenameRows, IInv, HandOK
        <3> HIDE DEF old, new
        <3> SUFFICES ASSUME NEW a \in Names, NEW b \in Names, a # b,
                            NEW k \in Keys, Moves(k, a, b), NEW j \in Keys
                     PROVE  /\ rows'[<<a, j>>] = NoRow
                            /\ rows[<<a, j>>] # NoRow => Moves(j, a, b)
            OBVIOUS
        <3>2. a = old /\ b = new /\ old # new /\ ~RekeyConflict(old, new)
            BY <3>1, OnlyRekeyMoves DEF IInv
        <3> QED
            BY <3>1, <3>2, RekeyMoves DEF IInv
    <2> QED
        BY <2>1, <2>2, <2>3, <2>4
<1> QED
    BY <1>1, AlwaysIInv, KeysMatchOwners, PTL DEF Spec, RekeyIsAtomic

-----------------------------------------------------------------------------
(* One invocation after the other, none failing *)

\* What the serial theorems assume of Procs and Fallible.
Serial == (\A p, q \in Procs : p = q) /\ ~Fallible

\* Name n has a block, for mailbox b.
Follows(n, b) == HasAccount(file, n) /\ file[n].box = b

\* Nothing in the cache is of a name without a block.
AllFollow ==
    /\ \A i \in ID : rows[i] # NoRow => Follows(rows[i].owner, rows[i].box)
    /\ \A s \in stamped : HasAccount(file, s[1])

\* Between the two halves of a rename the cache still has the old name, and
\* nothing of the new one.
Halfway(old, new) ==
    /\ old # new /\ HasAccount(file, new)
    /\ \A i \in ID : rows[i] # NoRow =>
           /\ rows[i].owner # new
           /\ rows[i].owner = old => rows[i].box = file[new].box
           /\ rows[i].owner # old => Follows(rows[i].owner, rows[i].box)
    /\ \A s \in stamped : s[1] # new /\ (s[1] # old => HasAccount(file, s[1]))

\* What an edit is about to write: it drops no block and points none elsewhere, or
\* it is a rename to a name that is free.
EditInHand(p) ==
    LET f == proc[p].cfg
        old == proc[p].acct
        new == proc[p].to
    IN  IF new = NoName
        THEN \A n \in Names : HasAccount(file, n) =>
                 HasAccount(f, n) /\ f[n].box = file[n].box
        ELSE /\ old # new
             /\ HasAccount(file, old) /\ ~HasAccount(file, new)
             /\ f = Renamed(file, old, new)

\* The invariant of serial invocations: what each label may rely on.
Settled ==
    intact =>
        /\ Loadable(file)
        /\ \A p \in Procs :
              /\ proc[p].pc \in {"sync", "mutated", "invalidate", "clear"} =>
                     proc[p].cfg = file /\ proc[p].acct \in Accounts(file)
              /\ proc[p].pc = "write" => EditInHand(p)
              /\ proc[p].pc = "rekey" => Halfway(proc[p].acct, proc[p].to)
              /\ proc[p].pc # "rekey" => AllFollow
        /\ Procs = {} => AllFollow

\* The only process there is.
LEMMA OnlyOne ==
    ASSUME Serial, TypeOK, NEW p \in Procs, NEW q \in Process, Become(p, q)
    PROVE  proc'[p] = q /\ \A r \in Procs : proc'[r] = q
BY BecomeHand DEF Serial

\* The cache after a rename that found it halfway: no update is refused.
LEMMA RekeyCompletes ==
    ASSUME TypeOK, KeyMatchesOwner, NEW old \in Names, NEW new \in Names,
           Halfway(old, new), RekeyRows(old, new), file' = file
    PROVE  AllFollow'
<1>1. ~RekeyConflict(old, new)
    <2>1. ASSUME NEW i \in Owned(old) PROVE rows[Rekeyed(i, new)] = NoRow
        <3>1. Rekeyed(i, new) \in ID /\ Rekeyed(i, new)[1] = new
            BY DEF Rekeyed, Owned, ID
        <3> QED
            BY <3>1 DEF Halfway, KeyMatchesOwner
    <2>2. ASSUME NEW i \in Owned(old), NEW j \in Owned(old),
                 Rekeyed(i, new) = Rekeyed(j, new)
          PROVE  i = j
        <3>1. i \in ID /\ j \in ID /\ i[1] = old /\ j[1] = old
            BY DEF Owned, KeyMatchesOwner
        <3>2. i[2] = j[2]
            BY <2>2 DEF Rekeyed
        <3> QED
            BY <3>1, <3>2 DEF ID
    <2>3. \A fo \in Folders : <<new, fo>> \notin stamped
        BY DEF Halfway
    <2> QED
        BY <2>1, <2>2, <2>3 DEF RekeyConflict
<1>2. old # new
    BY DEF Halfway
<1>3. ASSUME NEW i \in ID, rows'[i] # NoRow
      PROVE  Follows(rows'[i].owner, rows'[i].box)
    <2>1. CASE \E o \in Owned(old) : Rekeyed(o, new) = i
        <3>1. PICK o \in Owned(old) :
                  o = CHOOSE x \in Owned(old) : Rekeyed(x, new) = i
            BY <2>1
        <3>2. rows'[i] = [rows[o] EXCEPT !.owner = new]
            BY <1>1, <1>2, <2>1, <3>1 DEF RekeyRows
        <3>3. rows[o] \in Row /\ rows[o] # NoRow /\ rows[o].owner = old /\ o \in ID
            BY DEF Owned, TypeOK
        <3>4. rows'[i].owner = new /\ rows'[i].box = rows[o].box
            BY <3>2, <3>3 DEF Row
        <3> QED
            BY <3>3, <3>4 DEF Halfway, Follows
    <2>2. CASE ~\E o \in Owned(old) : Rekeyed(o, new) = i
        <3>1. rows'[i] = rows[i] /\ i \notin Owned(old)
            BY <1>1, <1>2, <1>3, <2>2 DEF RekeyRows
        <3> QED
            BY <1>3, <3>1 DEF Halfway, Owned
    <2> QED
        BY <2>1, <2>2
<1>4. ASSUME NEW t \in stamped' PROVE HasAccount(file, t[1])
    <2>1. stamped' = {<<IF s[1] = old THEN new ELSE s[1], s[2]>> : s \in stamped}
        BY <1>1, <1>2 DEF RekeyRows
    <2>2. PICK s \in stamped : t = <<IF s[1] = old THEN new ELSE s[1], s[2]>>
        BY <2>1
    <2> QED
        BY <2>2 DEF Halfway
<1> QED
    BY <1>3, <1>4 DEF AllFollow, Follows, HasAccount

\* A canonical name is its own.
LEMMA CanonicalOfAccount ==
    ASSUME NEW f \in File, NEW a \in Accounts(f)
    PROVE  Resolve(f, a) = a /\ CanonicalAccount(f, a) = a
BY NoNameFresh DEF Resolve, CanonicalAccount, Accounts

\* Commenting a block out, or in, keeps all blocks and their mailboxes.
LEMMA SwitchKeeps ==
    ASSUME TypeOK, NEW n \in Names, HasAccount(file, n), NEW v \in BOOLEAN, NEW m \in Names,
           HasAccount(file, m)
    PROVE  /\ HasAccount([file EXCEPT ![n].on = v], m)
           /\ [file EXCEPT ![n].on = v][m].box = file[m].box
<1>1. file \in [Names -> Section \union {NoSection}]
    BY DEF TypeOK, File
<1>2. file[n] \in Section
    BY <1>1 DEF HasAccount
<1> DEFINE s == [file[n] EXCEPT !.on = v]
<1>3. s \in Section /\ s.box = file[n].box
    BY <1>2 DEF Section
<1>4. s # NoSection
    BY <1>3, NoSectionFresh
<1>5. [file EXCEPT ![n].on = v][m] = IF m = n THEN s ELSE file[m]
    BY <1>1
<1> HIDE DEF s
<1> QED
    BY <1>3, <1>4, <1>5 DEF HasAccount

\* The write of an edit that is no rename: a name keeps its block and its mailbox.
LEMMA WriteKeeps ==
    ASSUME TypeOK, NEW p \in Procs, EditInHand(p), AllFollow, ConfigWrite(p),
           proc[p].to = NoName
    PROVE  AllFollow'
<1>1. file' = proc[p].cfg /\ rows' = rows /\ stamped' = stamped
    BY DEF ConfigWrite
<1>2. /\ \A i \in ID : rows[i] # NoRow => rows[i].owner \in Names
      /\ \A s \in stamped : s[1] \in Names
    BY DEF TypeOK, Row
<1>3. \A n \in Names : HasAccount(file, n) =>
          HasAccount(file', n) /\ file'[n].box = file[n].box
    BY <1>1 DEF EditInHand
<1> QED
    BY <1>1, <1>2, <1>3 DEF AllFollow, Follows, HasAccount

\* The write of a rename: the old name hands its block to the new one.
LEMMA WriteIsHalfway ==
    ASSUME TypeOK, NEW p \in Procs, EditInHand(p), AllFollow, ConfigWrite(p),
           NEW old \in Names, NEW new \in Names, proc[p].acct = old, proc[p].to = new
    PROVE  Halfway(old, new)'
<1>1. file' = proc[p].cfg /\ rows' = rows /\ stamped' = stamped
    BY DEF ConfigWrite
<1>2. /\ file \in [Names -> Section \union {NoSection}]
      /\ \A i \in ID : rows[i] # NoRow => rows[i].owner \in Names
      /\ \A s \in stamped : s[1] \in Names
    BY DEF TypeOK, File, Row
<1>3. /\ old # new
      /\ HasAccount(file, old) /\ ~HasAccount(file, new)
      /\ file' = Renamed(file, old, new)
    BY <1>1, NoNameFresh DEF EditInHand
<1>4. file[old] \in Section
    BY <1>2, <1>3 DEF HasAccount
<1>5. /\ file'[new] = [file[old] EXCEPT !.aliases = {old}]
      /\ \A n \in Names : n # old /\ n # new => file'[n] = file[n]
    BY <1>2, <1>3 DEF Renamed
<1>6. file'[new] \in Section /\ file'[new].box = file[old].box
    BY <1>4, <1>5 DEF Section
<1>7. HasAccount(file', new)
    BY <1>6, NoSectionFresh DEF HasAccount
<1>8. ASSUME NEW i \in ID, rows[i] # NoRow
      PROVE  /\ rows[i].owner # new
             /\ rows[i].owner = old => rows[i].box = file'[new].box
             /\ rows[i].owner # old =>
                    HasAccount(file', rows[i].owner) /\ file'[rows[i].owner].box = rows[i].box
    BY <1>2, <1>3, <1>5, <1>6, <1>8 DEF AllFollow, Follows, HasAccount
<1>9. \A s \in stamped : s[1] # new /\ (s[1] # old => HasAccount(file', s[1]))
    BY <1>2, <1>3, <1>5 DEF AllFollow, HasAccount
<1> QED
    BY <1>1, <1>3, <1>7, <1>8, <1>9 DEF Halfway, Follows, HasAccount

\* The three edits take up what EditInHand says of them.
LEMMA EditsInHand ==
    ASSUME TypeOK, Serial, NEW p \in Procs, RenameRead(p) \/ AddRead(p) \/ RemoveRead(p)
    PROVE  EditInHand(p)' /\ proc'[p].pc = "write"
<1>1. file \in [Names -> Section \union {NoSection}] /\ file' = file
    BY DEF TypeOK, File, RenameRead, AddRead, RemoveRead, Edit
<1>2. ASSUME NEW f \in File, NEW old \in Names \union {NoName},
             NEW new \in Names \union {NoName}, Edit(p, f, old, new)
      PROVE  /\ proc'[p].pc = "write" /\ proc'[p].cfg = f
             /\ proc'[p].acct = old /\ proc'[p].to = new
    <2> DEFINE q == [pc |-> "write", cfg |-> f, acct |-> old, to |-> new, keys |-> {}]
    <2>1. q \in Process
        BY DEF Process, PCs
    <2>2. Become(p, q)
        BY <1>2 DEF Edit
    <2>3. q.pc = "write" /\ q.cfg = f /\ q.acct = old /\ q.to = new
        OBVIOUS
    <2> HIDE DEF q
    <2> QED
        BY <2>1, <2>2, <2>3, BecomeHand
<1>3. CASE RenameRead(p)
    <2>1. PICK old, new \in Names :
              /\ old # new /\ ~HasAccount(file, new) /\ HasAccount(file, old)
              /\ Edit(p, Renamed(file, old, new), old, new)
        BY <1>3 DEF RenameRead
    <2>2. Renamed(file, old, new) \in File
        BY <2>1, EditType
    <2>3. /\ proc'[p].pc = "write" /\ proc'[p].cfg = Renamed(file, old, new)
          /\ proc'[p].acct = old /\ proc'[p].to = new
        BY <1>2, <2>1, <2>2
    <2> QED
        BY <1>1, <2>1, <2>3, NoNameFresh DEF EditInHand, HasAccount
<1>4. CASE AddRead(p)
    <2>1. PICK n \in Names, b \in Boxes :
              /\ ~HasAccount(file, n)
              /\ Edit(p, [file EXCEPT ![n] = [box |-> b, on |-> FALSE, aliases |-> {}]],
                      NoName, NoName)
        BY <1>4 DEF AddRead
    <2> DEFINE f == [file EXCEPT ![n] = [box |-> b, on |-> FALSE, aliases |-> {}]]
    <2>2. f \in File
        BY EditType
    <2>3. \A m \in Names : HasAccount(file, m) => HasAccount(f, m) /\ f[m].box = file[m].box
        BY <1>1, <2>1 DEF HasAccount
    <2> HIDE DEF f
    <2>4. /\ proc'[p].pc = "write" /\ proc'[p].cfg = f /\ proc'[p].to = NoName
        BY <1>2, <2>1, <2>2 DEF f
    <2> QED
        BY <1>1, <2>3, <2>4 DEF EditInHand, HasAccount
<1>5. CASE RemoveRead(p)
    <2>1. PICK n \in Accounts(file) : Edit(p, [file EXCEPT ![n].on = FALSE], NoName, NoName)
        BY <1>5 DEF RemoveRead
    <2> DEFINE f == [file EXCEPT ![n].on = FALSE]
    <2>2. n \in Names /\ HasAccount(file, n) /\ f \in File
        BY EditType DEF Accounts, HasAccount
    <2>3. \A m \in Names : HasAccount(file, m) => HasAccount(f, m) /\ f[m].box = file[m].box
        BY <2>2, SwitchKeeps
    <2> HIDE DEF f
    <2>4. /\ proc'[p].pc = "write" /\ proc'[p].cfg = f /\ proc'[p].to = NoName
        BY <1>2, <2>1, <2>2 DEF f
    <2> QED
        BY <1>1, <2>3, <2>4 DEF EditInHand, HasAccount
<1> QED
    BY <1>3, <1>4, <1>5

\* A verb starts on what the file says.
LEMMA BeginSettles ==
    ASSUME Serial, IInv, Settled, NEW p \in Procs,
           NEW label \in {"sync", "mutated", "clear"},
           NEW n \in Names, NEW keys \in SUBSET Keys, Begin(p, label, n, keys)
    PROVE  Settled'
<1> DEFINE q == [pc |-> label, cfg |-> file, acct |-> Resolve(file, n),
                 to |-> NoName, keys |-> keys]
<1>1. Resolve(file, n) \in Accounts(file) /\ Resolve(file, n) \in Names
    BY ResolveType DEF Begin, IInv, TypeOK, Accounts
<1>2. q \in Process
    BY <1>1 DEF Process, PCs, IInv, TypeOK
<1>3. Become(p, q) /\ UNCHANGED <<file, rows, stamped, intact>> /\ proc[p].pc = "idle"
    BY DEF Begin
<1>4. q.pc = label /\ q.cfg = file /\ q.acct = Resolve(file, n)
    OBVIOUS
<1> HIDE DEF q
<1>5. \A r \in Procs : proc'[r] = q
    BY <1>2, <1>3, OnlyOne DEF IInv
<1>6. intact => AllFollow
    BY <1>3 DEF Settled
<1>7. AllFollow' <=> AllFollow
    BY <1>3 DEF AllFollow, Follows, HasAccount
<1> QED
    BY <1>1, <1>3, <1>4, <1>5, <1>6, <1>7 DEF Settled

\* A step that ends an invocation settles when the cache follows.
LEMMA FinishSettles ==
    ASSUME Serial, IInv, NEW p \in Procs, Finish(p),
           intact' => Loadable(file') /\ AllFollow'
    PROVE  Settled'
<1>1. \A r \in Procs : proc'[r] = Idle
    BY IdleType, OnlyOne DEF Finish, IInv
<1>2. Idle.pc = "idle"
    BY DEF Idle
<1> QED
    BY <1>1, <1>2 DEF Settled

\* Taking rows and stamps away settles.
LEMMA FewerFollow ==
    ASSUME AllFollow, file' = file, stamped' \subseteq stamped,
           \A i \in ID : rows'[i] = rows[i] \/ rows'[i] = NoRow
    PROVE  AllFollow'
BY DEF AllFollow, Follows, HasAccount

\* Each step of the one invocation keeps what the labels rely on, as long as the files
\* written load.
LEMMA StepSettles ==
    ASSUME Serial, IInv, KeyMatchesOwner, Settled, intact', NEW p \in Procs,
           \/ SyncStart(p) \/ SyncPut(p) \/ SyncStamp(p) \/ SyncFail(p)
           \/ Mutate(p) \/ ReloadConfig(p) \/ Invalidate(p)
           \/ ClearStart(p) \/ ClearRows(p)
           \/ RenameRead(p) \/ AddRead(p) \/ RemoveRead(p)
           \/ ConfigWrite(p) \/ RenameRows(p) \/ Activate(p) \/ Abort(p)
    PROVE  Settled'
<1>0. intact /\ TypeOK /\ proc[p] \in Process /\ \A r \in Procs : r = p
    BY DEF SyncStart, SyncPut, SyncStamp, SyncFail, Mutate, ReloadConfig, Invalidate,
       ClearStart, ClearRows, RenameRead, AddRead, RemoveRead, ConfigWrite, RenameRows,
       Activate, Abort, Begin, Edit, IInv, TypeOK, Serial
<1>1. /\ Loadable(file)
      /\ proc[p].pc \in {"sync", "mutated", "invalidate", "clear"} =>
             proc[p].cfg = file /\ proc[p].acct \in Accounts(file)
      /\ proc[p].pc = "write" => EditInHand(p)
      /\ proc[p].pc = "rekey" => Halfway(proc[p].acct, proc[p].to)
      /\ proc[p].pc # "rekey" => AllFollow
    BY <1>0 DEF Settled
<1>2. file \in File /\ \A a \in Accounts(file) : a \in Names /\ HasAccount(file, a)
    BY <1>0 DEF TypeOK, Accounts, HasAccount
<1>3. CASE SyncStart(p)
    BY <1>3, BeginSettles DEF SyncStart
<1>4. CASE SyncPut(p)
    <2> DEFINE a == proc[p].acct
    <2>1. a \in Accounts(file) /\ CanonicalAccount(file, a) = a
        BY <1>1, <1>2, <1>4, CanonicalOfAccount DEF SyncPut
    <2>2. \A i \in ID : \/ rows'[i] = [owner |-> a, box |-> file[a].box]
                        \/ rows'[i] = rows[i]
        BY <1>1, <1>4, <2>1 DEF SyncPut, PutEnvelopes
    <2>3. UNCHANGED <<file, stamped, proc, intact>> /\ proc[p].pc = "sync"
        BY <1>4 DEF SyncPut
    <2>4. AllFollow'
        <3>1. ASSUME NEW i \in ID, rows'[i] # NoRow
              PROVE  Follows(rows'[i].owner, rows'[i].box)
            <4>1. CASE rows'[i] = rows[i]
                BY <1>1, <2>3, <3>1, <4>1 DEF AllFollow
            <4>2. CASE rows'[i] = [owner |-> a, box |-> file[a].box]
                BY <1>2, <2>1, <4>2 DEF Follows
            <4> QED
                BY <2>2, <4>1, <4>2
        <3> QED
            BY <1>1, <2>3, <3>1 DEF AllFollow, Follows, HasAccount
    <2> QED
        BY <1>0, <1>1, <2>3, <2>4 DEF Settled
<1>5. CASE SyncStamp(p)
    <2>1. CanonicalAccount(proc[p].cfg, proc[p].acct) = proc[p].acct
        BY <1>1, <1>2, <1>5, CanonicalOfAccount DEF SyncStamp
    <2>2. UNCHANGED <<file, rows, intact>> /\ Finish(p)
        BY <1>5 DEF SyncStamp
    <2>3. PICK fo \in Folders : stamped' = stamped \union {<<proc[p].acct, fo>>}
        BY <1>5, <2>1 DEF SyncStamp
    <2>4. \A s \in stamped' : s \in stamped \/ s[1] = proc[p].acct
        BY <2>3
    <2>5. AllFollow'
        BY <1>1, <1>2, <1>5, <2>2, <2>4 DEF SyncStamp, AllFollow, Follows, HasAccount
    <2> QED
        BY <1>1, <2>2, <2>5, FinishSettles
<1>6. CASE SyncFail(p)
    <2>1. UNCHANGED <<file, rows, stamped, intact>> /\ Finish(p) /\ AllFollow
        BY <1>1, <1>6 DEF SyncFail
    <2> QED
        BY <1>1, <2>1, FewerFollow, FinishSettles
<1>7. CASE Mutate(p)
    BY <1>7, BeginSettles DEF Mutate
<1>8. CASE ReloadConfig(p)
    <2> DEFINE q == [proc[p] EXCEPT !.pc = "invalidate", !.cfg = file]
    <2>1. q \in Process /\ q.pc = "invalidate" /\ q.cfg = file /\ q.acct = proc[p].acct
        BY <1>0, <1>2 DEF Process, PCs
    <2>2. Become(p, q) /\ UNCHANGED <<file, rows, stamped, intact>> /\ proc[p].pc = "mutated"
        BY <1>1, <1>8 DEF ReloadConfig
    <2> HIDE DEF q
    <2>3. \A r \in Procs : proc'[r] = q
        BY <1>0, <2>1, <2>2, OnlyOne
    <2>4. AllFollow'
        BY <1>1, <2>2, FewerFollow
    <2> QED
        BY <1>1, <2>1, <2>2, <2>3, <2>4 DEF Settled
<1>9. CASE Invalidate(p)
    <2>1. /\ UNCHANGED <<file, stamped, intact>> /\ Finish(p) /\ AllFollow
          /\ \A i \in ID : rows'[i] = rows[i] \/ rows'[i] = NoRow
        BY <1>1, <1>9 DEF Invalidate, DeleteByIDs
    <2> QED
        BY <1>1, <2>1, FewerFollow, FinishSettles
<1>10. CASE ClearStart(p)
    BY <1>10, BeginSettles DEF ClearStart
<1>11. CASE ClearRows(p)
    <2>1. /\ UNCHANGED <<file, intact>> /\ Finish(p) /\ AllFollow
          /\ stamped' \subseteq stamped
          /\ \A i \in ID : rows'[i] = rows[i] \/ rows'[i] = NoRow
        BY <1>1, <1>11 DEF ClearRows, ClearAccount
    <2> QED
        BY <1>1, <2>1, FewerFollow, FinishSettles
<1>12. CASE RenameRead(p) \/ AddRead(p) \/ RemoveRead(p)
    <2>1. UNCHANGED <<file, rows, stamped, intact>> /\ proc[p].pc = "idle"
        BY <1>12 DEF RenameRead, AddRead, RemoveRead, Edit
    <2>2. EditInHand(p)' /\ proc'[p].pc = "write"
        BY <1>0, <1>12, EditsInHand
    <2>3. AllFollow'
        BY <1>1, <2>1, FewerFollow
    <2>4. \A r \in Procs : EditInHand(r)' /\ proc'[r].pc = "write"
        BY <1>0, <2>2
    <2> QED
        BY <1>1, <2>1, <2>3, <2>4 DEF Settled
<1>13. CASE ConfigWrite(p)
    <2>1. Loadable(file') /\ proc[p].pc = "write" /\ EditInHand(p) /\ AllFollow
        BY <1>1, <1>13 DEF ConfigWrite
    <2>2. CASE proc[p].to = NoName
        <3>1. Finish(p) /\ AllFollow'
            BY <1>0, <1>13, <2>1, <2>2, WriteKeeps DEF ConfigWrite
        <3> QED
            BY <2>1, <3>1, FinishSettles
    <2>3. CASE proc[p].to # NoName
        <3> DEFINE old == proc[p].acct
                   new == proc[p].to
                   q == [proc[p] EXCEPT !.pc = "rekey"]
        <3>1. old \in Names /\ new \in Names
            BY <1>0, <2>1, <2>3 DEF IInv, HandOK, Process
        <3>2. q \in Process /\ q.pc = "rekey" /\ q.acct = old /\ q.to = new
            BY <1>0 DEF Process, PCs
        <3>3. Become(p, q)
            BY <1>13, <2>3 DEF ConfigWrite, Goto
        <3> HIDE DEF q
        <3>4. \A r \in Procs : proc'[r] = q
            BY <1>0, <3>2, <3>3, OnlyOne
        <3>5. \A r \in Procs : Halfway(proc[r].acct, proc[r].to)'
            <4>1. \A o, n \in Names : o = old /\ n = new => Halfway(o, n)'
                BY <1>0, <1>13, <2>1, WriteIsHalfway
            <4> QED
                BY <3>1, <3>2, <3>4, <4>1
        <3> HIDE DEF old, new
        <3> QED
            BY <1>0, <2>1, <3>2, <3>4, <3>5 DEF Settled
    <2> QED
        BY <2>2, <2>3
<1>14. CASE RenameRows(p)
    <2>1. /\ proc[p].acct \in Names /\ proc[p].to \in Names
          /\ Halfway(proc[p].acct, proc[p].to)
          /\ RekeyRows(proc[p].acct, proc[p].to)
          /\ UNCHANGED <<file, intact>> /\ Finish(p)
        BY <1>1, <1>14 DEF RenameRows, IInv, HandOK
    <2>2. AllFollow'
        BY <1>0, <2>1, RekeyCompletes
    <2> QED
        BY <1>1, <2>1, <2>2, FinishSettles
<1>15. CASE Activate(p)
    <2>1. PICK n \in Names : HasAccount(file, n) /\ file' = [file EXCEPT ![n].on = TRUE]
        BY <1>15 DEF Activate
    <2>2. /\ UNCHANGED <<rows, stamped, proc>> /\ proc[p].pc = "idle"
          /\ Loadable(file') /\ AllFollow
        BY <1>1, <1>15 DEF Activate
    <2>3. \A m \in Names : HasAccount(file, m) =>
              HasAccount(file', m) /\ file'[m].box = file[m].box
        BY <1>0, <2>1, SwitchKeeps
    <2>4. /\ \A i \in ID : rows[i] # NoRow => rows[i].owner \in Names
          /\ \A s \in stamped : s[1] \in Names
        BY <1>0 DEF TypeOK, Row
    <2>5. AllFollow'
        BY <2>2, <2>3, <2>4 DEF AllFollow, Follows, HasAccount
    <2> QED
        BY <1>0, <2>2, <2>5 DEF Settled
<1>16. CASE Abort(p)
    BY <1>16 DEF Abort, Serial
<1> QED
    BY <1>3, <1>4, <1>5, <1>6, <1>7, <1>8, <1>9, <1>10, <1>11, <1>12, <1>13, <1>14,
       <1>15, <1>16

\* While no file was refused, serial invocations keep the cache in step.
THEOREM AlwaysSettled ==
    ASSUME Serial
    PROVE  Spec => []Settled
<1>1. Init => Settled
    <2> SUFFICES ASSUME Init PROVE Settled
        OBVIOUS
    <2>1. AllFollow /\ Loadable(file) /\ \A p \in Procs : proc[p].pc = "idle"
        BY DEF Init, AllFollow, Idle
    <2> QED
        BY <2>1 DEF Settled
<1>2. IInv /\ KeyMatchesOwner /\ Settled /\ [Next]_vars => Settled'
    <2> SUFFICES ASSUME IInv, KeyMatchesOwner, Settled, [Next]_vars PROVE Settled'
        OBVIOUS
    <2>1. CASE Next /\ intact'
        BY <2>1, StepSettles DEF Next
    <2>2. CASE ~intact'
        BY <2>2 DEF Settled
    <2>3. CASE UNCHANGED vars
        BY <2>3 DEF vars, Settled, AllFollow, Follows, HasAccount, Halfway, EditInHand
    <2> QED
        BY <2>1, <2>2, <2>3
<1> QED
    BY <1>1, <1>2, AlwaysIInv, KeysMatchOwners, PTL DEF Spec

\* Cached rows follow their account through renames, removals and re-additions, for
\* serial invocations of which none fails.
THEOREM RowsFollow ==
    ASSUME Serial
    PROVE  Spec => []RowsFollowAccounts
<1>1. Settled => RowsFollowAccounts
    BY DEF Settled, RowsFollowAccounts, Quiet, AllFollow, Follows
<1> QED
    BY <1>1, AlwaysSettled, PTL

\* Of an invocation about to invalidate, the account it holds is the only name with a
\* block, of all those that resolve to it, and all cached rows have blocks.
THEOREM InvalidationsReach ==
    ASSUME Serial
    PROVE  Spec => InvalidationReachesRow
<1> DEFINE Reaches ==
        \A p \in Procs : intact /\ proc[p].pc = "invalidate" /\ proc'[p].pc = "idle" =>
           \A i \in ID : /\ i[2] \in proc[p].keys
                         /\ Resolve(file, i[1]) = Resolve(file, proc[p].acct)
                         /\ HasAccount(file, i[1]) => i[1] = proc[p].acct
                         => rows'[i] = NoRow
<1>1. IInv /\ KeyMatchesOwner /\ Settled /\ [Next]_vars => [Reaches]_vars
    <2> SUFFICES ASSUME IInv, KeyMatchesOwner, Settled, [Next]_vars, ~UNCHANGED vars,
                        NEW p \in Procs, intact, proc[p].pc = "invalidate",
                        proc'[p].pc = "idle",
                        NEW i \in ID, i[2] \in proc[p].keys,
                        HasAccount(file, i[1]) => i[1] = proc[p].acct
                 PROVE  rows'[i] = NoRow
        OBVIOUS
    <2>1. \A r \in Procs : r = p
        BY DEF Serial
    <2>2. Invalidate(p)
        <3>1. Next
            OBVIOUS
        <3>2. PICK r \in Procs : Invalidate(r) \/ proc[r].pc # "invalidate" \/ Fallible
            BY <3>1 DEF Next, SyncStart, SyncPut, SyncStamp, SyncFail, Mutate, ReloadConfig,
               ClearStart, ClearRows, RenameRead, AddRead, RemoveRead, ConfigWrite,
               RenameRows, Activate, Abort, Begin, Edit
        <3> QED
            BY <2>1, <3>2 DEF Serial
    <2>3. proc[p].cfg = file /\ proc[p].acct \in Accounts(file) /\ AllFollow
        BY DEF Settled
    <2>4. CanonicalAccount(file, proc[p].acct) = proc[p].acct
        BY <2>3, CanonicalOfAccount DEF IInv, TypeOK
    <2>5. CASE i[1] = proc[p].acct
        <3>1. i \in {proc[p].acct} \X proc[p].keys /\ CanonicalID(file, i) = i
            BY <2>4, <2>5 DEF CanonicalID, ID
        <3> QED
            BY <2>2, <2>3, <3>1 DEF Invalidate, DeleteByIDs
    <2>6. CASE i[1] # proc[p].acct
        <3>1. rows[i] = NoRow
            BY <2>3, <2>6 DEF AllFollow, Follows, KeyMatchesOwner
        <3> QED
            BY <2>2, <3>1 DEF Invalidate, DeleteByIDs
    <2> QED
        BY <2>5, <2>6
<1> QED
    BY <1>1, AlwaysSettled, AlwaysIInv, KeysMatchOwners, PTL DEF Spec, InvalidationReachesRow
=============================================================================
