-------------------------- MODULE FolderScan_proofs --------------------------
(***************************************************************************)
(* Proofs about FolderScan for every page size and every mailbox: the      *)
(* downward scan covers the messages that stay, whatever is delivered,     *)
(* expunged or recreated between and within its pages.                     *)
(***************************************************************************)
EXTENDS FolderScan, FiniteSetTheorems, TLAPS

\* What a message that was there at the beginning has behind it while the run
\* is at each of its steps; "fetch" is the one Covered says nothing about.
Behind(m) ==
    /\ pc = "search" /\ cursor # 0 /\ m[2] >= cursor => m \in cache
    /\ pc = "fetch" => \/ m \in cache
                       \/ m[2] \in page
                       \/ /\ Cardinality(page) = Limit
                          /\ \A u \in page : m[2] < u
    /\ pc = "stamp" => m \in cache

\* The messages of the beginning are old: no delivery is one of them.
Old(m) == \/ m[1] < validity
          \/ m[1] = validity /\ m[2] < uidnext

\* What is fetched was found.
Paged == IsFiniteSet(page)

\* The inductive invariant.
IInv ==
    /\ TypeOK
    /\ IsFiniteSet(uids)
    /\ Paged
    /\ \A m \in begun : Old(m)
    /\ \A m \in Steady : Behind(m)

\* A UID there is, or was, is below UIDNEXT.
LEMMA SteadyUid ==
    ASSUME NEW m \in Steady
    PROVE  m = <<validity, m[2]>> /\ m[2] \in uids /\ m \in begun
BY DEF Steady, Present, Here

LEMMA InitIInv == Init => IInv
<1> SUFFICES ASSUME Init PROVE IInv
    OBVIOUS
<1>1. uidnext \in Nat /\ FirstUid \in Nat
    BY FirstUidPositive, BoundsNat DEF Init
<1>2. IsFiniteSet(FirstUid..(uidnext - 1))
    BY <1>1, FS_Interval
<1>3. IsFiniteSet(uids)
    BY <1>2, FS_Subset DEF Init
<1>4. TypeOK
    BY <1>1 DEF Init, TypeOK, Here
<1> QED
    BY <1>3, <1>4, FS_EmptySet DEF Init, IInv, Steady, Paged

\* Of a finite search result, a cut shorter than the page size is all of it.
LEMMA CutCases ==
    ASSUME NEW s, IsFiniteSet(s), NEW us, CutTo(s, us)
    PROVE  us = s \/ Cardinality(us) = Limit
<1>1. Cardinality(us) \in Nat
    BY FS_Subset, FS_CardinalityType DEF CutTo
<1> QED
    BY <1>1, LimitPositive DEF CutTo

LEMMA SearchKeepsBehind ==
    ASSUME IInv, Search, NEW m \in Steady
    PROVE  Behind(m)'
<1>1. PICK us \in SUBSET uids :
          CutTo(Scope, us) /\ page' = us /\ pc' = IF us = {} THEN "stamp" ELSE "fetch"
    BY DEF Search
<1>2. m[2] \in uids /\ m[2] \in Nat /\ cursor \in Nat
    BY SteadyUid DEF IInv, TypeOK
<1>3. m \in cache \/ m[2] \in Scope
    BY <1>2 DEF Search, IInv, Behind, Scope
<1>4. IsFiniteSet(Scope)
    BY FS_Subset DEF Scope, IInv
<1>5. us = Scope \/ Cardinality(us) = Limit
    BY <1>1, <1>4, CutCases
<1>6. us = {} => us = Scope
    <2>1. Cardinality({}) = 0
        BY FS_EmptySet
    <2> QED
        BY <1>5, <2>1, LimitPositive
<1>7. m \in cache' <=> m \in cache
    BY DEF Search
<1>8. CASE m \in cache
    BY <1>1, <1>7, <1>8 DEF Behind
<1>9. CASE m[2] \in us
    BY <1>1, <1>9 DEF Behind
<1>10. CASE m[2] \in Scope \ us
    <2>1. Cardinality(us) = Limit /\ us # {}
        BY <1>5, <1>6, <1>10
    <2>2. \A u \in us : m[2] < u
        BY <1>1, <1>10 DEF CutTo
    <2> QED
        BY <1>1, <2>1, <2>2 DEF Behind
<1> QED
    BY <1>3, <1>8, <1>9, <1>10

LEMMA FetchPutKeepsBehind ==
    ASSUME IInv, FetchPut, NEW m \in Steady
    PROVE  Behind(m)'
<1>1. PICK bufs \in SUBSET page :
          page \intersect uids \subseteq bufs /\ cache' = cache \union Here(bufs)
    BY DEF FetchPut
<1>2. m[2] \in page => m \in cache'
    BY <1>1, SteadyUid DEF Here
<1>3. \/ m \in cache'
      \/ Cardinality(page) = Limit /\ \A u \in page : m[2] < u
    BY <1>1, <1>2 DEF FetchPut, IInv, Behind
<1>4. CASE Cardinality(page) = Limit
    <2>1. PICK low \in page : cursor' = low /\ pc' = "search"
        BY <1>4 DEF FetchPut, NextCursor
    <2>2. low \in Nat /\ m[2] \in Nat
        BY SteadyUid DEF IInv, TypeOK
    <2> QED
        BY <1>3, <2>1, <2>2 DEF Behind
<1>5. CASE Cardinality(page) # Limit
    BY <1>3, <1>5 DEF FetchPut, NextCursor, Behind
<1> QED
    BY <1>4, <1>5

\* The steps that touch neither the messages of the beginning nor the scan.
LEMMA ServerKeepsIInv ==
    ASSUME IInv, Deliver \/ Expunge \/ Recreate
    PROVE  IInv'
<1> USE DEF IInv
<1>0. begun' = begun /\ cache' = cache /\ pc' = pc /\ cursor' = cursor /\ page' = page
    BY DEF Deliver, Expunge, Recreate, client
<1>1. CASE Deliver
    <2>1. TypeOK'
        <3>1. /\ uidnext' \in Nat /\ uids' \in SUBSET Nat /\ FirstUid <= uidnext'
              /\ \A u \in uids' : FirstUid <= u /\ u < uidnext'
            BY <1>1, FirstUidPositive DEF Deliver, TypeOK
        <3>2. ever' \subseteq Nat \X Nat
            BY <1>1 DEF Deliver, TypeOK, Here
        <3> QED
            BY <1>1, <3>1, <3>2 DEF Deliver, TypeOK, client
    <2>2. IsFiniteSet(uids')
        BY <1>1, FS_AddElement DEF Deliver
    <2>3. \A m \in begun' : Old(m)'
        BY <1>0, <1>1 DEF Deliver, Old, TypeOK
    <2>4. Steady' \subseteq Steady
        <3> SUFFICES ASSUME NEW m \in Steady' PROVE m \in Steady
            OBVIOUS
        <3>1. m \in begun /\ m = <<validity, m[2]>> /\ m[2] \in uids \union {uidnext}
            BY <1>0, <1>1 DEF Deliver, Steady, Present, Here
        <3>2. m[2] # uidnext
            BY <3>1 DEF Old, TypeOK
        <3> QED
            BY <3>1, <3>2 DEF Steady, Present, Here
    <2>5. \A m \in Steady' : Behind(m)'
        BY <1>0, <2>4 DEF Behind
    <2> QED
        BY <1>0, <2>1, <2>2, <2>3, <2>5 DEF Paged
<1>2. CASE Expunge
    <2>1. PICK u \in uids : uids' = uids \ {u}
        BY <1>2 DEF Expunge
    <2>2. TypeOK'
        BY <1>2, <2>1 DEF Expunge, TypeOK, client
    <2>3. IsFiniteSet(uids')
        BY <2>1, FS_RemoveElement
    <2>4. \A m \in begun' : Old(m)'
        BY <1>0, <1>2 DEF Expunge, Old
    <2>5. Steady' \subseteq Steady
        BY <1>0, <1>2, <2>1 DEF Expunge, Steady, Present, Here
    <2>6. \A m \in Steady' : Behind(m)'
        BY <1>0, <2>5 DEF Behind
    <2> QED
        BY <1>0, <2>2, <2>3, <2>4, <2>6 DEF Paged
<1>3. CASE Recreate
    <2>1. TypeOK'
        BY <1>3, FirstUidPositive DEF Recreate, TypeOK, client
    <2>2. IsFiniteSet(uids')
        BY <1>3, FS_EmptySet DEF Recreate
    <2>3. \A m \in begun' : Old(m)'
        BY <1>0, <1>3 DEF Recreate, Old, TypeOK
    <2>4. Steady' = {}
        BY <1>3 DEF Recreate, Steady, Present, Here
    <2> QED
        BY <1>0, <2>1, <2>2, <2>3, <2>4 DEF Paged
<1> QED
    BY <1>1, <1>2, <1>3

LEMMA SyncKeepsIInv ==
    ASSUME IInv, Sync
    PROVE  IInv'
<1> USE DEF IInv
<1>0. validity' = validity /\ uids' = uids /\ uidnext' = uidnext /\ ever' = ever
    BY DEF Sync, SyncStart, Search, FetchPut, Stamp, Fail, Stop, server
<1>1. CASE SyncStart
    <2>1. TypeOK'
        BY <1>0, <1>1 DEF SyncStart, TypeOK, Present, Here
    <2>2. \A m \in begun' : Old(m)'
        BY <1>0, <1>1 DEF SyncStart, Old, TypeOK, Present, Here
    <2>3. \A m \in Steady' : Behind(m)'
        BY <1>1 DEF SyncStart, Behind
    <2> QED
        BY <1>0, <1>1, <2>1, <2>2, <2>3 DEF SyncStart, Paged
<1>2. CASE Search
    <2>1. TypeOK'
        BY <1>0, <1>2 DEF Search, TypeOK
    <2>2. begun' = begun /\ Steady' = Steady
        BY <1>0, <1>2 DEF Search, Steady, Present, Here
    <2>3. \A m \in Steady' : Behind(m)'
        BY <1>2, <2>2, SearchKeepsBehind
    <2>4. Paged'
        BY <1>2, FS_Subset DEF Search, Paged
    <2> QED
        BY <1>0, <2>1, <2>2, <2>3, <2>4 DEF Old
<1>3. CASE FetchPut
    <2>1. TypeOK'
        <3>1. PICK bufs \in SUBSET page :
                  /\ cache' = cache \union Here(bufs)
                  /\ total' = total + Cardinality(bufs)
                  /\ listed' = listed \union Here(bufs)
                  /\ page \intersect uids \subseteq bufs
            BY <1>3 DEF FetchPut
        <3>2. Cardinality(bufs) \in Nat
            BY <1>3, FS_Subset, FS_CardinalityType DEF FetchPut, Paged
        <3>3. cursor' \in Nat /\ pc' \in {"search", "stamp"}
            BY <1>3 DEF FetchPut, NextCursor, TypeOK
        <3>4. Here(bufs) \subseteq Nat \X Nat
            BY DEF Here, TypeOK
        <3>5. total' \in Nat
            BY <3>1, <3>2 DEF TypeOK
        <3>6. cache' \subseteq Nat \X Nat /\ listed' \subseteq Nat \X Nat
            BY <3>1, <3>4 DEF TypeOK
        <3> QED
            BY <1>0, <1>3, <3>3, <3>5, <3>6 DEF FetchPut, TypeOK
    <2>2. begun' = begun /\ Steady' = Steady
        BY <1>0, <1>3 DEF FetchPut, Steady, Present, Here
    <2>3. \A m \in Steady' : Behind(m)'
        BY <1>3, <2>2, FetchPutKeepsBehind
    <2>4. Paged'
        BY <1>3, FS_EmptySet DEF FetchPut, Paged
    <2> QED
        BY <1>0, <2>1, <2>2, <2>3, <2>4 DEF Old
<1>4. CASE Stamp \/ Fail
    <2>1. pc' = "idle" /\ begun' = {} /\ Steady' = {}
        BY <1>4 DEF Stamp, Fail, Stop, Steady
    <2>2. TypeOK'
        BY <1>0, <1>4 DEF Stamp, Fail, Stop, TypeOK
    <2>3. Paged'
        BY <1>4, FS_EmptySet DEF Stamp, Fail, Stop, Paged
    <2> QED
        BY <1>0, <2>1, <2>2, <2>3
<1> QED
    BY <1>1, <1>2, <1>3, <1>4 DEF Sync

\* The inductive invariant holds throughout.
THEOREM AlwaysIInv == Spec => []IInv
<1>1. IInv /\ [Next]_vars => IInv'
    <2> SUFFICES ASSUME IInv, [Next]_vars PROVE IInv'
        OBVIOUS
    <2>1. CASE Next
        BY <2>1, ServerKeepsIInv, SyncKeepsIInv DEF Next, Server
    <2>2. CASE UNCHANGED vars
        BY <2>2 DEF vars, server, client, IInv, TypeOK, Old, Behind, Steady,
                    Present, Here, Paged
    <2> QED
        BY <2>1, <2>2
<1> QED
    BY InitIInv, <1>1, PTL DEF Spec

\* Every variable stays in its range.
THEOREM TypeCorrect == Spec => []TypeOK
<1>1. IInv => TypeOK
    BY DEF IInv
<1> QED
    BY AlwaysIInv, <1>1, PTL

\* The scan covers the messages that stay.
THEOREM ScanCovers == Spec => []Covered
<1>1. IInv => Covered
    BY DEF IInv, Covered, Behind
<1> QED
    BY AlwaysIInv, <1>1, PTL

-----------------------------------------------------------------------------
(* The scan implements the promise                                          *)

\* What the mapping to FolderSync needs besides: the history of the folder is
\* one of old messages within the bounds, a page was found in it, and outcome
\* says whether the sync is at work.
MapInv ==
    /\ Present \subseteq ever
    /\ ever \subseteq Message
    /\ \A m \in ever : Old(m)
    /\ pc = "fetch" => Here(page) \subseteq ever
    /\ pc = "idle" <=> outcome # "running"
    /\ validity \in Validities

LEMMA InitMapInv == Init => MapInv
<1> SUFFICES ASSUME Init PROVE MapInv
    OBVIOUS
<1>1. uidnext \in Nat /\ FirstUid \in Nat /\ MaxUid \in Nat /\ uidnext <= MaxUid + 1
    BY FirstUidPositive, BoundsNat DEF Init
<1>2. validity \in Validities
    BY BoundsNat DEF Init, Validities
<1>3. FirstUid..(uidnext - 1) \subseteq Uids
    BY <1>1 DEF Uids
<1>4. ever \subseteq Message /\ Present \subseteq ever
    BY <1>2, <1>3 DEF Init, Message, Here, Present
<1>5. \A m \in ever : Old(m)
    BY <1>1 DEF Init, Here, Old
<1> QED
    BY <1>2, <1>4, <1>5 DEF Init, MapInv

LEMMA StepMapInv ==
    ASSUME IInv, MapInv, Next
    PROVE  MapInv'
<1> USE DEF MapInv
<1>0. TypeOK
    BY DEF IInv
<1>1. CASE Deliver
    <2>1. uidnext \in Uids /\ uidnext' = uidnext + 1 /\ validity' = validity /\ page' = page
          /\ pc' = pc /\ outcome' = outcome
        BY <1>0, <1>1, BoundsNat, FirstUidPositive DEF Deliver, TypeOK, Uids, client
    <2>2. ever' \subseteq Message /\ Present' \subseteq ever'
        BY <1>1, <2>1 DEF Deliver, Message, Present, Here
    <2>3. \A m \in ever' : Old(m)'
        <3> SUFFICES ASSUME NEW m \in ever' PROVE Old(m)'
            OBVIOUS
        <3>1. m \in ever \/ m = <<validity, uidnext>>
            BY <1>1 DEF Deliver, Here
        <3> QED
            BY <1>0, <2>1, <3>1 DEF Old, TypeOK
    <2> QED
        BY <1>1, <2>1, <2>2, <2>3 DEF Deliver, Here
<1>2. CASE Expunge
    BY <1>2 DEF Expunge, client, Present, Here, Old
<1>3. CASE Recreate
    <2>1. validity' \in Validities /\ validity' = validity + 1
        BY <1>0, <1>3, BoundsNat DEF Recreate, Validities, TypeOK
    <2>2. \A m \in ever' : Old(m)'
        BY <1>0, <1>3, <2>1 DEF Recreate, Old, TypeOK
    <2> QED
        BY <1>3, <2>1, <2>2 DEF Recreate, client, Present, Here
<1>4. CASE Sync
    <2>0. validity' = validity /\ uids' = uids /\ uidnext' = uidnext /\ ever' = ever
        BY <1>4 DEF Sync, SyncStart, Search, FetchPut, Stamp, Fail, Stop, server
    <2>1. Present' = Present /\ \A m \in ever' : Old(m)'
        BY <2>0 DEF Present, Here, Old
    <2>2. CASE SyncStart
        BY <2>0, <2>1, <2>2 DEF SyncStart
    <2>3. CASE Search
        <3>1. pc' \in {"stamp", "fetch"} /\ page' \subseteq uids /\ outcome' = outcome
            BY <2>3 DEF Search
        <3>2. (Here(page))' \subseteq ever'
            BY <2>0, <3>1 DEF Here, Present
        <3>3. pc' # "idle" /\ outcome' = "running"
            BY <2>3, <3>1 DEF Search
        <3> QED
            BY <2>0, <2>1, <3>2, <3>3
    <2>4. CASE FetchPut
        <3>1. pc' \in {"search", "stamp"} /\ outcome' = "running"
            BY <2>4 DEF FetchPut, NextCursor
        <3> QED
            BY <2>0, <2>1, <3>1
    <2>5. CASE Stamp \/ Fail
        BY <2>0, <2>1, <2>5 DEF Stamp, Fail, Stop
    <2> QED
        BY <1>4, <2>2, <2>3, <2>4, <2>5 DEF Sync
<1> QED
    BY <1>1, <1>2, <1>3, <1>4 DEF Next, Server

\* A step of the scan is a step of the promise, or changes nothing of it.
LEMMA StepKeepsPromise ==
    ASSUME IInv, MapInv, Next
    PROVE  Promise!Next \/ UNCHANGED Promise!vars
<1> USE DEF MapInv
<1>0. TypeOK
    BY DEF IInv
<1>1. CASE Server
    <2>1. UNCHANGED <<cache, outcome, begun>>
        BY <1>1 DEF Server, Deliver, Expunge, Recreate, client
    <2>2. CASE Deliver
        <3>1. <<validity, uidnext>> \in Message \ ever
            BY <1>0, <2>2, BoundsNat, FirstUidPositive
               DEF Deliver, TypeOK, Uids, Message, Old
        <3>2. Present' = Present \union {<<validity, uidnext>>}
            BY <2>2 DEF Deliver, Present, Here
        <3>3. ever' = ever \union {<<validity, uidnext>>}
            BY <2>2 DEF Deliver, Here
        <3> QED
            BY <2>1, <3>1, <3>2, <3>3 DEF Promise!Next, Promise!Change
    <2>3. CASE Expunge \/ Recreate
        <3>1. Present' \subseteq Present
            BY <2>3 DEF Expunge, Recreate, Present, Here
        <3>2. ever' = ever
            BY <2>3 DEF Expunge, Recreate
        <3>3. \E come \in SUBSET (Message \ ever), stay \in SUBSET Present :
                  /\ Present' = stay \union come
                  /\ ever' = ever \union come
            <4>1. /\ {} \in SUBSET (Message \ ever) /\ Present' \in SUBSET Present
                  /\ Present' = Present' \union {} /\ ever' = ever \union {}
                BY <3>1, <3>2
            <4> QED
                BY <4>1
        <3> QED
            BY <2>1, <3>3 DEF Promise!Next, Promise!Change
    <2> QED
        BY <1>1, <2>2, <2>3 DEF Server
<1>2. CASE Sync
    <2>1. Present' = Present /\ ever' = ever
        BY <1>2 DEF Sync, SyncStart, Search, FetchPut, Stamp, Fail, Stop, server, Present, Here
    <2>2. CASE SyncStart
        BY <2>1, <2>2 DEF SyncStart, Promise!Next, Promise!Begin
    <2>3. CASE Search
        BY <2>1, <2>3 DEF Search, Promise!vars
    <2>4. CASE FetchPut
        <3>1. PICK bufs \in SUBSET page : cache' = cache \union Here(bufs)
            BY <2>4 DEF FetchPut
        <3>2. Here(bufs) \in SUBSET ever
            BY <2>4 DEF FetchPut, Here
        <3>3. outcome = "running" /\ outcome' = outcome /\ begun' = begun
            BY <2>4 DEF FetchPut
        <3> QED
            BY <2>1, <3>1, <3>2, <3>3 DEF Promise!Next, Promise!Keep
    <2>5. CASE Stamp
        <3>1. Steady \subseteq cache
            BY <2>5 DEF Stamp, IInv, Behind
        <3>2. /\ outcome = "running" /\ outcome' = "ok"
              /\ begun' = {} /\ cache' = cache
            BY <2>5 DEF Stamp, Stop
        <3> QED
            BY <2>1, <3>1, <3>2 DEF Promise!Next, Promise!Succeed, Promise!End, Steady
    <2>6. CASE Fail
        BY <2>1, <2>6 DEF Fail, Stop, Promise!Next, Promise!GiveUp, Promise!End
    <2> QED
        BY <1>2, <2>2, <2>3, <2>4, <2>5, <2>6 DEF Sync
<1> QED
    BY <1>1, <1>2 DEF Next

\* The sync of a folder keeps its promise.
THEOREM ScanKeepsPromise == Spec => KeepsPromise
<1>1. Init => Promise!Init
    <2> SUFFICES ASSUME Init PROVE Promise!Init
        OBVIOUS
    <2>1. ever \in SUBSET Message /\ Present \subseteq ever
        BY InitMapInv DEF MapInv
    <2> QED
        BY <2>1 DEF Init, Promise!Init
<1>2. IInv /\ MapInv /\ [Next]_vars => MapInv'
    <2>1. ASSUME MapInv, UNCHANGED vars PROVE MapInv'
        BY <2>1 DEF vars, server, client, MapInv, Present, Here, Old
    <2> QED
        BY <2>1, StepMapInv
<1>3. IInv /\ MapInv /\ [Next]_vars => [Promise!Next]_(Promise!vars)
    <2>1. ASSUME UNCHANGED vars PROVE UNCHANGED Promise!vars
        BY <2>1 DEF vars, server, client, Promise!vars, Present, Here
    <2> QED
        BY <2>1, StepKeepsPromise
<1> QED
    BY <1>1, <1>2, <1>3, InitMapInv, AlwaysIInv, PTL DEF Spec, KeepsPromise, Promise!Spec

-----------------------------------------------------------------------------
(* The count of a sync *)

\* What the run has listed of this incarnation of the mailbox is at or above the
\* cursor, and above the page in hand; so no page lists it again.
Counted ==
    /\ IsFiniteSet(listed)
    /\ pc # "idle" => total = Cardinality(listed)
    /\ cursor # 0 => FirstUid <= cursor
    /\ \A u \in page : FirstUid <= u
    /\ \A m \in listed : m[1] <= validity
    /\ pc \in {"search", "fetch"} /\ cursor = 0 => listed = {}
    /\ pc = "search" => \A m \in listed : m[1] = validity => cursor <= m[2]
    /\ pc = "fetch" => \A m \in listed : m[1] = validity => \A u \in page : u < m[2]

\* A page lists as many messages as it has UIDs.
LEMMA HereCardinality ==
    ASSUME NEW us, IsFiniteSet(us)
    PROVE  IsFiniteSet(Here(us)) /\ Cardinality(Here(us)) = Cardinality(us)
<1> DEFINE f == [u \in us |-> <<validity, u>>]
<1>1. f \in [us -> Here(us)]
    BY DEF Here
<1>2. \A u, v \in us : f[u] = f[v] => u = v
    OBVIOUS
<1>3. \A m \in Here(us) : \E u \in us : f[u] = m
    BY DEF Here
<1>4. f \in Bijection(us, Here(us))
    BY <1>1, <1>2, <1>3 DEF Bijection, Injection, Surjection, IsInjective
<1> QED
    BY <1>4, FS_Bijection DEF ExistsBijection

\* Only FETCH lists messages.  The page was found below all that was listed
\* before; without a UID 1 no bound is 0.
LEMMA FetchPutKeepsCount ==
    ASSUME IInv, Counted, FetchPut
    PROVE  Counted'
<1> USE DEF Counted
<1>1. PICK bufs \in SUBSET page :
          /\ total' = total + Cardinality(bufs)
          /\ listed' = listed \union Here(bufs)
    BY DEF FetchPut
<1>2. /\ pc = "fetch" /\ validity' = validity /\ page' = {}
      /\ page \in SUBSET Nat /\ cursor \in Nat /\ total \in Nat
      /\ validity \in Nat /\ FirstUid \in Nat /\ FirstUid # 0
      /\ listed \subseteq Nat \X Nat
    BY FirstUidPositive DEF FetchPut, server, IInv, TypeOK
<1>3. IsFiniteSet(bufs)
    BY <1>1, FS_Subset DEF IInv, Paged
<1>4. listed \intersect Here(bufs) = {}
    BY <1>1, <1>2 DEF Here
<1>5. IsFiniteSet(listed') /\ total' = Cardinality(listed')
    <2>1. IsFiniteSet(Here(bufs)) /\ Cardinality(Here(bufs)) = Cardinality(bufs)
        BY <1>3, HereCardinality
    <2>2. /\ IsFiniteSet(listed \union Here(bufs))
          /\ Cardinality(listed \union Here(bufs))
               = Cardinality(listed) + Cardinality(Here(bufs)) - Cardinality({})
        BY <1>4, <2>1, FS_Union
    <2>3. Cardinality({}) = 0 /\ Cardinality(listed) \in Nat /\ Cardinality(bufs) \in Nat
        BY <1>3, FS_EmptySet, FS_CardinalityType
    <2> QED
        BY <1>1, <1>2, <2>1, <2>2, <2>3
<1>6. \A m \in listed' : m[1] <= validity
    BY <1>1, <1>2 DEF Here
<1>7. CASE Cardinality(page) = Limit
    <2>1. PICK low \in page : (\A u \in page : low <= u) /\ cursor' = low /\ pc' = "search"
        BY <1>7 DEF FetchPut, NextCursor
    <2>2. FirstUid <= low /\ low \in Nat /\ low # 0
        BY <1>2
    <2>3. ASSUME NEW m \in listed', m[1] = validity PROVE low <= m[2]
        <3>1. CASE m \in listed
            BY <1>2, <2>3, <3>1
        <3>2. CASE m \in Here(bufs)
            BY <1>1, <2>1, <3>2 DEF Here
        <3> QED
            BY <1>1, <3>1, <3>2
    <2> QED
        BY <1>2, <1>5, <1>6, <2>1, <2>2, <2>3
<1>8. CASE Cardinality(page) # Limit
    <2>1. pc' = "stamp" /\ cursor' = cursor
        BY <1>8 DEF FetchPut, NextCursor
    <2> QED
        BY <1>2, <1>5, <1>6, <2>1
<1> QED
    BY <1>7, <1>8

\* The other steps list nothing; a new incarnation of the mailbox lets go of all
\* that was listed of the old one.
LEMMA OthersKeepCount ==
    ASSUME FirstUid # 1, IInv, Counted, Server \/ SyncStart \/ Search \/ Stamp \/ Fail
    PROVE  Counted'
<1> USE DEF Counted
<1>0. /\ cursor \in Nat /\ FirstUid \in Nat /\ FirstUid # 0 /\ validity \in Nat
      /\ listed \subseteq Nat \X Nat
    BY FirstUidPositive DEF IInv, TypeOK
<1>1. CASE Deliver \/ Expunge
    BY <1>1 DEF Deliver, Expunge, client
<1>2. CASE Recreate
    <2>1. validity' = validity + 1 /\ UNCHANGED client /\ pc # "fetch"
        BY <1>2 DEF Recreate
    <2>2. \A m \in listed : m[1] \in Nat /\ m[1] <= validity
        BY <1>0
    <2>3. \A m \in listed : m[1] <= validity' /\ m[1] # validity'
        BY <1>0, <2>1, <2>2
    <2> QED
        BY <2>1, <2>3 DEF client
<1>3. CASE SyncStart
    <2>1. IsFiniteSet({}) /\ Cardinality({}) = 0
        BY FS_EmptySet
    <2>2. /\ listed' = {} /\ total' = 0 /\ cursor' = 0 /\ pc' = "search"
          /\ page' = page
        BY <1>3 DEF SyncStart
    <2> QED
        BY <2>1, <2>2
<1>4. CASE Search
    <2>1. PICK us \in SUBSET uids :
              CutTo(Scope, us) /\ page' = us /\ pc' = IF us = {} THEN "stamp" ELSE "fetch"
        BY <1>4 DEF Search
    <2>2. /\ pc = "search" /\ cursor' = cursor /\ total' = total /\ listed' = listed
          /\ validity' = validity
        BY <1>4 DEF Search, server
    <2>3. \A u \in us : u \in Nat /\ FirstUid <= u
        BY DEF IInv, TypeOK
    <2>4. cursor # 0 => \A u \in us : u < cursor
        <3> SUFFICES ASSUME cursor # 0, NEW u \in us PROVE u < cursor
            OBVIOUS
        <3>1. cursor - 1 # 0
            BY <1>0
        <3>2. u \in Scope
            BY <2>1 DEF CutTo
        <3> QED
            BY <1>0, <2>3, <3>1, <3>2 DEF Scope
    <2>5. \A m \in listed : m[1] = validity => \A u \in us : u < m[2]
        <3> SUFFICES ASSUME NEW m \in listed, m[1] = validity, NEW u \in us PROVE u < m[2]
            OBVIOUS
        <3>1. cursor # 0 /\ cursor <= m[2] /\ m[2] \in Nat
            BY <1>0, <2>2
        <3> QED
            BY <1>0, <2>3, <2>4, <3>1
    <2> QED
        BY <2>1, <2>2, <2>3, <2>5
<1>5. CASE Stamp \/ Fail
    <2>1. IsFiniteSet({})
        BY FS_EmptySet
    <2>2. listed' = {} /\ cursor' = 0 /\ pc' = "idle" /\ page' = {}
        BY <1>5 DEF Stamp, Fail, Stop
    <2> QED
        BY <2>1, <2>2
<1> QED
    BY <1>1, <1>2, <1>3, <1>4, <1>5 DEF Server

\* The count a sync reports is that of the messages it listed, in a folder without a
\* UID 1 (with one, PagesDescend fails, and the count with it).
THEOREM CountIsOfListed ==
    ASSUME FirstUid # 1
    PROVE  Spec => []CountsOnce
<1>1. Init => Counted
    <2> SUFFICES ASSUME Init PROVE Counted
        OBVIOUS
    <2> QED
        BY FS_EmptySet DEF Init, Counted
<1>2. IInv /\ Counted /\ [Next]_vars => Counted'
    <2> SUFFICES ASSUME IInv, Counted, [Next]_vars PROVE Counted'
        OBVIOUS
    <2>1. CASE Next
        BY <2>1, FetchPutKeepsCount, OthersKeepCount DEF Next, Sync
    <2>2. CASE UNCHANGED vars
        BY <2>2 DEF vars, server, client, Counted
    <2> QED
        BY <2>1, <2>2
<1>3. Counted => CountsOnce
    BY DEF Counted, CountsOnce
<1> QED
    BY <1>1, <1>2, <1>3, AlwaysIInv, PTL DEF Spec

-----------------------------------------------------------------------------
(* Termination *)

\* UIDs are handed out in the range, and a page is of what lies below its cursor.
Bounded ==
    /\ uidnext <= MaxUid + 1
    /\ cursor <= MaxUid
    /\ \A u \in page : u <= MaxUid
    /\ pc = "fetch" /\ cursor # 0 => \A u \in page : u < cursor

\* How many steps the sync has still to take, at most: three for every UID a page may
\* yet begin at.
StepsToGo ==
    IF pc = "idle" THEN 0
    ELSE 3 * (IF cursor = 0 THEN MaxUid + 1 ELSE cursor)
         + (IF pc = "search" THEN 3 ELSE IF pc = "fetch" THEN 2 ELSE 1)

\* Nothing the server does moves the sync, and a step of it, once it was started, brings
\* it nearer to its end.
RunsDown ==
    \/ Server /\ StepsToGo' = StepsToGo
    \/ SyncStart
    \/ Sync /\ StepsToGo' < StepsToGo

LEMMA BoundedBegins == Init => Bounded
BY BoundsNat, FirstUidPositive DEF Init, Bounded

LEMMA SearchIsBelow ==
    ASSUME IInv, Bounded, Counted, FirstUid # 1, Search
    PROVE  Bounded' /\ StepsToGo' < StepsToGo
<1>1. PICK us \in SUBSET uids :
          CutTo(Scope, us) /\ page' = us /\ pc' = IF us = {} THEN "stamp" ELSE "fetch"
    BY DEF Search
<1>2. pc = "search" /\ cursor' = cursor /\ uidnext' = uidnext
    BY DEF Search, server
<1>3. /\ cursor \in Nat /\ MaxUid \in Nat /\ uidnext \in Nat
      /\ \A u \in us : u \in Nat /\ u <= MaxUid
    BY BoundsNat DEF IInv, TypeOK, Bounded
<1>4. ASSUME cursor # 0, NEW u \in us PROVE u < cursor
    <2>1. cursor - 1 # 0
        BY <1>3, <1>4, FirstUidPositive DEF Counted
    <2>2. u \in Scope
        BY <1>1 DEF CutTo
    <2> QED
        BY <1>3, <1>4, <2>1, <2>2 DEF Scope
<1> QED
    BY <1>1, <1>2, <1>3, <1>4 DEF Bounded, StepsToGo

LEMMA FetchPutIsBelow ==
    ASSUME IInv, Bounded, Counted, FetchPut
    PROVE  Bounded' /\ StepsToGo' < StepsToGo
<1>1. pc = "fetch" /\ page' = {} /\ uidnext' = uidnext /\ NextCursor
    BY DEF FetchPut, server
<1>2. /\ cursor \in Nat /\ MaxUid \in Nat
      /\ \A u \in page : u \in Nat /\ 0 < u /\ u <= MaxUid
    BY BoundsNat, FirstUidPositive DEF IInv, TypeOK, Bounded, Counted
<1>3. CASE pc' = "stamp" /\ UNCHANGED cursor
    BY <1>1, <1>2, <1>3 DEF Bounded, StepsToGo
<1>4. CASE pc' = "search" /\ \E low \in page : cursor' = low
    BY <1>1, <1>2, <1>4 DEF Bounded, StepsToGo
<1> QED
    BY <1>1, <1>3, <1>4 DEF NextCursor

LEMMA StepRunsDown ==
    ASSUME FirstUid # 1, IInv, Bounded, Counted, Next
    PROVE  Bounded' /\ RunsDown
<1>0. /\ cursor \in Nat /\ MaxUid \in Nat /\ uidnext \in Nat /\ FirstUid \in Nat
      /\ pc \in {"idle", "search", "fetch", "stamp"}
    BY BoundsNat, FirstUidPositive DEF IInv, TypeOK
<1>1. CASE Server
    <2>1. UNCHANGED client
        BY <1>1 DEF Server, Deliver, Expunge, Recreate
    <2>2. StepsToGo' = StepsToGo
        BY <2>1 DEF client, StepsToGo
    <2>3. uidnext' <= MaxUid + 1
        BY <1>0, <1>1 DEF Server, Deliver, Expunge, Recreate, Bounded, IInv, TypeOK
    <2> QED
        BY <1>1, <2>1, <2>2, <2>3 DEF client, Bounded, RunsDown
<1>2. CASE SyncStart
    BY <1>0, <1>2 DEF SyncStart, server, Bounded, RunsDown
<1>3. CASE Search
    BY <1>3, SearchIsBelow DEF RunsDown, Sync
<1>4. CASE FetchPut
    BY <1>4, FetchPutIsBelow DEF RunsDown, Sync
<1>5. CASE Stamp \/ Fail
    <2>1. pc # "idle" /\ pc' = "idle" /\ cursor' = 0 /\ page' = {} /\ uidnext' = uidnext
        BY <1>5 DEF Stamp, Fail, Stop, server
    <2>2. StepsToGo' = 0 /\ StepsToGo > 0
        BY <1>0, <2>1 DEF StepsToGo
    <2>3. Sync
        BY <1>5 DEF Sync
    <2> QED
        BY <1>0, <2>1, <2>2, <2>3 DEF Bounded, RunsDown
<1> QED
    BY <1>1, <1>2, <1>3, <1>4, <1>5 DEF Next, Sync

\* In a folder without a UID 1 a sync takes boundedly many steps, whatever is delivered,
\* expunged and recreated meanwhile (with one, PagesDescend fails, and this with it).
THEOREM SyncRunsDown ==
    ASSUME FirstUid # 1
    PROVE  /\ Spec => [](StepsToGo \in 0 .. 3 * MaxUid + 6)
           /\ Spec => [][RunsDown]_vars
<1>1. Init => Counted
    BY FS_EmptySet DEF Init, Counted
<1>2. IInv /\ Counted /\ [Next]_vars => Counted'
    <2> SUFFICES ASSUME IInv, Counted, [Next]_vars PROVE Counted'
        OBVIOUS
    <2>1. CASE Next
        BY <2>1, FetchPutKeepsCount, OthersKeepCount DEF Next, Sync
    <2>2. CASE UNCHANGED vars
        BY <2>2 DEF vars, server, client, Counted
    <2> QED
        BY <2>1, <2>2
<1>3. IInv /\ Counted /\ Bounded /\ [Next]_vars => Bounded' /\ [RunsDown]_vars
    <2> SUFFICES ASSUME IInv, Counted, Bounded, [Next]_vars PROVE Bounded' /\ [RunsDown]_vars
        OBVIOUS
    <2>1. CASE Next
        BY <2>1, StepRunsDown
    <2>2. CASE UNCHANGED vars
        BY <2>2 DEF vars, server, client, Bounded
    <2> QED
        BY <2>1, <2>2
<1>4. IInv /\ Bounded => StepsToGo \in 0 .. 3 * MaxUid + 6
    BY BoundsNat DEF IInv, TypeOK, Bounded, StepsToGo
<1>5. Spec => [](IInv /\ Counted /\ Bounded)
    BY <1>1, <1>2, <1>3, BoundedBegins, AlwaysIInv, PTL DEF Spec
<1>6. Spec => [](StepsToGo \in 0 .. 3 * MaxUid + 6)
    BY <1>4, <1>5, PTL
<1>7. Spec => [][RunsDown]_vars
    BY <1>3, <1>5, PTL DEF Spec
<1> QED
    BY <1>6, <1>7
=============================================================================
