------------------------ MODULE TokenRotation_proofs ------------------------
(***************************************************************************)
(* Proofs about TokenRotation for any number of invocations: the stored    *)
(* refresh token goes dead only through a lost write, a stale one, or a    *)
(* preflight's sentinel.                                                   *)
(***************************************************************************)
EXTENDS TokenRotation, TLAPS

\* The token issued last is always accepted: it is neither traded nor revoked
\* without another one being issued.
LastIsLive == issued > 0 => issued \in live

\* What is known of the values an invocation has in hand.
InHand(p) ==
    LET q == proc[p]
    IN  /\ q.last \in Nat => q.last <= issued
        /\ Holding(p) => /\ q.new \in 1 .. issued
                         /\ q.last \in Nat => q.last < q.new
        /\ q.pc = "rewrite" => q.new \in {q.last, Sentinel}
        /\ q.pc \in {"refresh", "rewrite"} => q.last \in Tokens \union {Empty, Sentinel}

\* With no harm done, the token issued last is in the store, or on its way.
LastIsKept ==
    issued > 0 /\ harm = {} =>
        \/ stored = issued
        \/ \E p \in Procs : Holding(p) /\ proc[p].new = issued

\* The inductive invariant.
IInv ==
    /\ TypeOK
    /\ LastIsLive
    /\ stored \in Nat => stored <= issued
    /\ \A p \in Procs : InHand(p)
    /\ LastIsKept

-----------------------------------------------------------------------------
LEMMA InitIInv == Init => IInv
<1> SUFFICES ASSUME Init PROVE IInv
    OBVIOUS
<1> USE MaxTokensType, SpecialValues
<1>1. TypeOK
    BY DEF Init, TypeOK, Idle, Process, PCs, Tokens, Holding
<1>2. LastIsLive /\ (stored \in Nat => stored <= issued) /\ LastIsKept
    BY DEF Init, LastIsLive, LastIsKept
<1>3. \A p \in Procs : InHand(p)
    BY DEF Init, InHand, Idle, Holding
<1> QED
    BY <1>1, <1>2, <1>3 DEF IInv

\* Whoever writes the store, and whatever it writes there, the token issued
\* last is in the store afterwards, or in the hands of another invocation, or
\* harm is on record.
LEMMA PutKeepsLast ==
    ASSUME IInv, NEW p \in Procs, Put(p),
           proc[p].pc \in {"persist", "store", "rewrite"}
    PROVE  /\ stored' \in Tokens \union {Empty, Sentinel}
           /\ stored' \in Nat => stored' <= issued
           /\ harm' \in SUBSET {"stale", "sentinel", "lost"}
           /\ issued > 0 /\ harm' = {} =>
                \/ stored' = issued
                \/ \E r \in Procs \ {p} : Holding(r) /\ proc[r].new = issued
<1> DEFINE q == proc[p]
<1> USE MaxTokensType, SpecialValues
<1>1. /\ TypeOK /\ LastIsKept /\ InHand(p) /\ (stored \in Nat => stored <= issued)
      /\ issued \in 0 .. MaxTokens
    BY DEF IInv, TypeOK
<1>2. /\ stored' = q.new
      /\ q.new # issued => harm \subseteq harm'
      /\ stored # q.last => "stale" \in harm'
      /\ q.new = Sentinel /\ stored # Empty => "sentinel" \in harm'
    BY DEF Put
<1>3. /\ q.new \in Tokens \union {Empty, Sentinel}
      /\ q.new \in Nat => q.new <= issued
    <2>1. CASE Holding(p)
        BY <2>1, <1>1 DEF InHand, Tokens
    <2>2. CASE q.pc = "rewrite"
        BY <2>2, <1>1 DEF InHand, Tokens
    <2> QED
        BY <2>1, <2>2 DEF Holding
<1>4. harm' \in SUBSET {"stale", "sentinel", "lost"}
    BY <1>1 DEF Put, TypeOK
<1>5. ASSUME issued > 0, harm' = {}, stored' # issued
      PROVE  \E r \in Procs \ {p} : Holding(r) /\ proc[r].new = issued
    <2>1. q.new # issued /\ harm = {} /\ stored = q.last
        BY <1>2, <1>5
    <2>2. stored # issued
        <3> SUFFICES ASSUME stored = issued PROVE FALSE
            OBVIOUS
        <3>1. q.last = issued /\ q.last \in Nat
            BY <2>1, <1>1
        <3>2. CASE Holding(p)
            BY <3>1, <3>2, <1>1 DEF InHand
        <3>3. CASE q.pc = "rewrite"
            <4>1. q.new = Sentinel
                BY <3>1, <3>3, <2>1, <1>1 DEF InHand
            <4>2. stored # Empty
                BY <1>1
            <4> QED
                BY <4>1, <4>2, <1>2, <1>5
        <3> QED
            BY <3>2, <3>3 DEF Holding
    <2> QED
        BY <2>1, <2>2, <1>1, <1>5 DEF LastIsKept
<1> QED
    BY <1>2, <1>3, <1>4, <1>5

-----------------------------------------------------------------------------
(* What a step does to one process, and what it leaves of the others *)

\* A step that changes only what p has in hand, keeps the type invariant and
\* the invariant of every process if p's new state has them.
LEMMA ProcKeeps ==
    ASSUME TypeOK, \A r \in Procs : InHand(r),
           NEW p \in Procs, NEW q \in Process, Become(p, q),
           issued' \in {issued, issued + 1},
           q.last \in Nat => q.last <= issued',
           q.pc \in {"persist", "store"} => /\ q.new \in 1 .. issued'
                                            /\ q.last \in Nat => q.last < q.new,
           q.pc = "rewrite" => q.new \in {q.last, Sentinel},
           q.pc \in {"refresh", "rewrite"} => q.last \in Tokens \union {Empty, Sentinel}
    PROVE  /\ proc' \in [Procs -> Process]
           /\ \A r \in Procs : Holding(r)' => proc'[r].new \in 1 .. issued'
           /\ \A r \in Procs : InHand(r)'
           /\ proc'[p] = q
           /\ \A r \in Procs \ {p} : proc'[r] = proc[r]
<1>1. /\ proc \in [Procs -> Process] /\ issued \in Nat /\ issued' \in Nat
      /\ issued <= issued'
    BY MaxTokensType DEF TypeOK
<1>2. /\ proc' \in [Procs -> Process] /\ proc'[p] = q
      /\ \A r \in Procs \ {p} : proc'[r] = proc[r]
    BY <1>1 DEF Become
<1>3. InHand(p)'
    BY <1>1, <1>2 DEF InHand, Holding
<1>4. ASSUME NEW r \in Procs \ {p} PROVE InHand(r)'
    <2>1. proc'[r] = proc[r] /\ InHand(r)
        BY <1>2
    <2> QED
        BY <2>1, <1>1 DEF InHand, Holding
<1>5. \A r \in Procs : InHand(r)'
    BY <1>3, <1>4
<1> QED
    BY <1>2, <1>5 DEF InHand

\* IInv, conjunct by conjunct, after a step that leaves the store alone: the
\* token issued last is kept if p, or whoever else held it, holds it still.
LEMMA ReadersKeep ==
    ASSUME IInv, NEW p \in Procs, UNCHANGED <<live, issued, stored, harm>>,
           ~Holding(p), NEW q \in Process, Become(p, q),
           q.pc \notin {"persist", "store"},
           q.last \in Nat => q.last <= issued,
           q.pc = "rewrite" => q.new \in {q.last, Sentinel},
           q.pc \in {"refresh", "rewrite"} => q.last \in Tokens \union {Empty, Sentinel}
    PROVE  IInv'
<1>1. TypeOK /\ \A r \in Procs : InHand(r)
    BY DEF IInv
<1>2. /\ proc' \in [Procs -> Process]
      /\ \A r \in Procs : Holding(r)' => proc'[r].new \in 1 .. issued'
      /\ \A r \in Procs : InHand(r)'
      /\ \A r \in Procs \ {p} : proc'[r] = proc[r]
    BY <1>1, ProcKeeps
<1>3. TypeOK'
    BY <1>1, <1>2 DEF TypeOK
<1>4. LastIsKept'
    BY <1>2 DEF IInv, LastIsKept, Holding
<1> QED
    BY <1>2, <1>3, <1>4 DEF IInv, LastIsLive

\* The same after a write: p gives up the token it held, and PutKeepsLast says
\* where the one issued last is.
LEMMA WritersKeep ==
    ASSUME IInv, NEW p \in Procs, Put(p), UNCHANGED <<live, issued>>,
           proc[p].pc \in {"persist", "store", "rewrite"},
           NEW q \in Process, Become(p, q),
           q.pc \notin {"persist", "store", "rewrite"},
           q.last \in Nat => q.last <= issued,
           q.pc = "refresh" => q.last \in Tokens \union {Empty, Sentinel}
    PROVE  IInv'
<1>1. TypeOK /\ \A r \in Procs : InHand(r)
    BY DEF IInv
<1>2. /\ proc' \in [Procs -> Process]
      /\ \A r \in Procs : Holding(r)' => proc'[r].new \in 1 .. issued'
      /\ \A r \in Procs : InHand(r)'
      /\ \A r \in Procs \ {p} : proc'[r] = proc[r]
    BY <1>1, ProcKeeps
<1>3. /\ stored' \in Tokens \union {Empty, Sentinel}
      /\ stored' \in Nat => stored' <= issued
      /\ harm' \in SUBSET {"stale", "sentinel", "lost"}
      /\ issued > 0 /\ harm' = {} =>
            \/ stored' = issued
            \/ \E r \in Procs \ {p} : Holding(r) /\ proc[r].new = issued
    BY PutKeepsLast
<1>4. TypeOK'
    BY <1>1, <1>2, <1>3 DEF TypeOK
<1>5. LastIsKept'
    BY <1>2, <1>3 DEF LastIsKept, Holding
<1> QED
    BY <1>2, <1>3, <1>4, <1>5 DEF IInv, LastIsLive

\* The same after the provider issues a token, which only p has.
LEMMA IssueKeeps ==
    ASSUME IInv, NEW p \in Procs, UNCHANGED <<stored, harm>>, ~Holding(p),
           issued < MaxTokens, issued' = issued + 1,
           NEW kept \in SUBSET live, live' = kept \union {issued'},
           NEW pc \in {"persist", "store"},
           Become(p, [pc |-> pc, last |-> proc[p].last, new |-> issued'])
    PROVE  IInv'
<1> DEFINE q == [pc |-> pc, last |-> proc[p].last, new |-> issued']
<1> USE MaxTokensType, SpecialValues
<1>1. /\ TypeOK /\ \A r \in Procs : InHand(r)
      /\ proc[p] \in Process /\ issued \in 0 .. MaxTokens
    BY DEF IInv, TypeOK
<1>2. q \in Process /\ q.pc = pc /\ q.new = issued' /\ q.last = proc[p].last
    BY <1>1 DEF Process, PCs, Tokens
<1>3. q.last \in Nat => q.last <= issued
    BY <1>1, <1>2 DEF InHand
<1>4. /\ proc' \in [Procs -> Process]
      /\ \A r \in Procs : Holding(r)' => proc'[r].new \in 1 .. issued'
      /\ \A r \in Procs : InHand(r)'
      /\ proc'[p] = q
    <2>1. /\ q.pc \in {"persist", "store"}
          /\ q.new \in 1 .. issued'
          /\ q.last \in Nat => q.last < q.new /\ q.last <= issued'
        BY <1>1, <1>2, <1>3
    <2> HIDE DEF q
    <2>2. Become(p, q)
        BY DEF q
    <2> QED
        BY <1>1, <1>2, <2>1, <2>2, ProcKeeps
<1>5. TypeOK'
    BY <1>1, <1>4 DEF TypeOK
<1>6. LastIsKept'
    BY <1>2, <1>4 DEF LastIsKept, Holding
<1>7. LastIsLive' /\ (stored' \in Nat => stored' <= issued')
    BY <1>1 DEF IInv, LastIsLive
<1> QED
    BY <1>4, <1>5, <1>6, <1>7 DEF IInv

-----------------------------------------------------------------------------
(* One lemma per action *)

LEMMA UseReadKeeps == ASSUME IInv, NEW p \in Procs, UseRead(p) PROVE IInv'
<1> DEFINE q == [pc |-> "refresh", last |-> stored, new |-> NoToken]
<1>1. q \in Process
    BY DEF IInv, TypeOK, Process, PCs
<1>2. stored \in Tokens \union {Empty, Sentinel} /\ (stored \in Nat => stored <= issued)
    BY DEF IInv, TypeOK
<1> QED
    BY <1>1, <1>2, ReadersKeep DEF UseRead, Holding

LEMMA RefreshKeeps == ASSUME IInv, NEW p \in Procs, Refresh(p) PROVE IInv'
<1>1. CASE UNCHANGED <<live, issued, proc>>
    <2>1. UNCHANGED vars
        BY <1>1 DEF Refresh, vars
    <2> QED
        BY <2>1 DEF vars, IInv, TypeOK, LastIsLive, LastIsKept, InHand, Holding
<1>2. CASE /\ issued < MaxTokens
           /\ issued' = issued + 1
           /\ live' = (live \ {proc[p].last}) \union {issued'}
           /\ Become(p, [pc |-> "persist", last |-> proc[p].last, new |-> issued'])
    <2>1. live \ {proc[p].last} \in SUBSET live
        OBVIOUS
    <2> QED
        BY <1>2, <2>1, IssueKeeps DEF Refresh, Holding
<1> QED
    BY <1>1, <1>2 DEF Refresh

LEMMA LeaveKeeps ==
    ASSUME IInv, NEW p \in Procs, Exit(p), ~Holding(p),
           UNCHANGED <<live, issued, stored, harm>>
    PROVE  IInv'
<1>1. Idle \in Process /\ Idle.pc = "idle" /\ Idle.last = NoToken
    BY DEF Idle, Process, PCs
<1> QED
    BY <1>1, SpecialValues, ReadersKeep DEF Exit

LEMMA RefusedKeeps == ASSUME IInv, NEW p \in Procs, Refused(p) PROVE IInv'
    BY LeaveKeeps DEF Refused, Holding

LEMMA PersistKeeps == ASSUME IInv, NEW p \in Procs, Persist(p) PROVE IInv'
<1> DEFINE q == [pc |-> "refresh", last |-> proc[p].new, new |-> NoToken]
<1>1. proc[p].new \in 1 .. issued /\ issued \in 0 .. MaxTokens
    BY DEF IInv, TypeOK, Persist, Holding
<1>2. q \in Process /\ q.last \in Tokens /\ q.last <= issued
    BY <1>1, MaxTokensType DEF Process, PCs, Tokens
<1> QED
    BY <1>2, WritersKeep DEF Persist

LEMMA PersistFailsKeeps == ASSUME IInv, NEW p \in Procs, PersistFails(p) PROVE IInv'
<1>1. CASE UNCHANGED <<stored, harm>>
    BY <1>1 DEF PersistFails, IInv, TypeOK, LastIsLive, LastIsKept, InHand, Holding
<1>2. CASE Put(p)
    <2>1. UNCHANGED <<live, issued, proc>> /\ proc[p].pc = "persist"
        BY DEF PersistFails
    <2>2. /\ stored' \in Tokens \union {Empty, Sentinel}
          /\ stored' \in Nat => stored' <= issued
          /\ harm' \in SUBSET {"stale", "sentinel", "lost"}
          /\ issued > 0 /\ harm' = {} =>
                \/ stored' = issued
                \/ \E r \in Procs \ {p} : Holding(r) /\ proc[r].new = issued
        BY <1>2, <2>1, PutKeepsLast
    <2>3. LastIsKept'
        BY <2>1, <2>2 DEF LastIsKept, Holding
    <2>4. TypeOK' /\ LastIsLive' /\ \A r \in Procs : InHand(r)'
        BY <2>1, <2>2 DEF IInv, TypeOK, LastIsLive, InHand, Holding
    <2> QED
        BY <2>1, <2>2, <2>3, <2>4 DEF IInv
<1> QED
    BY <1>1, <1>2 DEF PersistFails, PutFails

LEMMA PreflightKeeps == ASSUME IInv, NEW p \in Procs, Preflight(p) PROVE IInv'
<1>1. PICK new \in {stored, Sentinel} :
          Become(p, [pc |-> "rewrite", last |-> stored, new |-> new])
    BY DEF Preflight
<1> DEFINE q == [pc |-> "rewrite", last |-> stored, new |-> new]
<1>2. stored \in Tokens \union {Empty, Sentinel} /\ (stored \in Nat => stored <= issued)
    BY DEF IInv, TypeOK
<1>3. q \in Process
    BY <1>2 DEF Process, PCs
<1> QED
    BY <1>1, <1>2, <1>3, ReadersKeep DEF Preflight, Holding

LEMMA RewriteKeeps == ASSUME IInv, NEW p \in Procs, Rewrite(p) PROVE IInv'
<1> DEFINE q == [pc |-> "readback", last |-> proc[p].new, new |-> proc[p].new]
<1> USE MaxTokensType, SpecialValues
<1>1. /\ proc[p] \in Process /\ proc[p].pc = "rewrite"
      /\ InHand(p) /\ issued \in Nat
    BY DEF IInv, TypeOK, Rewrite
<1>2. q \in Process /\ q.pc = "readback" /\ q.last = proc[p].new
    BY <1>1 DEF Process, PCs
<1>3. q.last \in Nat => q.last <= issued
    BY <1>1, <1>2 DEF InHand
<1>4. Become(p, q) /\ Put(p) /\ UNCHANGED <<live, issued>>
    BY DEF Rewrite
<1> HIDE DEF q
<1> QED
    BY <1>1, <1>2, <1>3, <1>4, WritersKeep

\* Leaving after a write: Store, and a Rewrite that fails after it wrote.
LEMMA WriteAndLeaveKeeps ==
    ASSUME IInv, NEW p \in Procs, Put(p), UNCHANGED <<live, issued>>, Exit(p),
           proc[p].pc \in {"store", "rewrite"}
    PROVE  IInv'
<1>1. Idle \in Process /\ Idle.pc = "idle" /\ Idle.last = NoToken
    BY DEF Idle, Process, PCs
<1> QED
    BY <1>1, SpecialValues, WritersKeep DEF Exit

LEMMA RewriteFailsKeeps == ASSUME IInv, NEW p \in Procs, RewriteFails(p) PROVE IInv'
<1>1. CASE UNCHANGED <<stored, harm>>
    BY <1>1, LeaveKeeps DEF RewriteFails, Holding
<1>2. CASE Put(p)
    BY <1>2, WriteAndLeaveKeeps DEF RewriteFails
<1> QED
    BY <1>1, <1>2 DEF RewriteFails, PutFails

LEMMA ReadBackKeeps == ASSUME IInv, NEW p \in Procs, ReadBack(p) PROVE IInv'
<1>1. CASE Exit(p)
    BY <1>1, LeaveKeeps DEF ReadBack, Holding
<1>2. CASE Become(p, [pc |-> "consent", last |-> stored, new |-> stored])
    <2> DEFINE q == [pc |-> "consent", last |-> stored, new |-> stored]
    <2>1. /\ stored \in Tokens \union {Empty, Sentinel}
          /\ stored \in Nat => stored <= issued
        BY DEF IInv, TypeOK
    <2>2. q \in Process
        BY <2>1 DEF Process, PCs
    <2> QED
        BY <1>2, <2>1, <2>2, ReadersKeep DEF ReadBack, Holding
<1> QED
    BY <1>1, <1>2 DEF ReadBack

LEMMA ConsentKeeps == ASSUME IInv, NEW p \in Procs, Consent(p) PROVE IInv'
<1>1. PICK kept \in SUBSET live : live' = kept \union {issued'}
    BY DEF Consent
<1> QED
    BY <1>1, IssueKeeps DEF Consent, Holding

LEMMA StoreKeeps == ASSUME IInv, NEW p \in Procs, Store(p) PROVE IInv'
    BY WriteAndLeaveKeeps DEF Store

LEMMA QuitKeeps == ASSUME IInv, NEW p \in Procs, Quit(p) PROVE IInv'
<1>1. CASE ~Holding(p)
    BY <1>1, LeaveKeeps DEF Quit
<1>2. CASE Holding(p)
    <2>1. /\ Idle \in Process /\ Idle.pc = "idle" /\ Idle.last = NoToken
          /\ TypeOK /\ \A r \in Procs : InHand(r)
        BY DEF Idle, Process, PCs, IInv
    <2>2. /\ proc' \in [Procs -> Process]
          /\ \A r \in Procs : Holding(r)' => proc'[r].new \in 1 .. issued'
          /\ \A r \in Procs : InHand(r)'
        BY <2>1, SpecialValues, ProcKeeps DEF Quit, Exit
    <2>3. harm' = harm \union {"lost"} /\ UNCHANGED <<live, issued, stored>>
        BY <1>2 DEF Quit
    <2>4. TypeOK' /\ LastIsKept'
        BY <2>1, <2>2, <2>3 DEF TypeOK, LastIsKept
    <2> QED
        BY <2>2, <2>3, <2>4 DEF IInv, LastIsLive
<1> QED
    BY <1>1, <1>2

LEMMA NextKeeps == IInv /\ [Next]_vars => IInv'
<1> SUFFICES ASSUME IInv, [Next]_vars PROVE IInv'
    OBVIOUS
<1>1. ASSUME NEW p \in Procs,
             \/ UseRead(p) \/ Refresh(p) \/ Refused(p) \/ Persist(p) \/ PersistFails(p)
             \/ Preflight(p) \/ Rewrite(p) \/ RewriteFails(p) \/ ReadBack(p)
             \/ Consent(p) \/ Store(p) \/ Quit(p)
      PROVE  IInv'
    BY <1>1, UseReadKeeps, RefreshKeeps, RefusedKeeps, PersistKeeps, PersistFailsKeeps,
       PreflightKeeps, RewriteKeeps, RewriteFailsKeeps, ReadBackKeeps, ConsentKeeps,
       StoreKeeps, QuitKeeps
<1>2. CASE UNCHANGED vars
    BY <1>2 DEF vars, IInv, TypeOK, LastIsLive, LastIsKept, InHand, Holding
<1> QED
    BY <1>1, <1>2 DEF Next

-----------------------------------------------------------------------------
(* Theorems *)

\* Every reachable state of any number of invocations satisfies the inductive
\* invariant.
THEOREM AlwaysIInv == Spec => []IInv
    BY InitIInv, NextKeeps, PTL DEF Spec

\* The token store, the provider and every invocation stay in their ranges, and
\* a token an invocation holds was issued (source.go, account.go).
THEOREM TypeCorrect == Spec => []TypeOK
<1>1. IInv => TypeOK
    BY DEF IInv
<1> QED
    BY <1>1, AlwaysIInv, PTL

\* The secret store never goes dead unnoticed: rotatingSource.Token writes a
\* rotated token before it is used, and account auth stores the one it got, so
\* only an invocation that ends first, a stale write or a preflight's sentinel
\* leaves a token the provider has dropped.
THEOREM StoredStaysLive == Spec => []StoredIsLive
<1>1. IInv => StoredIsLive
    BY MaxTokensType DEF IInv, TypeOK, LastIsLive, LastIsKept, StoredIsLive
<1> QED
    BY <1>1, AlwaysIInv, PTL
=============================================================================
