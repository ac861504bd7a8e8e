---------------------------- MODULE Fanout_proofs ----------------------------
(***************************************************************************)
(* Proofs about Fanout for any number of accounts and any -a list: an      *)
(* answer with data accounts for every account that was asked, and no      *)
(* failure that is reported is the echo of a cancellation.                 *)
(***************************************************************************)
EXTENDS Fanout, FiniteSetTheorems, TLAPS

\* Every account is asked once.
Distinct ==
    \A i, j \in DOMAIN canonical : canonical[i] = canonical[j] => i = j

\* The maps are filled by the workers that are through with their calls.
Filled ==
    /\ pages \union Failed \subseteq Listed(canonical)
    /\ worker = <<>> => pages = {} /\ Failed = {}

\* What the worker of an account has put down where it stands.
PutDown(i) ==
    LET account == canonical[i]
    IN  /\ worker[i] \in {"connect", "list"} \union Failure =>
               account \notin pages /\ errs[account] = None
        /\ worker[i] = "return" =>
               account \notin pages /\ errs[account] # None /\ flags.strict
        /\ worker[i] = "done" => (account \in pages <=> errs[account] = None)
        /\ worker[i] = "done" /\ flags.strict /\ errs[account] # None => first # None

\* Unless the user interrupts, a cancellation is that of the errgroup, which
\* holds a failure of a provider.
Cause ==
    /\ ~flags.strict => first = None
    /\ ~interrupted =>
           /\ first # "cancelled"
           /\ cancelled => first # None
           /\ first = None => /\ \A a \in Accounts : errs[a] # "cancelled"
                              /\ \A i \in DOMAIN worker : worker[i] # "cancelled"

\* A verdict on what the workers brought is given when all are done.
Judged ==
    verdict \in {"failed", "all failed", "listed"} =>
        /\ worker # <<>>
        /\ \A i \in DOMAIN worker : worker[i] = "done"
        /\ verdict = "failed" <=> first # None
        /\ verdict = "listed" => Cardinality(Failed) # Len(canonical)

\* The inductive invariant.
IInv ==
    /\ TypeOK
    /\ Distinct
    /\ Filled
    /\ \A i \in DOMAIN worker : PutDown(i)
    /\ Cause
    /\ Judged

-----------------------------------------------------------------------------
\* A list without repetition has as many members as places.
LEMMA DistinctCardinality ==
    ASSUME NEW S, NEW s \in Seq(S),
           \A i, j \in DOMAIN s : s[i] = s[j] => i = j
    PROVE  IsFiniteSet(Listed(s)) /\ Cardinality(Listed(s)) = Len(s)
<1>1. Len(s) \in Nat /\ DOMAIN s = 1 .. Len(s)
    OBVIOUS
<1>2. s \in Bijection(1 .. Len(s), Listed(s))
    BY <1>1 DEF Listed, Bijection, Injection, Surjection, IsInjective
<1>3. ExistsBijection(1 .. Len(s), Listed(s))
    BY <1>2 DEF ExistsBijection
<1> QED
    BY <1>1, <1>3, FS_NatBijection, FS_CountingElements

LEMMA InitIInv == Init => IInv
<1> SUFFICES ASSUME Init PROVE IInv
    OBVIOUS
<1>1. asked \in Seq(Names \union {All})
    <2>1. PICK n \in 0 .. MaxAsked : asked \in [1 .. n -> Names \union {All}]
        BY DEF Init
    <2> QED
        BY <2>1, MaxAskedType
<1>2. TypeOK
    <2>1. canonical \in Seq(Accounts) /\ worker \in Seq(States) /\ Len(worker) = 0
        BY DEF Init
    <2>2. errs \in [Accounts -> Failure \union {None}]
        BY DEF Init
    <2> QED
        BY <1>1, <2>1, <2>2 DEF Init, TypeOK
<1>3. worker = <<>> /\ DOMAIN worker = {} /\ DOMAIN canonical = {}
    BY DEF Init
<1>4. Filled /\ Distinct
    BY <1>3 DEF Init, Filled, Failed, Distinct
<1>5. Cause /\ Judged
    BY <1>3, NoneFresh DEF Init, Cause, Judged, Failure, Verdicts
<1> QED
    BY <1>2, <1>3, <1>4, <1>5 DEF IInv

\* The account of a worker is one of the config, and no other worker has it.
LEMMA WorkerAccount ==
    ASSUME IInv, NEW i \in DOMAIN worker
    PROVE  /\ i \in DOMAIN canonical
           /\ canonical[i] \in Accounts /\ canonical[i] \in Listed(canonical)
           /\ \A j \in DOMAIN worker : i # j => canonical[i] # canonical[j]
           /\ worker # <<>> /\ Len(worker) = Len(canonical)
           /\ worker[i] \in States
<1>1. worker \in Seq(States) /\ canonical \in Seq(Accounts)
    BY DEF IInv, TypeOK
<1>2. Len(worker) = Len(canonical) /\ worker # <<>>
    BY <1>1 DEF IInv, TypeOK
<1>3. DOMAIN worker = DOMAIN canonical
    BY <1>1, <1>2
<1> QED
    BY <1>1, <1>2, <1>3 DEF IInv, Distinct, Listed

\* A worker that is not done: there is no verdict on the workers yet.
LEMMA NotJudged ==
    ASSUME IInv, NEW i \in DOMAIN worker, worker[i] # "done"
    PROVE  verdict \notin {"failed", "all failed", "listed"}
BY DEF IInv, Judged

\* Moving one worker on keeps the list of workers one.
LEMMA GotoType ==
    ASSUME IInv, NEW i \in DOMAIN worker, NEW state \in States, Goto(i, state)
    PROVE  /\ worker' \in Seq(States) /\ Len(worker') = Len(worker)
           /\ DOMAIN worker' = DOMAIN worker /\ worker' # <<>>
           /\ worker'[i] = state
           /\ \A j \in DOMAIN worker : j # i => worker'[j] = worker[j]
<1>1. worker \in Seq(States)
    BY DEF IInv, TypeOK
<1>2. worker' \in Seq(States) /\ Len(worker') = Len(worker) /\ DOMAIN worker' = DOMAIN worker
    BY <1>1 DEF Goto
<1>3. worker' # <<>>
    BY <1>1, <1>2
<1> QED
    BY <1>1, <1>2, <1>3 DEF Goto

-----------------------------------------------------------------------------
(* One lemma per kind of step. *)

\* The names are resolved: the list grows, without repetition.
LEMMA StepResolved ==
    ASSUME IInv, Resolve \/ ResolveAll
    PROVE  IInv'
<1>1. /\ worker = <<>> /\ worker' = <<>> /\ verdict = None /\ verdict' = None
      /\ UNCHANGED <<flags, pages, errs, first, cancelled, interrupted>>
    BY DEF Resolve, ResolveAll, Resolving, Resolved
<1>2. pages = {} /\ Failed = {} /\ Failed' = {}
    BY <1>1 DEF IInv, Filled, Failed
<1>3. asked \in Seq(Names \union {All}) /\ canonical \in Seq(Accounts)
    BY DEF IInv, TypeOK
<1>4. asked' \in Seq(Names \union {All}) /\ canonical' \in Seq(Accounts) /\ Distinct'
    <2>1. CASE ResolveAll
        BY <2>1, SortedListsAll DEF ResolveAll, Resolved, Distinct
    <2>2. CASE Resolve
        <3>1. Head(asked) \in Names \union {All} /\ Tail(asked) \in Seq(Names \union {All})
            BY <1>3, <2>2 DEF Resolve
        <3>2. Head(asked) \in Listed(asked)
            BY <1>3, <2>2 DEF Resolve, Listed
        <3>3. Canonical[Head(asked)] \in Accounts
            BY <2>2, <3>1, <3>2, CanonicalType DEF Resolve
        <3>4. CASE Canonical[Head(asked)] \in Listed(canonical)
            BY <2>2, <3>1, <3>4, <1>3 DEF Resolve, Resolved, Distinct, IInv
        <3>5. CASE Canonical[Head(asked)] \notin Listed(canonical)
            <4> DEFINE account == Canonical[Head(asked)]
            <4>1. canonical' = Append(canonical, account)
                BY <2>2, <3>5 DEF Resolve, Resolved
            <4>2. \A j \in DOMAIN canonical : canonical[j] # account
                BY <3>5 DEF Listed
            <4> HIDE DEF account
            <4>3. Distinct'
                BY <1>3, <4>1, <4>2 DEF Distinct, IInv
            <4>4. canonical' \in Seq(Accounts)
                BY <1>3, <3>3, <4>1 DEF account
            <4> QED
                BY <2>2, <3>1, <4>3, <4>4 DEF Resolve, Resolved
        <3> QED
            BY <3>4, <3>5
    <2> QED
        BY <2>1, <2>2
<1>5. TypeOK'
    BY <1>1, <1>4 DEF IInv, TypeOK
<1>6. Filled' /\ DOMAIN worker' = {} /\ DOMAIN worker = {}
    BY <1>1, <1>2 DEF Filled
<1>7. Cause'
    BY <1>1, <1>6 DEF IInv, Cause
<1>8. Judged'
    BY <1>1, NoneFresh DEF Judged, Verdicts
<1> QED
    BY <1>4, <1>5, <1>6, <1>7, <1>8 DEF IInv

LEMMA StepDispatch ==
    ASSUME IInv, Dispatch
    PROVE  IInv'
<1>1. /\ worker = <<>> /\ canonical # <<>> /\ verdict = None /\ verdict' = None
      /\ worker' = [i \in DOMAIN canonical |-> "connect"]
      /\ UNCHANGED <<flags, asked, canonical, pages, errs, first, cancelled, interrupted>>
    BY DEF Dispatch, Resolving
<1>2. canonical \in Seq(Accounts)
    BY DEF IInv, TypeOK
<1>3. worker' \in Seq(States) /\ Len(worker') = Len(canonical)
    BY <1>1, <1>2 DEF States
<1>4. DOMAIN worker' = DOMAIN canonical /\ \A i \in DOMAIN canonical : worker'[i] = "connect"
    BY <1>1
<1>5. worker' # <<>>
    BY <1>1, <1>2, <1>3
<1>6. pages = {} /\ Failed = {}
    BY <1>1 DEF IInv, Filled
<1>7. TypeOK'
    BY <1>1, <1>3 DEF IInv, TypeOK
<1>8. Distinct' /\ Filled'
    BY <1>1, <1>5, <1>6 DEF IInv, Distinct, Filled, Failed
<1>9. \A i \in DOMAIN worker' : PutDown(i)'
    BY <1>1, <1>2, <1>4, <1>6 DEF PutDown, Failed, Failure
<1>10. Cause'
    BY <1>1, <1>4 DEF IInv, Cause
<1>11. Judged'
    BY <1>1, NoneFresh DEF Judged, Verdicts
<1> QED
    BY <1>7, <1>8, <1>9, <1>10, <1>11 DEF IInv

\* A call returns, with or without a failure, and nothing is put down yet.
LEMMA StepCall ==
    ASSUME IInv, NEW i \in DOMAIN worker,
           Connected(i) \/ CallFails(i) \/ GiveUp(i)
    PROVE  IInv'
<1>1. PICK state \in {"list"} \union Failure :
          /\ Goto(i, state)
          /\ state = "cancelled" => cancelled
    BY DEF Connected, CallFails, GiveUp, Failure
<1>2. /\ worker[i] \in {"connect", "list"}
      /\ UNCHANGED <<flags, asked, canonical, pages, errs, first, cancelled, interrupted, verdict>>
    BY DEF Connected, CallFails, GiveUp
<1>3. state \in States
    BY DEF States
<1>4. /\ worker' \in Seq(States) /\ Len(worker') = Len(worker)
      /\ DOMAIN worker' = DOMAIN worker /\ worker' # <<>>
      /\ worker'[i] = state
      /\ \A j \in DOMAIN worker : j # i => worker'[j] = worker[j]
    BY <1>1, <1>3, GotoType
<1>5. TypeOK'
    BY <1>2, <1>4 DEF IInv, TypeOK
<1>6. Distinct' /\ Filled'
    BY <1>2, <1>4 DEF IInv, Distinct, Filled, Failed
<1>7. ASSUME NEW j \in DOMAIN worker' PROVE PutDown(j)'
    <2>1. CASE j = i
        BY <2>1, <1>2, <1>4 DEF IInv, PutDown, Failure
    <2>2. CASE j # i
        BY <2>2, <1>2, <1>4 DEF IInv, PutDown
    <2> QED
        BY <2>1, <2>2
<1>8. Cause'
    BY <1>1, <1>2, <1>4 DEF IInv, Cause
<1>9. Judged'
    BY <1>2, NotJudged DEF Judged
<1> QED
    BY <1>5, <1>6, <1>7, <1>8, <1>9 DEF IInv

\* The page of an account is stored.
LEMMA StepListed ==
    ASSUME IInv, NEW i \in DOMAIN worker, ListedPage(i)
    PROVE  IInv'
<1>1. /\ worker[i] = "list" /\ Goto(i, "done")
      /\ pages' = pages \union {canonical[i]}
      /\ UNCHANGED <<flags, asked, canonical, errs, first, cancelled, interrupted, verdict>>
    BY DEF ListedPage
<1>2. /\ worker' \in Seq(States) /\ Len(worker') = Len(worker)
      /\ DOMAIN worker' = DOMAIN worker /\ worker' # <<>>
      /\ worker'[i] = "done"
      /\ \A j \in DOMAIN worker : j # i => worker'[j] = worker[j]
    BY <1>1, GotoType DEF States
<1>3. /\ canonical[i] \in Accounts /\ canonical[i] \in Listed(canonical)
      /\ \A j \in DOMAIN worker : i # j => canonical[i] # canonical[j]
    BY WorkerAccount
<1>4. errs[canonical[i]] = None
    BY <1>1 DEF IInv, PutDown
<1>5. TypeOK'
    BY <1>1, <1>2, <1>3 DEF IInv, TypeOK
<1>6. Distinct' /\ Filled'
    BY <1>1, <1>2, <1>3 DEF IInv, Distinct, Filled, Failed, Listed
<1>7. ASSUME NEW j \in DOMAIN worker' PROVE PutDown(j)'
    <2>1. CASE j = i
        BY <2>1, <1>1, <1>2, <1>4 DEF IInv, PutDown, Failure
    <2>2. CASE j # i
        <3>1. canonical[j] \in pages' <=> canonical[j] \in pages
            BY <1>1, <1>2, <1>3, <2>2
        <3> QED
            BY <2>2, <3>1, <1>1, <1>2 DEF IInv, PutDown
    <2> QED
        BY <2>1, <2>2
<1>8. Cause'
    BY <1>1, <1>2 DEF IInv, Cause
<1>9. Judged'
    BY <1>1, NotJudged DEF Judged
<1> QED
    BY <1>5, <1>6, <1>7, <1>8, <1>9 DEF IInv

\* The failure of an account is put down.
LEMMA StepCollect ==
    ASSUME IInv, NEW i \in DOMAIN worker, Collect(i)
    PROVE  IInv'
<1>1. PICK state \in {"return", "done"} :
          Goto(i, state) /\ (state = "return" <=> flags.strict)
    BY DEF Collect
<1>2. /\ worker[i] \in Failure
      /\ errs' = [errs EXCEPT ![canonical[i]] = worker[i]]
      /\ UNCHANGED <<flags, asked, canonical, pages, first, cancelled, interrupted, verdict>>
    BY DEF Collect
<1>3. /\ worker' \in Seq(States) /\ Len(worker') = Len(worker)
      /\ DOMAIN worker' = DOMAIN worker /\ worker' # <<>>
      /\ worker'[i] = state
      /\ \A j \in DOMAIN worker : j # i => worker'[j] = worker[j]
    BY <1>1, GotoType DEF States
<1>4. /\ canonical[i] \in Accounts /\ canonical[i] \in Listed(canonical)
      /\ \A j \in DOMAIN worker : i # j => canonical[i] # canonical[j]
      /\ worker # <<>>
    BY WorkerAccount
<1>5. /\ errs' \in [Accounts -> Failure \union {None}]
      /\ errs'[canonical[i]] = worker[i] /\ worker[i] # None
      /\ \A a \in Accounts : a # canonical[i] => errs'[a] = errs[a]
    BY <1>2, <1>4, NoneFresh DEF IInv, TypeOK
<1>6. TypeOK'
    BY <1>2, <1>3, <1>5 DEF IInv, TypeOK
<1>7. Failed' = Failed \union {canonical[i]}
    BY <1>4, <1>5 DEF Failed
<1>8. Distinct' /\ Filled'
    BY <1>2, <1>3, <1>4, <1>7 DEF IInv, Distinct, Filled, Listed
<1>9. ASSUME NEW j \in DOMAIN worker' PROVE PutDown(j)'
    <2>1. CASE j = i
        <3>1. canonical[i] \notin pages
            BY <1>2 DEF IInv, PutDown
        <3> QED
            BY <2>1, <3>1, <1>1, <1>2, <1>3, <1>5 DEF PutDown, Failure
    <2>2. CASE j # i
        <3>1. canonical[j] \in Accounts /\ canonical[j] # canonical[i]
            BY <1>3, <1>4, <2>2, WorkerAccount
        <3>2. errs'[canonical[j]] = errs[canonical[j]]
            BY <1>5, <3>1
        <3> QED
            BY <2>2, <3>2, <1>2, <1>3 DEF IInv, PutDown
    <2> QED
        BY <2>1, <2>2
<1>10. Cause'
    BY <1>1, <1>2, <1>3, <1>5 DEF IInv, Cause
<1>11. Judged'
    BY <1>2, NotJudged DEF Judged, Failure
<1> QED
    BY <1>6, <1>8, <1>9, <1>10, <1>11 DEF IInv

\* With --strict the failure is returned to the errgroup.
LEMMA StepReturn ==
    ASSUME IInv, NEW i \in DOMAIN worker, Return(i)
    PROVE  IInv'
<1>1. /\ worker[i] = "return" /\ Goto(i, "done")
      /\ first' = IF first = None THEN errs[canonical[i]] ELSE first
      /\ cancelled' = TRUE
      /\ UNCHANGED <<flags, asked, canonical, pages, errs, interrupted, verdict>>
    BY DEF Return
<1>2. /\ worker' \in Seq(States) /\ Len(worker') = Len(worker)
      /\ DOMAIN worker' = DOMAIN worker /\ worker' # <<>>
      /\ worker'[i] = "done"
      /\ \A j \in DOMAIN worker : j # i => worker'[j] = worker[j]
    BY <1>1, GotoType DEF States
<1>3. /\ canonical[i] \notin pages /\ errs[canonical[i]] # None /\ flags.strict
      /\ canonical[i] \in Accounts
    BY <1>1, WorkerAccount DEF IInv, PutDown
<1>4. errs[canonical[i]] \in Failure
    BY <1>3 DEF IInv, TypeOK
<1>5. first' \in Failure /\ first' # None
    BY <1>1, <1>4, NoneFresh DEF IInv, TypeOK
<1>6. TypeOK'
    BY <1>1, <1>2, <1>5 DEF IInv, TypeOK
<1>7. Distinct' /\ Filled'
    BY <1>1, <1>2 DEF IInv, Distinct, Filled, Failed
<1>8. ASSUME NEW j \in DOMAIN worker' PROVE PutDown(j)'
    <2>1. CASE j = i
        BY <2>1, <1>1, <1>2, <1>3, <1>5 DEF PutDown, Failure
    <2>2. CASE j # i
        BY <2>2, <1>1, <1>2, <1>5 DEF IInv, PutDown
    <2> QED
        BY <2>1, <2>2
<1>9. Cause'
    <2>1. ~interrupted => first' # "cancelled"
        BY <1>1, <1>3, <1>4 DEF IInv, Cause
    <2> QED
        BY <2>1, <1>1, <1>3, <1>5 DEF Cause
<1>10. Judged'
    BY <1>1, NotJudged DEF Judged
<1> QED
    BY <1>6, <1>7, <1>8, <1>9, <1>10 DEF IInv

LEMMA StepWait ==
    ASSUME IInv, Wait
    PROVE  IInv'
<1>1. /\ worker # <<>> /\ \A i \in DOMAIN worker : worker[i] = "done"
      /\ verdict' \in {"failed", "all failed", "listed"}
      /\ verdict' = "failed" <=> first # None
      /\ verdict' = "listed" => Cardinality(Failed) # Len(canonical)
      /\ UNCHANGED <<flags, asked, canonical, worker, pages, errs, first, cancelled, interrupted>>
    BY DEF Wait, Answer
<1>2. TypeOK'
    BY <1>1 DEF IInv, TypeOK, Verdicts
<1>3. Failed' = Failed
    BY <1>1 DEF Failed
<1>4. Distinct' /\ Filled' /\ Cause'
    BY <1>1, <1>3 DEF IInv, Distinct, Filled, Cause
<1>5. \A i \in DOMAIN worker' : PutDown(i)'
    BY <1>1 DEF IInv, PutDown
<1>6. Judged'
    BY <1>1, <1>3 DEF Judged
<1> QED
    BY <1>2, <1>4, <1>5, <1>6 DEF IInv

\* A refusal, or an interrupt: neither touches what the workers have.
LEMMA StepAside ==
    ASSUME IInv, Refuse \/ Interrupt
    PROVE  IInv'
<1>1. /\ UNCHANGED <<flags, asked, canonical, worker, pages, errs, first>>
      /\ cancelled' \in BOOLEAN /\ interrupted' \in BOOLEAN
      /\ interrupted' \/ (interrupted' = interrupted /\ cancelled' = cancelled)
    BY DEF Refuse, Interrupt, IInv, TypeOK
<1>2. verdict' \in {"refused", verdict} /\ verdict' \in Verdicts \union {None}
    BY DEF Refuse, Interrupt, Answer, IInv, TypeOK, Verdicts
<1>3. TypeOK'
    BY <1>1, <1>2 DEF IInv, TypeOK
<1>4. Failed' = Failed
    BY <1>1 DEF Failed
<1>5. Distinct' /\ Filled'
    BY <1>1, <1>4 DEF IInv, Distinct, Filled
<1>6. \A i \in DOMAIN worker' : PutDown(i)'
    BY <1>1 DEF IInv, PutDown
<1>7. Cause'
    BY <1>1 DEF IInv, Cause
<1>8. Judged'
    BY <1>1, <1>2, <1>4 DEF IInv, Judged
<1> QED
    BY <1>3, <1>5, <1>6, <1>7, <1>8 DEF IInv

-----------------------------------------------------------------------------
LEMMA NextIInv == IInv /\ [Next]_vars => IInv'
<1> SUFFICES ASSUME IInv, [Next]_vars PROVE IInv'
    OBVIOUS
<1>1. CASE UNCHANGED vars
    BY <1>1 DEF vars, IInv, TypeOK, Distinct, Filled, PutDown, Cause, Judged, Failed
<1>2. CASE Refuse \/ Interrupt
    BY <1>2, StepAside
<1>3. CASE Resolve \/ ResolveAll
    BY <1>3, StepResolved
<1>4. CASE Dispatch
    BY <1>4, StepDispatch
<1>5. CASE \E i \in DOMAIN worker :
              \/ Connected(i) \/ ListedPage(i) \/ CallFails(i) \/ GiveUp(i)
              \/ Collect(i) \/ Return(i)
    BY <1>5, StepCall, StepListed, StepCollect, StepReturn
<1>6. CASE Wait
    BY <1>6, StepWait
<1> QED
    BY <1>1, <1>2, <1>3, <1>4, <1>5, <1>6 DEF Next, Done

THEOREM AlwaysIInv == Spec => []IInv
BY InitIInv, NextIInv, PTL DEF Spec

\* The variables keep their types, and only accounts of the config are asked.
THEOREM TypeCorrect == Spec => []TypeOK
<1>1. IInv => TypeOK
    BY DEF IInv
<1> QED
    BY <1>1, AlwaysIInv, PTL

\* Whatever order the goroutines end in, an answer with data accounts for every
\* account that was asked.  It has at least one page because the count of
\* failures is compared with that of a list without repetition.
THEOREM AnswerAccountsForAll == Spec => []ListedAccountsForAll
<1>1. ASSUME IInv, verdict = "listed"
      PROVE  /\ pages \union Failed = Listed(canonical)
             /\ pages \intersect Failed = {}
             /\ pages # {}
             /\ flags.strict => Failed = {}
    <2>1. canonical \in Seq(Accounts) /\ worker \in Seq(States)
        BY <1>1 DEF IInv, TypeOK
    <2>2. /\ worker # <<>> /\ first = None
          /\ Cardinality(Failed) # Len(canonical)
          /\ \A i \in DOMAIN worker : worker[i] = "done"
        BY <1>1 DEF IInv, Judged
    <2>3. DOMAIN worker = DOMAIN canonical
        BY <1>1, <2>1, <2>2 DEF IInv, TypeOK
    <2>4. \A i \in DOMAIN canonical :
              /\ canonical[i] \in Accounts
              /\ canonical[i] \in pages <=> errs[canonical[i]] = None
              /\ flags.strict => errs[canonical[i]] = None
        BY <1>1, <2>1, <2>2, <2>3 DEF IInv, PutDown
    <2>5. pages \union Failed = Listed(canonical)
        BY <1>1, <2>4 DEF IInv, Filled, Listed, Failed
    <2>6. \A a \in Listed(canonical) : a \in pages <=> a \notin Failed
        BY <2>4 DEF Listed, Failed
    <2>7. pages \intersect Failed = {}
        BY <2>5, <2>6
    <2>8. flags.strict => Failed = {}
        BY <2>4, <2>5 DEF Listed, Failed
    <2>9. Cardinality(Listed(canonical)) = Len(canonical)
        BY <1>1, <2>1, DistinctCardinality DEF IInv, Distinct
    <2> QED
        BY <2>2, <2>5, <2>7, <2>8, <2>9
<1>2. IInv => ListedAccountsForAll
    BY <1>1 DEF ListedAccountsForAll
<1> QED
    BY <1>2, AlwaysIInv, PTL

\* No failure the command reports is the echo of a cancellation, unless the user
\* interrupts: the errgroup cancels only when it already holds a failure of a
\* provider.
THEOREM ReportsNoEcho == Spec => []NoEchoReported
<1>1. IInv => NoEchoReported
    <2> SUFFICES ASSUME IInv, ~interrupted
                 PROVE  /\ verdict = "failed" => first = "fault"
                        /\ verdict \in {"listed", "all failed"} =>
                               \A a \in Accounts : errs[a] # "cancelled"
        BY DEF NoEchoReported
    <2>1. verdict = "failed" => first = "fault"
        BY DEF IInv, TypeOK, Cause, Judged, Failure
    <2>2. verdict \in {"listed", "all failed"} => first = None
        BY DEF IInv, Judged
    <2> QED
        BY <2>1, <2>2 DEF IInv, Cause
<1> QED
    BY <1>1, AlwaysIInv, PTL
=============================================================================
