------------------------------- MODULE Fanout -------------------------------
(***************************************************************************)
(* `envelope list` and `envelope search` over several accounts             *)
(* (cmd/mbx/fanout.go): the names after -a are resolved to accounts, one   *)
(* goroutine per account asks its provider, and an errgroup joins them.    *)
(* Without --strict each failure is put down under its account and the     *)
(* rest goes on; with it the first failure cancels the context the others  *)
(* run under.                                                              *)
(*                                                                         *)
(* A step of a worker is one call to its provider, one mutex-guarded map   *)
(* write, or the return to the errgroup.  Contents and order of the pages  *)
(* are left out: what counts is who contributes, and who is blamed.        *)
(***************************************************************************)
EXTENDS Naturals, Sequences, FiniteSets

CONSTANTS
    Accounts,       \* the configured accounts, by canonical name
    Names,          \* what may be typed after -a, next to All
    Canonical,      \* what config.Resolve makes of a name
    Unknown, All,
    Sorted,         \* all accounts, in the order `-a all` lists them
    Heeding,        \* accounts whose provider calls return when cancelled
    MaxAsked,       \* bound on the length of the -a list
    None

ASSUME CanonicalType == Canonical \in [Names -> Accounts \union {Unknown}]
ASSUME SpecialNames == Unknown \notin Accounts /\ All \notin Names
ASSUME HeedingType == Heeding \subseteq Accounts
ASSUME MaxAskedType == MaxAsked \in Nat
ASSUME SortedListsAll ==
    /\ Sorted \in Seq(Accounts)
    /\ Accounts = {Sorted[i] : i \in DOMAIN Sorted}
    /\ \A i, j \in DOMAIN Sorted : Sorted[i] = Sorted[j] => i = j

\* A provider call fails on its own, or with the error of the cancelled context.
Failure == {"fault", "cancelled"}
Verdicts == {"refused", "failed", "all failed", "listed"}

ASSUME NoneFresh == None \notin Failure \union Verdicts

VARIABLES
    flags,          \* --strict and --cursor
    asked,          \* the names after -a that are not resolved yet
    canonical,      \* the accounts the others stand for
    worker,         \* what the goroutine of each of them is about to do
    pages, errs,    \* the two maps they fill, by account
    first,          \* the error the errgroup holds
    cancelled,      \* the context of the goroutines is cancelled
    interrupted,    \* by the user
    verdict         \* what the command answers

vars == <<flags, asked, canonical, worker, pages, errs, first, cancelled,
          interrupted, verdict>>

\* A worker that holds a failure has yet to put it down.
States == {"connect", "list", "return", "done"} \union Failure

Listed(s) == {s[i] : i \in DOMAIN s}
Failed == {a \in Accounts : errs[a] # None}

Init ==
    /\ flags \in [strict : BOOLEAN, cursor : BOOLEAN]
    /\ asked \in UNION {[1 .. n -> Names \union {All}] : n \in 0 .. MaxAsked}
    /\ canonical = <<>>
    /\ worker = <<>>
    /\ pages = {}
    /\ errs = [a \in Accounts |-> None]
    /\ first = None
    /\ cancelled = FALSE
    /\ interrupted = FALSE
    /\ verdict = None

-----------------------------------------------------------------------------
(* Before the goroutines start *)

Resolving == worker = <<>> /\ verdict = None
Answer(v) == verdict' = v

\* No -a, an unknown name, `all` among others, or a cursor for many accounts.
Refuse ==
    /\ Resolving
    /\ \/ asked = <<>> /\ canonical = <<>>
       \/ asked # <<>> /\ Head(asked) \in Names /\ Canonical[Head(asked)] = Unknown
       \/ All \in Listed(asked) /\ (Len(asked) > 1 \/ canonical # <<>>)
       \/ asked = <<>> /\ flags.cursor /\ Len(canonical) > 1
    /\ Answer("refused")
    /\ UNCHANGED <<flags, asked, canonical, worker, pages, errs, first, cancelled, interrupted>>

Resolved(rest, accounts) ==
    /\ asked' = rest
    /\ canonical' = accounts
    /\ UNCHANGED <<flags, worker, pages, errs, first, cancelled, interrupted, verdict>>

\* (mutant) An account named twice is asked twice.
ResolveKeepingTwins ==
    /\ Resolving /\ asked # <<>> /\ All \notin Listed(asked)
    /\ Canonical[Head(asked)] # Unknown
    /\ Resolved(Tail(asked), Append(canonical, Canonical[Head(asked)]))

\* (mutant) The name goes on as it was typed.
ResolveAsTyped ==
    /\ Resolving /\ asked # <<>> /\ All \notin Listed(asked)
    /\ Canonical[Head(asked)] # Unknown
    /\ Resolved(Tail(asked),
                IF Head(asked) \in Listed(canonical) THEN canonical
                ELSE Append(canonical, Head(asked)))

Resolve ==
    /\ Resolving /\ asked # <<>> /\ All \notin Listed(asked)
    /\ LET account == Canonical[Head(asked)]
       IN  /\ account # Unknown
           /\ Resolved(Tail(asked),
                       IF account \in Listed(canonical) THEN canonical
                       ELSE Append(canonical, account))

ResolveAll ==
    /\ Resolving /\ asked = <<All>> /\ canonical = <<>>
    /\ Resolved(<<>>, Sorted)

Dispatch ==
    /\ Resolving /\ asked = <<>> /\ canonical # <<>>
    /\ ~(flags.cursor /\ Len(canonical) > 1)
    /\ worker' = [i \in DOMAIN canonical |-> "connect"]
    /\ UNCHANGED <<flags, asked, canonical, pages, errs, first, cancelled, interrupted, verdict>>

-----------------------------------------------------------------------------
(* The goroutines *)

Goto(i, state) == worker' = [worker EXCEPT ![i] = state]

\* newBackend, then the listing: the provider answers, and the page is stored.
Connected(i) ==
    /\ worker[i] = "connect"
    /\ Goto(i, "list")
    /\ UNCHANGED <<flags, asked, canonical, pages, errs, first, cancelled, interrupted, verdict>>

ListedPage(i) ==
    /\ worker[i] = "list"
    /\ pages' = pages \union {canonical[i]}
    /\ Goto(i, "done")
    /\ UNCHANGED <<flags, asked, canonical, errs, first, cancelled, interrupted, verdict>>

\* Either call fails.
CallFails(i) ==
    /\ worker[i] \in {"connect", "list"}
    /\ Goto(i, "fault")
    /\ UNCHANGED <<flags, asked, canonical, pages, errs, first, cancelled, interrupted, verdict>>

\* (mutant) The listing is called with a context of its own.
GiveUpConnecting(i) ==
    /\ worker[i] = "connect"
    /\ cancelled /\ canonical[i] \in Heeding
    /\ Goto(i, "cancelled")
    /\ UNCHANGED <<flags, asked, canonical, pages, errs, first, cancelled, interrupted, verdict>>

\* Either call gives up because its context is cancelled.
GiveUp(i) ==
    /\ worker[i] \in {"connect", "list"}
    /\ cancelled /\ canonical[i] \in Heeding
    /\ Goto(i, "cancelled")
    /\ UNCHANGED <<flags, asked, canonical, pages, errs, first, cancelled, interrupted, verdict>>

\* (mutant) A failure cancels the others, with --strict or without.
CollectCancelling(i) ==
    /\ worker[i] \in Failure
    /\ errs' = [errs EXCEPT ![canonical[i]] = worker[i]]
    /\ cancelled' = TRUE
    /\ Goto(i, IF flags.strict THEN "return" ELSE "done")
    /\ UNCHANGED <<flags, asked, canonical, pages, first, interrupted, verdict>>

\* collectFanoutErr: the failure goes into the map; with --strict it is also
\* returned.
Collect(i) ==
    /\ worker[i] \in Failure
    /\ errs' = [errs EXCEPT ![canonical[i]] = worker[i]]
    /\ Goto(i, IF flags.strict THEN "return" ELSE "done")
    /\ UNCHANGED <<flags, asked, canonical, pages, first, cancelled, interrupted, verdict>>

\* The errgroup keeps the first error it is given, and cancels.
Return(i) ==
    /\ worker[i] = "return"
    /\ first' = IF first = None THEN errs[canonical[i]] ELSE first
    /\ cancelled' = TRUE
    /\ Goto(i, "done")
    /\ UNCHANGED <<flags, asked, canonical, pages, errs, interrupted, verdict>>

\* grp.Wait and the merge.
Wait ==
    /\ verdict = None /\ worker # <<>>
    /\ \A i \in DOMAIN worker : worker[i] = "done"
    /\ Answer(IF first # None THEN "failed"
              ELSE IF Cardinality(Failed) = Len(canonical) THEN "all failed"
              ELSE "listed")
    /\ UNCHANGED <<flags, asked, canonical, worker, pages, errs, first, cancelled, interrupted>>

\* SIGINT or SIGTERM cancels the context of the command.
Interrupt ==
    /\ ~interrupted /\ verdict = None
    /\ interrupted' = TRUE
    /\ cancelled' = TRUE
    /\ UNCHANGED <<flags, asked, canonical, worker, pages, errs, first, verdict>>

Done == verdict # None /\ UNCHANGED vars

Next ==
    \/ Refuse \/ Resolve \/ ResolveAll \/ Dispatch
    \/ \E i \in DOMAIN worker :
          \/ Connected(i) \/ ListedPage(i) \/ CallFails(i) \/ GiveUp(i)
          \/ Collect(i) \/ Return(i)
    \/ Wait
    \/ Interrupt
    \/ Done

Spec == Init /\ [][Next]_vars

\* The program's own steps are taken; a provider's answer may never come.
Own == Refuse \/ Resolve \/ ResolveAll \/ Dispatch \/ Wait

FairSpec ==
    /\ Spec
    /\ WF_vars(Own)
    /\ \A i \in 1 .. Cardinality(Accounts) :
          WF_vars(i \in DOMAIN worker /\ (GiveUp(i) \/ Collect(i) \/ Return(i)))

-----------------------------------------------------------------------------
(* Properties *)

\* Every variable stays in its range, and is keyed by accounts of the config.
TypeOK ==
    /\ flags \in [strict : BOOLEAN, cursor : BOOLEAN]
    /\ asked \in Seq(Names \union {All})
    /\ canonical \in Seq(Accounts)
    /\ worker \in Seq(States) /\ Len(worker) \in {0, Len(canonical)}
    /\ pages \in SUBSET Accounts
    /\ errs \in [Accounts -> Failure \union {None}]
    /\ first \in Failure \union {None}
    /\ cancelled \in BOOLEAN /\ interrupted \in BOOLEAN
    /\ verdict \in Verdicts \union {None}

\* An answer with data accounts for every account asked, either among those
\* that contribute or, by its failure, among those that do not; it has at least
\* one that contributes; and with --strict it has them all.
ListedAccountsForAll ==
    verdict = "listed" =>
        /\ pages \union Failed = Listed(canonical)
        /\ pages \intersect Failed = {}
        /\ pages # {}
        /\ flags.strict => Failed = {}

\* Unless the user interrupts, no failure the command reports is the echo of a
\* cancellation: neither the one --strict fails with, nor one put down under an
\* account.
NoEchoReported ==
    ~interrupted =>
        /\ verdict = "failed" => first = "fault"
        /\ verdict \in {"listed", "all failed"} =>
               \A a \in Accounts : errs[a] # "cancelled"

\* After the first failure under --strict, and after an interrupt, a command over
\* accounts whose calls heed their context ends, though no provider answers any
\* more.
CancelEnds ==
    (first # None \/ interrupted) /\ worker # <<>> /\ Listed(canonical) \subseteq Heeding
        ~> verdict # None

\* fanout.go:39: with --strict the first failure cancels the rest and is returned
\* directly, so that the command ends without waiting for the other providers.
StrictEnds == first # None ~> verdict # None
=============================================================================
