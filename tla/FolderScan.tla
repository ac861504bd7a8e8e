------------------------------ MODULE FolderScan ------------------------------
(***************************************************************************)
(* `mbx cache sync` of one IMAP folder (syncOneFolder over the provider's  *)
(* ListEnvelopes), while other clients deliver to and expunge from the     *)
(* mailbox.  The listing pages downwards by UID: a page is the newest      *)
(* UIDs below the cursor, and its smallest UID is the next cursor.  Every  *)
(* page is a SELECT, a UID SEARCH and a UID FETCH of its own, so the       *)
(* mailbox a page sees is not the one the page before it saw.              *)
(*                                                                         *)
(* The mailbox is reduced to the messages of the sync's date window, which *)
(* is the same for every page of a run.                                    *)
(***************************************************************************)
EXTENDS Naturals, FiniteSets

CONSTANTS
    Limit,          \* page size: envelope.MaxLimit
    FirstUid,       \* no message of the window has a smaller UID
    MaxUid,         \* bound: deliveries stop here
    MaxValidity     \* bound: UIDVALIDITY of the last incarnation of the mailbox

ASSUME LimitPositive == Limit \in Nat \ {0}
ASSUME FirstUidPositive == FirstUid \in Nat \ {0}
ASSUME BoundsNat == MaxUid \in Nat /\ MaxValidity \in Nat \ {0}

Uids == FirstUid..MaxUid
Validities == 1..MaxValidity

VARIABLES
    validity,   \* the server's UIDVALIDITY of the mailbox
    uids,       \* the UIDs in it
    uidnext,    \* the next UID it hands out
    cache,      \* table envelopes: <<uidvalidity, uid>> of the rows
    pc,         \* where the sync is
    cursor,     \* syncOneFolder's cursor, 0 for the empty string
    page,       \* the UIDs the page's SEARCH found, cut to Limit
    total,      \* syncOneFolder's count
    stamp,      \* sync_state.envelopes, 0 when there is no stamp
    outcome,    \* "running", or how the last run ended
    listed,     \* history: the messages this run has listed
    begun,      \* history: the messages present when this run began
    ever        \* history: the messages the folder has or had

server == <<validity, uids, uidnext, ever>>
client == <<cache, pc, cursor, page, total, stamp, outcome, listed, begun>>
vars == <<server, client>>

Message == Validities \X Uids

Here(us) == {validity} \X us
Present == Here(uids)

-----------------------------------------------------------------------------
(* The server: other clients, and the delivery of mail.                     *)

Deliver ==
    /\ uidnext <= MaxUid
    /\ uids' = uids \union {uidnext}
    /\ uidnext' = uidnext + 1
    /\ ever' = ever \union Here({uidnext})
    /\ UNCHANGED <<validity, client>>

Expunge ==
    /\ \E u \in uids : uids' = uids \ {u}
    /\ UNCHANGED <<validity, uidnext, ever, client>>

\* The mailbox is deleted and created again, and counts its UIDs anew.  Not
\* between the commands of one page: a session keeps the mailbox it selected.
Recreate ==
    /\ pc # "fetch"
    /\ validity < MaxValidity
    /\ validity' = validity + 1
    /\ uids' = {}
    /\ uidnext' = FirstUid
    /\ UNCHANGED <<ever, client>>

-----------------------------------------------------------------------------
(* ListEnvelopes and syncOneFolder                                          *)

\* (mutant) The cursor is taken as an inclusive bound.
InclusiveScope == IF cursor = 0 THEN uids ELSE {u \in uids : u <= cursor}

\* The UID set the page searches.  An upper bound of 0 is IMAP's "*".
Scope == IF cursor = 0 \/ cursor - 1 = 0 THEN uids ELSE {u \in uids : u <= cursor - 1}

\* us is the page cut from the search result s: sorted downwards, the first
\* Limit of it.
CutTo(s, us) ==
    /\ us \subseteq s
    /\ \A u \in us, v \in s \ us : v < u
    /\ Cardinality(us) <= Limit
    /\ Cardinality(us) < Limit => us = s

SyncStart ==
    /\ pc = "idle"
    /\ pc' = "search"
    /\ cursor' = 0
    /\ total' = 0
    /\ outcome' = "running"
    /\ listed' = {}
    /\ begun' = Present
    /\ UNCHANGED <<server, cache, page, stamp>>

\* (mutant) An empty page is asked for again.
SearchAgain ==
    /\ pc = "search"
    /\ \E us \in SUBSET uids :
           /\ CutTo(Scope, us)
           /\ page' = us
           /\ pc' = IF us = {} THEN "search" ELSE "fetch"
    /\ UNCHANGED <<server, cache, cursor, total, stamp, outcome, listed, begun>>

\* SELECT and UID SEARCH.  Nothing found is an empty page without a cursor.
Search ==
    /\ pc = "search"
    /\ \E us \in SUBSET uids :
           /\ CutTo(Scope, us)
           /\ page' = us
           /\ pc' = IF us = {} THEN "stamp" ELSE "fetch"
    /\ UNCHANGED <<server, cache, cursor, total, stamp, outcome, listed, begun>>

\* A page that holds Limit UIDs says where the next one starts, whether or not
\* FETCH still found all of them.
NextCursor ==
    IF Cardinality(page) = Limit
    THEN /\ \E low \in page : (\A u \in page : low <= u) /\ cursor' = low
         /\ pc' = "search"
    ELSE /\ pc' = "stamp"
         /\ UNCHANGED cursor

\* (mutant) The page has a next one when FETCH, not SEARCH, returned Limit.
FetchPutCountingReplies ==
    /\ pc = "fetch"
    /\ \E bufs \in SUBSET page :
           /\ page \intersect uids \subseteq bufs
           /\ cache' = cache \union Here(bufs)
           /\ total' = total + Cardinality(bufs)
           /\ listed' = listed \union Here(bufs)
           /\ IF Cardinality(bufs) = Limit THEN NextCursor
                                           ELSE pc' = "stamp" /\ UNCHANGED cursor
    /\ page' = {}
    /\ UNCHANGED <<server, stamp, outcome, begun>>

\* (mutant) The page put stays in hand.
FetchPutKeepingPage ==
    /\ pc = "fetch"
    /\ \E bufs \in SUBSET page :
           /\ page \intersect uids \subseteq bufs
           /\ cache' = cache \union Here(bufs)
           /\ total' = total + Cardinality(bufs)
           /\ listed' = listed \union Here(bufs)
    /\ NextCursor
    /\ UNCHANGED <<server, page, stamp, outcome, begun>>

\* UID FETCH, and PutEnvelopes of what came back: a message another client
\* expunged since the SEARCH may be missing.
FetchPut ==
    /\ pc = "fetch"
    /\ \E bufs \in SUBSET page :
           /\ page \intersect uids \subseteq bufs
           /\ cache' = cache \union Here(bufs)
           /\ total' = total + Cardinality(bufs)
           /\ listed' = listed \union Here(bufs)
    /\ NextCursor
    /\ page' = {}
    /\ UNCHANGED <<server, stamp, outcome, begun>>

Stop(how) ==
    /\ pc' = "idle"
    /\ cursor' = 0
    /\ page' = {}
    /\ total' = 0
    /\ outcome' = how
    /\ listed' = {}
    /\ begun' = {}
    /\ UNCHANGED <<server, cache>>

\* UpsertSyncState, after the last page only.
Stamp ==
    /\ pc = "stamp"
    /\ stamp' = total
    /\ Stop("ok")

\* (mutant) A failed sync is stamped like one that went through.
FailStamping ==
    /\ pc # "idle"
    /\ stamp' = total
    /\ Stop("ok")

\* A command or a transaction fails, or the verb is killed.  The pages already
\* put stay in the cache; the sync is not stamped.
Fail ==
    /\ pc # "idle"
    /\ Stop("failed")
    /\ UNCHANGED stamp

-----------------------------------------------------------------------------
Init ==
    /\ validity = 1
    /\ uidnext \in FirstUid..(MaxUid + 1)
    /\ uids \in SUBSET (FirstUid..(uidnext - 1))
    /\ cache = {}
    /\ pc = "idle"
    /\ cursor = 0
    /\ page = {}
    /\ total = 0
    /\ stamp = 0
    /\ outcome = "none"
    /\ listed = {}
    /\ begun = {}
    /\ ever = Here(FirstUid..(uidnext - 1))

Server == Deliver \/ Expunge \/ Recreate
Sync == SyncStart \/ Search \/ FetchPut \/ Stamp \/ Fail

Next == Server \/ Sync

Spec == Init /\ [][Next]_vars

\* A sync that was started runs on: nothing but its own commands holds it up.
FairSpec == Spec /\ WF_vars(Search \/ FetchPut \/ Stamp)

-----------------------------------------------------------------------------
(* Properties *)

\* Every variable stays in its range, and a page is in hand between its SEARCH and
\* its FETCH only.
TypeOK ==
    /\ validity \in Nat /\ uidnext \in Nat /\ FirstUid <= uidnext
    /\ uids \in SUBSET Nat /\ page \in SUBSET Nat
    /\ \A u \in uids : FirstUid <= u /\ u < uidnext
    /\ cache \subseteq Nat \X Nat /\ listed \subseteq Nat \X Nat
    /\ begun \subseteq Nat \X Nat /\ ever \subseteq Nat \X Nat
    /\ pc \in {"idle", "search", "fetch", "stamp"}
    /\ pc # "fetch" => page = {}
    /\ cursor \in Nat /\ total \in Nat /\ stamp \in Nat
    /\ outcome \in {"none", "running", "ok", "failed"}

\* The messages the run promises: there since it began.
Steady == begun \intersect Present

\* While the run pages down, every message that was there when it began and was
\* not expunged has a row if its UID is at or above the cursor -- deliveries and
\* expunges between the pages shift none of them past the scan -- and when the
\* paging has ended, all of them have.
Covered ==
    /\ pc = "search" /\ cursor # 0 => \A m \in Steady : m[2] >= cursor => m \in cache
    /\ pc = "stamp" => Steady \subseteq cache

\* The count a sync reports and stamps is that of the messages it listed: no
\* message is listed by two pages.
CountsOnce == pc # "idle" => total = Cardinality(listed)

\* Page by page the UIDs go down: every page is below the cursor it was asked
\* for (imap/envelope.go:27, "an exclusive-upper-bound cursor").
PagesDescend == pc = "fetch" /\ cursor # 0 => \A u \in page : u < cursor

\* A sync that has started ends, however much mail is delivered meanwhile.
SyncEnds == pc = "search" ~> pc = "idle"

\* The promise of a sync.
Promise == INSTANCE FolderSync
               WITH Messages <- Message, folder <- Present

KeepsPromise == Promise!Spec
=============================================================================
