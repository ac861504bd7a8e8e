---------------------------- MODULE CacheListing ----------------------------
(***************************************************************************)
(* `cache list` and `cache search`, page by page.  Each page is a query of *)
(* its own, by an invocation of its own: the rows that match, newest       *)
(* first, at most one more than fit.  The cursor of the next page is the   *)
(* date of the last row shown, and the next page takes what is strictly    *)
(* older.  In between, syncs and write-throughs add rows, drop them, and   *)
(* make them match a filter or not.                                        *)
(*                                                                         *)
(* A row is the rank of its date: 0 is a message without a date, which the *)
(* cache stores as 0 and the listing takes for none.                       *)
(***************************************************************************)
EXTENDS Integers, Sequences, FiniteSets, FiniteSetsExt

CONSTANTS
    N,                  \* how many rows a listing may meet
    MaxDate,
    DefaultLimit, MaxLimit,
    Limits              \* what --limit may be given

ASSUME ListingType ==
    /\ {N, MaxDate} \subseteq Nat
    /\ DefaultLimit \in Nat \ {0} /\ MaxLimit \in Nat \ {0} /\ DefaultLimit <= MaxLimit
    /\ Limits \subseteq Int

VARIABLES
    date,       \* the date of each row, which no upsert changes
    matching,   \* the rows that are there and match the query
    limit,      \* --limit, on every page of the listing
    cursor,     \* the cursor of the next page
    listing,    \* "more" pages, or the "end"
    shown,      \* history: the pages shown so far that had rows
    stayed      \* history: rows that matched at every moment since the beginning

listVars == <<date, matching, limit, cursor, listing, shown, stayed>>

\* Rows, numbered from the oldest on.
Rows == 1..N

\* The largest page a query is let ask for.
PageSize ==
    IF limit <= 0 THEN DefaultLimit ELSE IF limit > MaxLimit THEN MaxLimit ELSE limit

\* (mutant) The next page takes what is as old, too.
InclusiveOlder(c) == {r \in matching : c > 0 => date[r] <= c}

\* parseCursor: what is not a positive number is no cursor.
Older(c) == {r \in matching : c > 0 => date[r] < c}

\* ORDER BY date DESC: among rows of one date SQLite may take any.
Newest(S, n) ==
    {P \in SUBSET S : /\ Cardinality(P) = (IF Cardinality(S) < n THEN Cardinality(S) ELSE n)
                      /\ \A r \in P, s \in S \ P : date[r] >= date[s]}

\* The date of the last row of a page.
LastDate(P) == Min({date[r] : r \in P})

\* (mutant) The cursor is the date of the row that was peeked at.
PeekedCursor(P) ==
    LET rest == Older(cursor) \ P
    IN  IF Cardinality(P) = PageSize /\ rest # {} THEN Max({date[r] : r \in rest}) ELSE 0

\* (mutant) Any page has a cursor, an empty one that of the page before.
AlwaysCursor(P) == IF P = {} THEN cursor ELSE LastDate(P)

\* NextCursor: of a full page whose last row has a date, whether or not a row
\* was peeked at beyond it.
NextCursor(P) == IF Cardinality(P) = PageSize THEN LastDate(P) ELSE 0

-----------------------------------------------------------------------------
\* ListEnvelopes, and the next invocation if the answer has a cursor.
ListEnvelopes ==
    /\ listing = "more"
    /\ \E P \in Newest(Older(cursor), PageSize) :
           /\ shown' = IF P = {} THEN shown ELSE Append(shown, P)
           /\ cursor' = NextCursor(P)
           /\ listing' = IF NextCursor(P) = 0 THEN "end" ELSE "more"
    /\ UNCHANGED <<date, matching, limit, stayed>>

\* Another invocation adds rows, deletes them, or changes flags so that they
\* match or no longer do.
Change ==
    /\ \E r \in Rows :
           matching' = IF r \in matching THEN matching \ {r} ELSE matching \union {r}
    /\ stayed' = stayed \intersect matching'
    /\ UNCHANGED <<date, limit, cursor, listing, shown>>

ListInit ==
    /\ date \in {d \in [Rows -> 0..MaxDate] : \A r, s \in Rows : r < s => d[r] <= d[s]}
    /\ matching \in SUBSET Rows
    /\ limit \in Limits
    /\ cursor = 0
    /\ listing = "more"
    /\ shown = <<>>
    /\ stayed = matching

ListNext == ListEnvelopes \/ Change

ListSpec == ListInit /\ [][ListNext]_listVars
FairListSpec == ListSpec /\ WF_listVars(ListEnvelopes)

-----------------------------------------------------------------------------
(* Properties *)

Pages == DOMAIN shown

\* Every variable stays in its range, and no page is longer than --limit, or
\* than MaxLimit.
ListTypeOK ==
    /\ date \in [Rows -> 0..MaxDate]
    /\ matching \subseteq Rows
    /\ cursor \in 0..MaxDate
    /\ listing \in {"more", "end"}
    /\ \A i \in Pages : shown[i] \subseteq Rows /\ Cardinality(shown[i]) <= MaxLimit
    /\ stayed \subseteq matching

\* Paging goes strictly back in time: every row of a later page is older than every
\* row of an earlier one, so no row is shown twice.
PagesGoBack ==
    \A i, j \in Pages :
        i < j => \A r \in shown[i], s \in shown[j] : date[s] < date[r]

\* A row that matched all along is missing from a finished listing only if it has
\* the date of the last row of a full page: rows come and go around it without
\* pushing it over a page boundary.
MissedOnlyInTies ==
    listing = "end" =>
        \A r \in stayed :
            \/ \E i \in Pages : r \in shown[i]
            \/ \E i \in Pages : Cardinality(shown[i]) = PageSize /\ LastDate(shown[i]) = date[r]

\* A listing whose cursors are followed comes to an end, whatever is synced
\* meanwhile.
ListingEnds == <>(listing = "end")
=============================================================================
