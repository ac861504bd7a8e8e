---------------------------- MODULE TokenRotation ----------------------------
(***************************************************************************)
(* The refresh token of an OAuth account: the one the user's secret store  *)
(* holds, those the provider still accepts, and the invocations of mbx     *)
(* that read it, trade it and write it back.                               *)
(*                                                                         *)
(*   - every live verb of the account reads it once and refreshes its      *)
(*     access token with it, perhaps several times; a refresh token the    *)
(*     provider rotates goes back through write_cmd                        *)
(*     (internal/account/auth/source.go; account doctor does the same);    *)
(*   - `account auth` checks write_cmd by a round trip, has the user       *)
(*     consent, and stores the token it gets (internal/secret,             *)
(*     cmd/mbx/account.go).                                                *)
(*                                                                         *)
(* Nothing but the secret store is shared, and it has no compare-and-set.  *)
(***************************************************************************)
EXTENDS Naturals, FiniteSets

CONSTANTS
    Procs,          \* concurrently running invocations of mbx
    MaxTokens,      \* bound on the refresh tokens the provider issues
    Empty, Sentinel,
    NoToken

ASSUME MaxTokensType == MaxTokens \in Nat \ {0}

Tokens == 1 .. MaxTokens

ASSUME SpecialValues ==
    /\ {Empty, Sentinel, NoToken} \intersect Nat = {}
    /\ Empty # Sentinel /\ Empty # NoToken /\ Sentinel # NoToken

VARIABLES
    live,       \* the refresh tokens the provider accepts
    issued,     \* how many it has issued
    stored,     \* the value in the secret store
    proc,       \* what each invocation has in hand
    harm        \* history: what has befallen the stored value

vars == <<live, issued, stored, proc, harm>>

PCs == {"idle", "refresh", "persist", "rewrite", "readback", "consent", "store"}

Process == [pc : PCs,
            last : Tokens \union {Empty, Sentinel, NoToken},    \* read or written last
            new : Tokens \union {Empty, Sentinel, NoToken}]     \* to be written

Idle == [pc |-> "idle", last |-> NoToken, new |-> NoToken]

Become(p, q) == proc' = [proc EXCEPT ![p] = q]
Exit(p) == Become(p, Idle)

\* The token p holds alone: issued to it, and not in the store.
Holding(p) == proc[p].pc \in {"persist", "store"}

\* write_cmd of p's new value.  A write over a value that p has not seen is
\* stale; a write of the token issued last makes good what happened before.
Put(p) ==
    LET q == proc[p]
    IN  /\ stored' = q.new
        /\ harm' = (IF q.new = issued THEN {} ELSE harm)
                     \union (IF stored # q.last THEN {"stale"} ELSE {})
                     \union (IF q.new = Sentinel /\ stored # Empty THEN {"sentinel"} ELSE {})

\* A write_cmd that fails, or is killed, may have written before.
PutFails(p) == \/ UNCHANGED <<stored, harm>>
               \/ Put(p)

-----------------------------------------------------------------------------
(* The verbs of the account: TokenSource and rotatingSource *)

UseRead(p) ==
    /\ proc[p].pc = "idle"
    /\ Become(p, [pc |-> "refresh", last |-> stored, new |-> NoToken])
    /\ UNCHANGED <<live, issued, stored, harm>>

\* The provider keeps the refresh token, or replaces it by a new one.
Refresh(p) ==
    /\ proc[p].pc = "refresh"
    /\ proc[p].last \in live
    /\ \/ UNCHANGED <<live, issued, proc>>
       \/ /\ issued < MaxTokens
          /\ issued' = issued + 1
          /\ live' = (live \ {proc[p].last}) \union {issued'}
          /\ Become(p, [pc |-> "persist", last |-> proc[p].last, new |-> issued'])
    /\ UNCHANGED <<stored, harm>>

Refused(p) ==
    /\ proc[p].pc = "refresh"
    /\ proc[p].last \notin live
    /\ Exit(p)
    /\ UNCHANGED <<live, issued, stored, harm>>

\* (mutant) The rotated token is used and never written.
PersistNot(p) ==
    /\ proc[p].pc = "persist"
    /\ Become(p, [pc |-> "refresh", last |-> proc[p].new, new |-> NoToken])
    /\ UNCHANGED <<live, issued, stored, harm>>

\* Written before the access token is handed to the caller.
Persist(p) ==
    /\ proc[p].pc = "persist"
    /\ Put(p)
    /\ Become(p, [pc |-> "refresh", last |-> proc[p].new, new |-> NoToken])
    /\ UNCHANGED <<live, issued>>

\* ErrRotationLost.  The oauth2 library still holds the new token, so another
\* call of Token tries to write it again.
PersistFails(p) ==
    /\ proc[p].pc = "persist"
    /\ PutFails(p)
    /\ UNCHANGED <<live, issued, proc>>

-----------------------------------------------------------------------------
(* account auth *)

\* Preflight reads the store; without a value, or when the read fails, it goes
\* on with a sentinel.
Preflight(p) ==
    /\ proc[p].pc = "idle"
    /\ \E new \in {stored, Sentinel} :
           /\ stored = Empty => new = Sentinel
           /\ Become(p, [pc |-> "rewrite", last |-> stored, new |-> new])
    /\ UNCHANGED <<live, issued, stored, harm>>

Rewrite(p) ==
    /\ proc[p].pc = "rewrite"
    /\ Put(p)
    /\ Become(p, [pc |-> "readback", last |-> proc[p].new, new |-> proc[p].new])
    /\ UNCHANGED <<live, issued>>

RewriteFails(p) ==
    /\ proc[p].pc = "rewrite"
    /\ PutFails(p)
    /\ Exit(p)
    /\ UNCHANGED <<live, issued>>

ReadBack(p) ==
    /\ proc[p].pc = "readback"
    /\ IF stored = proc[p].new
          THEN Become(p, [pc |-> "consent", last |-> stored, new |-> stored])
          ELSE Exit(p)
    /\ UNCHANGED <<live, issued, stored, harm>>

\* (mutant) An answer without a refresh token is not refused.
ConsentWithoutToken(p) ==
    /\ proc[p].pc = "consent"
    /\ Become(p, [pc |-> "store", last |-> proc[p].last, new |-> Empty])
    /\ UNCHANGED <<live, issued, stored, harm>>

\* Authorize: the provider issues a token, and may revoke earlier ones.
Consent(p) ==
    /\ proc[p].pc = "consent"
    /\ issued < MaxTokens
    /\ issued' = issued + 1
    /\ \E kept \in SUBSET live : live' = kept \union {issued'}
    /\ Become(p, [pc |-> "store", last |-> proc[p].last, new |-> issued'])
    /\ UNCHANGED <<stored, harm>>

Store(p) ==
    /\ proc[p].pc = "store"
    /\ Put(p)
    /\ Exit(p)
    /\ UNCHANGED <<live, issued>>

-----------------------------------------------------------------------------
\* The invocation is over, or killed, or its browser flow or write_cmd fails: a
\* token only it holds is lost.
Quit(p) ==
    /\ proc[p].pc # "idle"
    /\ harm' = harm \union (IF Holding(p) THEN {"lost"} ELSE {})
    /\ Exit(p)
    /\ UNCHANGED <<live, issued, stored>>

\* No token yet, or one from an earlier `account auth`.
Init ==
    /\ issued \in {0, 1}
    /\ live = 1 .. issued
    /\ stored = IF issued = 0 THEN Empty ELSE 1
    /\ proc = [p \in Procs |-> Idle]
    /\ harm = {}

Next ==
    \E p \in Procs :
        \/ UseRead(p) \/ Refresh(p) \/ Refused(p) \/ Persist(p) \/ PersistFails(p)
        \/ Preflight(p) \/ Rewrite(p) \/ RewriteFails(p) \/ ReadBack(p)
        \/ Consent(p) \/ Store(p)
        \/ Quit(p)

Spec == Init /\ [][Next]_vars

-----------------------------------------------------------------------------
(* Properties *)

\* Every variable stays in its range; what is live, or held, was issued.
TypeOK ==
    /\ issued \in 0 .. MaxTokens
    /\ live \in SUBSET (1 .. issued)
    /\ stored \in Tokens \union {Empty, Sentinel}
    /\ proc \in [Procs -> Process]
    /\ \A p \in Procs : Holding(p) => proc[p].new \in 1 .. issued
    /\ harm \in SUBSET {"stale", "sentinel", "lost"}

\* The secret store never goes dead unnoticed: the stored token is accepted by
\* the provider unless none was ever issued, or an invocation holds the newer
\* one and is about to write it, or one of three things befell the store since
\* the last token was written: an invocation ended with a token it had not
\* written, a write went over a value its writer had not seen, or a preflight
\* that could not read the token put its sentinel in its place.
StoredIsLive ==
    \/ stored \in live
    \/ issued = 0
    \/ \E p \in Procs : Holding(p)
    \/ harm # {}
=============================================================================
