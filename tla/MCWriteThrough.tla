--------------------------- MODULE MCWriteThrough ---------------------------
(* Instances of WriteThrough for TLC.                                         *)
EXTENDS WriteThrough, TLC

CONSTANTS m1, m2, m3, seen, deleted, INBOX, inbox, lists

TwoFolders == m1 :> inbox @@ m2 :> inbox @@ m3 :> lists

\* One message, two invocations at a time, and other clients.
Busy == {[gmail |-> g, uidPlus |-> TRUE, others |-> TRUE, atOnce |-> 2, msgs |-> {m3},
          marks |-> {seen, IF g THEN INBOX ELSE deleted}] : g \in BOOLEAN}

\* Two messages, on IMAP in one folder or in two, one invocation at a time, and
\* nobody else, without UIDPLUS.
Quiet == {[gmail |-> FALSE, uidPlus |-> FALSE, others |-> FALSE, atOnce |-> 1, msgs |-> {m2, m},
           marks |-> {deleted}] : m \in {m1, m3}}
         \union
         {[gmail |-> TRUE, uidPlus |-> FALSE, others |-> FALSE, atOnce |-> 1, msgs |-> {m1, m2},
           marks |-> {seen, INBOX}]}

Accounts == Busy \union Quiet

ProcSymmetry == Permutations(Procs)
=============================================================================
