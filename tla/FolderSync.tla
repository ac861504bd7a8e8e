------------------------------ MODULE FolderSync ------------------------------
(***************************************************************************)
(* What `mbx cache sync` promises of one folder, whatever the provider and *)
(* its paging: a run that reports success leaves a row in the cache for    *)
(* every message that was in the folder when the run began and still is.   *)
(* Rows are kept only of messages the folder has, or had.                  *)
(***************************************************************************)
CONSTANT Messages

VARIABLES
    folder,     \* the messages in the folder now
    ever,       \* the messages that are or were in it
    cache,      \* the messages that have a row
    outcome,    \* "running", or how the last run ended ("none" before any)
    begun       \* the messages that were in the folder when the run began

vars == <<folder, ever, cache, outcome, begun>>

Init ==
    /\ ever \in SUBSET Messages
    /\ folder \in SUBSET ever
    /\ cache = {}
    /\ outcome = "none"
    /\ begun = {}

\* The mailbox changes under the sync: messages come once, and go.
Change ==
    /\ \E come \in SUBSET (Messages \ ever), stay \in SUBSET folder :
           /\ folder' = stay \union come
           /\ ever' = ever \union come
    /\ UNCHANGED <<cache, outcome, begun>>

Begin ==
    /\ outcome # "running"
    /\ outcome' = "running"
    /\ begun' = folder
    /\ UNCHANGED <<folder, ever, cache>>

Keep ==
    /\ outcome = "running"
    /\ \E more \in SUBSET ever : cache' = cache \union more
    /\ UNCHANGED <<folder, ever, outcome, begun>>

End(how) ==
    /\ outcome = "running"
    /\ outcome' = how
    /\ begun' = {}
    /\ UNCHANGED <<folder, ever, cache>>

Succeed == begun \intersect folder \subseteq cache /\ End("ok")

GiveUp == End("failed")

Next == Change \/ Begin \/ Keep \/ Succeed \/ GiveUp

Spec == Init /\ [][Next]_vars
=============================================================================
