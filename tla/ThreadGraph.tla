----------------------------- MODULE ThreadGraph -----------------------------
(***************************************************************************)
(* BuildGraph (internal/envelope/thread.go): the messages of a mailbox     *)
(* window are linked by Message-ID, In-Reply-To and References, the cycles *)
(* that forged headers make are broken, every message gets its depth, and  *)
(* the tree the anchor is in is the thread `envelope thread` shows.        *)
(*                                                                         *)
(* The function is sequential.  It is a state machine here, one action per *)
(* turn of a loop, because what can go wrong is a loop that does not end   *)
(* and what it leaves behind when it does.  A message is its index in the  *)
(* window, as in the code; the two queues are sets, as the order in which  *)
(* they are emptied does not show in depths or membership.                 *)
(***************************************************************************)
EXTENDS Integers, FiniteSets

CONSTANTS
    N,          \* messages in the window
    Ids, NoId,  \* Message-IDs, canonicalized; NoId is the empty one
    MaxRefs     \* bound on the Message-IDs in the headers of one message

ASSUME NType == N \in Nat
ASSUME NoIdFresh == NoId \notin Ids
ASSUME MaxRefsType == MaxRefs \in Nat

Nodes == 0 .. N - 1
NoParent == -1

VARIABLES
    pc,         \* the loop the function is in
    anchor,     \* the message asked for, or -1 when the window lacks it
    index,      \* msgIDToIdx
    parents,    \* the parent of each message
    i,          \* the outer loop's message
    cur,        \* the inner loop's message
    visited,    \* those the inner loop has been at
    depths,
    queue,      \* of the breadth-first walks
    thread,     \* the component of the anchor
    linked      \* history: parents, before the cycles were broken

vars == <<pc, anchor, index, parents, i, cur, visited, depths, queue, thread, linked>>

\* What the headers of one message may name.
Headers == UNION {[1 .. k -> Ids] : k \in 0 .. MaxRefs}
NoIndex == [id \in {} |-> NoParent]
Children(n) == {c \in Nodes : parents[c] = n}

Init ==
    /\ pc = "index"
    /\ anchor \in Nodes \union {-1}
    /\ index = NoIndex
    /\ parents = [n \in Nodes |-> NoParent]
    /\ i = 0
    /\ cur = -1
    /\ visited = {}
    /\ depths = [n \in Nodes |-> -1]
    /\ queue = {}
    /\ thread = {}
    /\ linked = parents

-----------------------------------------------------------------------------
(* Linking *)

\* Of two messages with one Message-ID the later one is found by it.
Index ==
    /\ pc = "index"
    /\ \E ids \in [Nodes -> Ids \union {NoId}] :
           index' \in {f \in [{ids[n] : n \in Nodes} \ {NoId} -> Nodes] :
                         \A n \in Nodes : ids[n] # NoId => ids[f[ids[n]]] = ids[n] /\ n <= f[ids[n]]}
    /\ pc' = "link"
    /\ UNCHANGED <<anchor, parents, i, cur, visited, depths, queue, thread, linked>>

\* (mutant) A message may be its own parent.
ParentOrSelf(n, refs, p) ==
    LET found == {k \in DOMAIN refs : refs[k] \in DOMAIN index}
    IN  \/ found = {} /\ p = NoParent
        \/ \E k \in found : (\A j \in found : k <= j) /\ p = index[refs[k]]

\* p is the parent refs name: the first of them that is in the window and is not
\* the message itself.
Parent(n, refs, p) ==
    LET found == {k \in DOMAIN refs : refs[k] \in DOMAIN index /\ index[refs[k]] # n}
    IN  \/ found = {} /\ p = NoParent
        \/ \E k \in found : (\A j \in found : k <= j) /\ p = index[refs[k]]

\* refs is In-Reply-To followed by References from the last to the first.
Link ==
    /\ pc = "link" /\ i < N
    /\ \E refs \in Headers, p \in Nodes \union {NoParent} :
           /\ Parent(i, refs, p)
           /\ parents' = [parents EXCEPT ![i] = p]
    /\ i' = i + 1
    /\ UNCHANGED <<pc, anchor, index, cur, visited, depths, queue, thread, linked>>

\* The index is not read again.
LinkEnd ==
    /\ pc = "link" /\ i = N
    /\ linked' = parents
    /\ index' = NoIndex
    /\ i' = 0
    /\ pc' = "break"
    /\ UNCHANGED <<anchor, parents, cur, visited, depths, queue, thread>>

-----------------------------------------------------------------------------
(* breakParentCycles *)

WalkStart ==
    /\ pc = "break" /\ i < N
    /\ cur' = i
    /\ visited' = {i}
    /\ pc' = "walk"
    /\ UNCHANGED <<anchor, index, parents, i, depths, queue, thread, linked>>

\* (mutant) The walk does not remember where it has been.
WalkUnmarked ==
    /\ pc = "walk"
    /\ parents[cur] # NoParent /\ parents[cur] \notin visited
    /\ cur' = parents[cur]
    /\ UNCHANGED <<pc, anchor, index, parents, i, visited, depths, queue, thread, linked>>

Walk ==
    /\ pc = "walk"
    /\ parents[cur] # NoParent /\ parents[cur] \notin visited
    /\ cur' = parents[cur]
    /\ visited' = visited \union {cur'}
    /\ UNCHANGED <<pc, anchor, index, parents, i, depths, queue, thread, linked>>

NextWalk ==
    /\ i' = i + 1
    /\ cur' = -1
    /\ visited' = {}
    /\ pc' = "break"
    /\ UNCHANGED <<anchor, index, depths, queue, thread, linked>>

\* (mutant) The message the walk started from is promoted, on the cycle or not.
CutStart ==
    /\ pc = "walk"
    /\ parents[cur] # NoParent /\ parents[cur] \in visited
    /\ parents' = [parents EXCEPT ![i] = NoParent]
    /\ NextWalk

\* (mutant) The walk ends at a cycle and leaves it.
CutNothing ==
    /\ pc = "walk"
    /\ parents[cur] # NoParent /\ parents[cur] \in visited
    /\ NextWalk
    /\ UNCHANGED parents

\* Back at a message of this walk: its last one becomes a root.
Cut ==
    /\ pc = "walk"
    /\ parents[cur] # NoParent /\ parents[cur] \in visited
    /\ parents' = [parents EXCEPT ![cur] = NoParent]
    /\ NextWalk

WalkEnd ==
    /\ pc = "walk"
    /\ parents[cur] = NoParent
    /\ NextWalk
    /\ UNCHANGED parents

BreakEnd ==
    /\ pc = "break" /\ i = N
    /\ i' = 0
    /\ pc' = "depths"
    /\ UNCHANGED <<anchor, index, parents, cur, visited, depths, queue, thread, linked>>

-----------------------------------------------------------------------------
(* bfsDepths, from every root *)

DepthRoot ==
    /\ pc = "depths" /\ i < N
    /\ IF parents[i] = NoParent
         THEN /\ depths' = [depths EXCEPT ![i] = 0]
              /\ queue' = {i}
              /\ pc' = "spread"
              /\ UNCHANGED i
         ELSE /\ i' = i + 1
              /\ UNCHANGED <<depths, queue, pc>>
    /\ UNCHANGED <<anchor, index, parents, cur, visited, thread, linked>>

\* (mutant) A reply is as deep as its parent.
SpreadLevel ==
    /\ pc = "spread"
    /\ \E n \in queue :
           LET fresh == {c \in Children(n) : depths[c] = -1}
           IN  /\ depths' = [c \in Nodes |-> IF c \in fresh THEN depths[n] ELSE depths[c]]
               /\ queue' = (queue \ {n}) \union fresh
    /\ UNCHANGED <<pc, anchor, index, parents, i, cur, visited, thread, linked>>

Spread ==
    /\ pc = "spread"
    /\ \E n \in queue :
           LET fresh == {c \in Children(n) : depths[c] = -1}
           IN  /\ depths' = [c \in Nodes |-> IF c \in fresh THEN depths[n] + 1 ELSE depths[c]]
               /\ queue' = (queue \ {n}) \union fresh
    /\ UNCHANGED <<pc, anchor, index, parents, i, cur, visited, thread, linked>>

SpreadEnd ==
    /\ pc = "spread" /\ queue = {}
    /\ i' = i + 1
    /\ pc' = "depths"
    /\ UNCHANGED <<anchor, index, parents, cur, visited, depths, queue, thread, linked>>

\* Without the anchor the answer is the zero Thread.
DepthsEnd ==
    /\ pc = "depths" /\ i = N
    /\ IF anchor = -1 THEN pc' = "done" /\ UNCHANGED cur
                      ELSE pc' = "climb" /\ cur' = anchor
    /\ UNCHANGED <<anchor, index, parents, i, visited, depths, queue, thread, linked>>

-----------------------------------------------------------------------------
(* The thread of the anchor *)

Climb ==
    /\ pc = "climb"
    /\ parents[cur] # NoParent
    /\ cur' = parents[cur]
    /\ UNCHANGED <<pc, anchor, index, parents, i, visited, depths, queue, thread, linked>>

\* (mutant) The thread is collected from the anchor down.
TopAtAnchor ==
    /\ pc = "climb"
    /\ queue' = {anchor}
    /\ thread' = {anchor}
    /\ pc' = "collect"
    /\ UNCHANGED <<anchor, index, parents, i, cur, visited, depths, linked>>

Top ==
    /\ pc = "climb"
    /\ parents[cur] = NoParent
    /\ queue' = {cur}
    /\ thread' = {cur}
    /\ pc' = "collect"
    /\ UNCHANGED <<anchor, index, parents, i, cur, visited, depths, linked>>

Collect ==
    /\ pc = "collect"
    /\ \E n \in queue :
           LET fresh == Children(n) \ thread
           IN  /\ thread' = thread \union fresh
               /\ queue' = (queue \ {n}) \union fresh
    /\ UNCHANGED <<pc, anchor, index, parents, i, cur, visited, depths, linked>>

CollectEnd ==
    /\ pc = "collect" /\ queue = {}
    /\ pc' = "done"
    /\ UNCHANGED <<anchor, index, parents, i, cur, visited, depths, queue, thread, linked>>

-----------------------------------------------------------------------------
Linking == Index \/ Link \/ LinkEnd
Breaking == WalkStart \/ Walk \/ Cut \/ WalkEnd \/ BreakEnd
Measuring == DepthRoot \/ Spread \/ SpreadEnd \/ DepthsEnd
Collecting == Climb \/ Top \/ Collect \/ CollectEnd

Next == Linking \/ Breaking \/ Measuring \/ Collecting

Spec == Init /\ [][Next]_vars

\* The function runs on until it returns.
FairSpec == Spec /\ WF_vars(Next)

-----------------------------------------------------------------------------
(* Properties *)

Phases == {"index", "link", "break", "walk", "depths", "spread", "climb", "collect", "done"}
Broken == pc \in {"depths", "spread", "climb", "collect", "done"}

\* Every variable stays in its range; no message is its own parent.
TypeOK ==
    /\ pc \in Phases
    /\ anchor \in Nodes \union {-1}
    /\ \A id \in DOMAIN index : index[id] \in Nodes
    /\ parents \in [Nodes -> Nodes \union {NoParent}]
    /\ \A n \in Nodes : parents[n] # n
    /\ i \in 0 .. N /\ (pc \in {"walk", "spread"} => i < N)
    /\ cur \in Nodes \union {-1} /\ (pc \in {"walk", "climb"} => cur \in Nodes)
    /\ visited \in SUBSET Nodes
    /\ depths \in [Nodes -> Nat \union {-1}]
    /\ queue \in SUBSET Nodes /\ thread \in SUBSET Nodes
    /\ linked \in [Nodes -> Nodes \union {NoParent}]

\* No set of messages holds the parents of all its members.
Acyclic(up) == \A s \in (SUBSET Nodes) \ {{}} : \E n \in s : up[n] \notin s

\* Once the cycles are broken every chain of parents ends, whatever the headers
\* say, so that the walk from the anchor to its root does (thread.go:170).
ChainsEnd == Broken => Acyclic(parents)

\* A cycle of the links: closed, and no part of it is.
Cycle(s) ==
    /\ s # {}
    /\ \A n \in s : linked[n] \in s
    /\ \A t \in (SUBSET s) \ {{}, s} : \E n \in t : linked[n] \notin t

\* Breaking the cycles loses no more of the conversation than it must: of every
\* cycle exactly one message becomes a root, and every other message keeps the
\* parent its headers name.
OneLinkPerCycle ==
    Broken =>
        LET lost == {n \in Nodes : parents[n] # linked[n]}
        IN  /\ \A n \in lost : parents[n] = NoParent
            /\ \A s \in SUBSET Nodes : Cycle(s) => Cardinality(s \intersect lost) = 1
            /\ \A n \in lost : \E s \in SUBSET Nodes : Cycle(s) /\ n \in s

\* thread.go:13: the root has depth 0, and each reply its parent's depth + 1.
DepthsFollowParents ==
    pc \in {"climb", "collect", "done"} =>
        \A n \in Nodes : depths[n] = IF parents[n] = NoParent THEN 0 ELSE depths[parents[n]] + 1

\* The thread is the smallest set with the anchor in it that holds the parent and
\* the replies of each of its members.
Whole(s) == \A n, m \in Nodes : parents[n] = m => (n \in s <=> m \in s)
ThreadIsWhole ==
    pc = "done" =>
        IF anchor = -1 THEN thread = {}
        ELSE /\ anchor \in thread /\ Whole(thread)
             /\ \A s \in SUBSET thread : anchor \in s /\ Whole(s) => s = thread

\* The function returns, whatever the headers say.
Returns == <>(pc = "done")
=============================================================================
