-------------------------- MODULE ThreadGraph_proofs --------------------------
(***************************************************************************)
(* Proofs about ThreadGraph, for a window of any size and any headers: the *)
(* parents stay in their range; breakParentCycles leaves no cycle, and     *)
(* cuts each cycle once; depths follow parents; the thread is the          *)
(* component of the anchor; and every step comes nearer to the end.        *)
(***************************************************************************)
EXTENDS ThreadGraph, FiniteSetTheorems, WellFoundedInduction, TLAPS

USE NType DEF Nodes, NoParent

\* The chains of the messages of g stay in g, and end.
Grounded(up, g) ==
    /\ g \in SUBSET Nodes
    /\ \A n \in g : up[n] \in g \union {NoParent}
    /\ \A s \in (SUBSET g) \ {{}} : \E n \in s : up[n] \notin s

\* v is a walk along parents that has come to c, and was nowhere twice.
Walked(up, v, c) ==
    /\ v \in SUBSET Nodes /\ c \in v
    /\ \A n \in v \ {c} : up[n] \in v
    /\ \A s \in (SUBSET (v \ {c})) \ {{}} : \E n \in s : up[n] \notin s

\* The messages before the outer loop's are grounded.
Done == \E g \in SUBSET Nodes : Grounded(parents, g) /\ 0 .. i - 1 \subseteq g

\* What breakParentCycles has achieved, in each of its loops and afterwards.
BreakInv ==
    /\ pc = "break" => Done
    /\ pc = "walk" => i < N /\ Done /\ i \in visited /\ Walked(parents, visited, cur)
    /\ Broken => Acyclic(parents)

-----------------------------------------------------------------------------
(* Type correctness *)

LEMMA InitTypeOK == Init => TypeOK
    BY DEF Init, TypeOK, Phases, NoIndex

\* The parent that headers name is another message of the window, or none.
LEMMA ParentIsOther ==
    ASSUME NEW n \in Nodes, NEW refs, NEW p, Parent(n, refs, p),
           \A id \in DOMAIN index : index[id] \in Nodes
    PROVE  p \in Nodes \union {NoParent} /\ p # n
    BY DEF Parent

LEMMA LinkingKeepsType == TypeOK /\ Linking => TypeOK'
<1> SUFFICES ASSUME TypeOK, Linking PROVE TypeOK'
    OBVIOUS
<1> USE DEF TypeOK, Phases
<1>1. CASE Index
    BY <1>1 DEF Index
<1>2. CASE Link
    <2>1. PICK refs \in Headers, p \in Nodes \union {NoParent} :
              Parent(i, refs, p) /\ parents' = [parents EXCEPT ![i] = p]
        BY <1>2 DEF Link
    <2>2. i \in Nodes
        BY <1>2 DEF Link
    <2>3. p # i
        BY <2>1, <2>2, ParentIsOther
    <2> QED
        BY <1>2, <2>1, <2>2, <2>3 DEF Link
<1>3. CASE LinkEnd
    BY <1>3 DEF LinkEnd, NoIndex
<1> QED
    BY <1>1, <1>2, <1>3 DEF Linking

LEMMA BreakingKeepsType == TypeOK /\ Breaking => TypeOK'
<1> SUFFICES ASSUME TypeOK, Breaking PROVE TypeOK'
    OBVIOUS
<1> USE DEF TypeOK, Phases
<1>1. CASE WalkStart
    BY <1>1 DEF WalkStart
<1>2. CASE Walk
    BY <1>2 DEF Walk
<1>3. CASE Cut
    BY <1>3 DEF Cut, NextWalk
<1>4. CASE WalkEnd
    BY <1>4 DEF WalkEnd, NextWalk
<1>5. CASE BreakEnd
    BY <1>5 DEF BreakEnd
<1> QED
    BY <1>1, <1>2, <1>3, <1>4, <1>5 DEF Breaking

LEMMA MeasuringKeepsType == TypeOK /\ Measuring => TypeOK'
<1> SUFFICES ASSUME TypeOK, Measuring PROVE TypeOK'
    OBVIOUS
<1> USE DEF TypeOK, Phases
<1>1. CASE DepthRoot
    <2>1. CASE parents[i] = NoParent
        <3>1. i \in Nodes
            BY <1>1 DEF DepthRoot
        <3>2. pc' = "spread" /\ i' = i /\ queue' = {i} /\ depths' = [depths EXCEPT ![i] = 0]
            BY <1>1, <2>1 DEF DepthRoot
        <3>3. depths' \in [Nodes -> Nat \union {-1}]
            BY <3>1, <3>2
        <3> QED
            BY <1>1, <3>1, <3>2, <3>3 DEF DepthRoot
    <2>2. CASE parents[i] # NoParent
        <3>1. i' = i + 1 /\ i' \in 0 .. N /\ UNCHANGED <<depths, queue, pc>> /\ pc = "depths"
            BY <1>1, <2>2 DEF DepthRoot
        <3> QED
            BY <1>1, <3>1 DEF DepthRoot
    <2> QED
        BY <2>1, <2>2
<1>2. CASE Spread
    <2>1. PICK n \in queue :
              LET fresh == {c \in Children(n) : depths[c] = -1}
              IN  /\ depths' = [c \in Nodes |-> IF c \in fresh THEN depths[n] + 1 ELSE depths[c]]
                  /\ queue' = (queue \ {n}) \union fresh
        BY <1>2 DEF Spread
    <2>2. depths[n] + 1 \in Nat \union {-1}
        BY DEF Children
    <2>3. depths' \in [Nodes -> Nat \union {-1}] /\ queue' \in SUBSET Nodes
        BY <2>1, <2>2 DEF Children
    <2> QED
        BY <1>2, <2>3 DEF Spread
<1>3. CASE SpreadEnd
    BY <1>3 DEF SpreadEnd
<1>4. CASE DepthsEnd
    BY <1>4 DEF DepthsEnd
<1> QED
    BY <1>1, <1>2, <1>3, <1>4 DEF Measuring

LEMMA CollectingKeepsType == TypeOK /\ Collecting => TypeOK'
<1> SUFFICES ASSUME TypeOK, Collecting PROVE TypeOK'
    OBVIOUS
<1> USE DEF TypeOK, Phases
<1>1. CASE Climb
    BY <1>1 DEF Climb
<1>2. CASE Top
    BY <1>2 DEF Top
<1>3. CASE Collect
    BY <1>3 DEF Collect, Children
<1>4. CASE CollectEnd
    BY <1>4 DEF CollectEnd
<1> QED
    BY <1>1, <1>2, <1>3, <1>4 DEF Collecting

LEMMA NextKeepsType == TypeOK /\ [Next]_vars => TypeOK'
<1>1. TypeOK /\ UNCHANGED vars => TypeOK'
    BY DEF TypeOK, vars
<1> QED
    BY <1>1, LinkingKeepsType, BreakingKeepsType, MeasuringKeepsType, CollectingKeepsType
    DEF Next

\* The variables of BuildGraph stay in their ranges, whatever the window and the
\* headers: no message is its own parent, and no index leaves the window.
THEOREM TypeCorrect == Spec => []TypeOK
    BY InitTypeOK, NextKeepsType, PTL DEF Spec

-----------------------------------------------------------------------------
(* The cycles are broken *)

\* A walk that is cut where it has come to, or has ended there, joins the grounded.
LEMMA Join ==
    ASSUME NEW up \in [Nodes -> Nodes \union {NoParent}],
           NEW g, Grounded(up, g),
           NEW v, NEW c, Walked(up, v, c)
    PROVE  Grounded([up EXCEPT ![c] = NoParent], g \union v)
<1> DEFINE upp == [up EXCEPT ![c] = NoParent]
<1>1. /\ c \in Nodes /\ upp[c] = NoParent
      /\ \A n \in Nodes \ {c} : upp[n] = up[n]
      /\ NoParent \notin Nodes
    BY DEF Walked
<1> HIDE DEF upp
<1>2. \A n \in g \union v : upp[n] \in (g \union v) \union {NoParent}
    BY <1>1 DEF Grounded, Walked
<1>3. ASSUME NEW s \in SUBSET (g \union v), s # {}
      PROVE  \E n \in s : upp[n] \notin s
    <2>1. CASE c \in s
        BY <1>1, <1>3, <2>1 DEF Grounded, Walked
    <2>2. CASE c \notin s /\ s \intersect v # {}
        <3>1. s \intersect v \in (SUBSET (v \ {c})) \ {{}}
            BY <2>2
        <3>2. PICK n \in s \intersect v : up[n] \notin s \intersect v
            BY <3>1 DEF Walked
        <3>3. up[n] \in v /\ n \in Nodes \ {c}
            BY <2>2, <3>2 DEF Walked
        <3> QED
            BY <1>1, <3>2, <3>3
    <2>3. CASE c \notin s /\ s \intersect v = {}
        <3>1. s \in (SUBSET g) \ {{}}
            BY <1>3, <2>3
        <3>2. PICK n \in s : up[n] \notin s
            BY <3>1 DEF Grounded
        <3>3. n \in Nodes \ {c}
            BY <2>3, <3>1, <3>2 DEF Grounded
        <3> QED
            BY <1>1, <3>2, <3>3
    <2> QED
        BY <2>1, <2>2, <2>3
<1>4. g \union v \in SUBSET Nodes
    BY DEF Grounded, Walked
<1> QED
    BY <1>2, <1>3, <1>4 DEF Grounded, upp

\* One step of the inner loop leads to a message it has not been at.
LEMMA Longer ==
    ASSUME NEW up \in [Nodes -> Nodes \union {NoParent}],
           NEW v, NEW c, Walked(up, v, c), up[c] # NoParent, up[c] \notin v
    PROVE  Walked(up, v \union {up[c]}, up[c])
<1> DEFINE d == up[c]
<1>1. c \in v /\ v \in SUBSET Nodes /\ d \in Nodes
    BY DEF Walked
<1>2. (v \union {d}) \ {d} = v
    OBVIOUS
<1>3. \A n \in v : up[n] \in v \union {d}
    BY DEF Walked
<1>4. ASSUME NEW s \in SUBSET v, s # {}
      PROVE  \E n \in s : up[n] \notin s
    <2>1. CASE c \in s
        BY <2>1
    <2>2. CASE c \notin s
        BY <1>4, <2>2 DEF Walked
    <2> QED
        BY <2>1, <2>2
<1> QED
    BY <1>1, <1>2, <1>3, <1>4 DEF Walked

\* A turn of the outer loop leaves its message grounded, too.
LEMMA TurnGrounds ==
    ASSUME TypeOK, BreakInv, pc = "walk",
           parents' = [parents EXCEPT ![cur] = NoParent], i' = i + 1
    PROVE  Done'
<1>1. PICK g \in SUBSET Nodes : Grounded(parents, g) /\ 0 .. i - 1 \subseteq g
    BY DEF BreakInv, Done
<1>2. Walked(parents, visited, cur) /\ i \in visited /\ visited \in SUBSET Nodes /\ i \in 0 .. N
    BY DEF BreakInv, TypeOK
<1>3. Grounded(parents', g \union visited)
    BY <1>1, <1>2, Join DEF TypeOK
<1>4. 0 .. i' - 1 \subseteq g \union visited
    BY <1>1, <1>2
<1>5. g \union visited \in SUBSET Nodes
    BY <1>1, <1>2
<1> QED
    BY <1>3, <1>4, <1>5 DEF Done

LEMMA InitBreakInv == Init => BreakInv
    BY DEF Init, BreakInv, Broken

LEMMA LinkingKeepsBreakInv == TypeOK /\ BreakInv /\ Linking => BreakInv'
<1> SUFFICES ASSUME TypeOK, BreakInv, Linking PROVE BreakInv'
    OBVIOUS
<1>1. CASE Index
    BY <1>1 DEF Index, BreakInv, Broken
<1>2. CASE Link
    BY <1>2 DEF Link, BreakInv, Broken
<1>3. CASE LinkEnd
    <2>1. pc' = "break" /\ i' = 0
        BY <1>3 DEF LinkEnd
    <2>2. Grounded(parents', {}) /\ 0 .. i' - 1 = {}
        BY <2>1 DEF Grounded
    <2>3. Done'
        BY <2>2 DEF Done
    <2> QED
        BY <2>1, <2>3 DEF BreakInv, Broken
<1> QED
    BY <1>1, <1>2, <1>3 DEF Linking

LEMMA BreakingKeepsBreakInv == TypeOK /\ BreakInv /\ Breaking => BreakInv'
<1> SUFFICES ASSUME TypeOK, BreakInv, Breaking PROVE BreakInv'
    OBVIOUS
<1>1. CASE WalkStart
    <2>1. pc = "break" /\ pc' = "walk" /\ i < N /\ cur' = i /\ visited' = {i}
          /\ UNCHANGED <<parents, i>> /\ i \in Nodes
        BY <1>1 DEF WalkStart, TypeOK
    <2>2. Walked(parents', visited', cur')
        BY <2>1 DEF Walked
    <2>3. Done'
        BY <2>1 DEF BreakInv, Done
    <2> QED
        BY <2>1, <2>2, <2>3 DEF BreakInv, Broken
<1>2. CASE Walk
    <2>1. pc = "walk" /\ parents[cur] # NoParent /\ parents[cur] \notin visited
          /\ cur' = parents[cur] /\ visited' = visited \union {cur'}
          /\ UNCHANGED <<pc, parents, i>>
        BY <1>2 DEF Walk
    <2>2. Walked(parents', visited', cur')
        BY <2>1, Longer DEF BreakInv, TypeOK
    <2>3. Done'
        BY <2>1 DEF BreakInv, Done
    <2> QED
        BY <2>1, <2>2, <2>3 DEF BreakInv, Broken
<1>3. CASE Cut
    <2>1. pc = "walk" /\ pc' = "break" /\ i' = i + 1
          /\ parents' = [parents EXCEPT ![cur] = NoParent]
        BY <1>3 DEF Cut, NextWalk
    <2> QED
        BY <2>1, TurnGrounds DEF BreakInv, Broken
<1>4. CASE WalkEnd
    <2>1. pc = "walk" /\ pc' = "break" /\ i' = i + 1
          /\ parents' = parents /\ parents[cur] = NoParent
        BY <1>4 DEF WalkEnd, NextWalk
    <2>2. parents' = [parents EXCEPT ![cur] = NoParent]
        BY <2>1 DEF TypeOK
    <2> QED
        BY <2>1, <2>2, TurnGrounds DEF BreakInv, Broken
<1>5. CASE BreakEnd
    <2>1. pc = "break" /\ pc' = "depths" /\ i = N /\ parents' = parents
        BY <1>5 DEF BreakEnd
    <2>2. PICK g \in SUBSET Nodes : Grounded(parents, g) /\ 0 .. N - 1 \subseteq g
        BY <2>1 DEF BreakInv, Done
    <2>3. Acyclic(parents)
        BY <2>2 DEF Grounded, Acyclic
    <2>4. Acyclic(parents)'
        BY <2>1, <2>3 DEF Acyclic
    <2> QED
        BY <2>1, <2>4 DEF BreakInv
<1> QED
    BY <1>1, <1>2, <1>3, <1>4, <1>5 DEF Breaking

\* What comes after leaves the parents as they are.
LEMMA AfterwardsKeepsBreakInv == BreakInv /\ (Measuring \/ Collecting) => BreakInv'
<1> SUFFICES ASSUME BreakInv, Measuring \/ Collecting PROVE BreakInv'
    OBVIOUS
<1>1. Broken /\ parents' = parents /\ pc' \notin {"break", "walk"}
    BY DEF Measuring, Collecting, Broken, DepthRoot, Spread, SpreadEnd, DepthsEnd,
           Climb, Top, Collect, CollectEnd
<1>2. Acyclic(parents)'
    BY <1>1 DEF BreakInv, Acyclic
<1> QED
    BY <1>1, <1>2 DEF BreakInv

LEMMA NextKeepsBreakInv == TypeOK /\ BreakInv /\ [Next]_vars => BreakInv'
<1>1. BreakInv /\ UNCHANGED vars => BreakInv'
    BY DEF BreakInv, Done, Broken, Acyclic, Walked, Grounded, vars
<1> QED
    BY <1>1, LinkingKeepsBreakInv, BreakingKeepsBreakInv, AfterwardsKeepsBreakInv DEF Next

\* breakParentCycles does what its comment says (thread.go:170): whatever links
\* forged headers make, every chain of parents ends afterwards, and with it the
\* walk from the anchor to its root.
THEOREM ChainsAlwaysEnd == Spec => []ChainsEnd
<1>1. BreakInv => ChainsEnd
    BY DEF BreakInv, ChainsEnd
<1> QED
    BY <1>1, InitTypeOK, NextKeepsType, InitBreakInv, NextKeepsBreakInv, PTL DEF Spec

-----------------------------------------------------------------------------
(* What breaking the cycles costs *)

\* The messages that were cut off.
Lost == {n \in Nodes : parents[n] # linked[n]}

\* From the first turn of the outer loop: the cut-off messages are roots, each on a
\* cycle of the links, and no cycle has two.
LostInv ==
    pc \notin {"index", "link"} =>
        /\ \A n \in Lost : parents[n] = NoParent
        /\ \A n \in Lost : \E s \in SUBSET Nodes : Cycle(s) /\ n \in s
        /\ \A s \in SUBSET Nodes : Cycle(s) =>
               \A m, n \in s \intersect Lost : m = n

\* The links a walk has run back into hold a cycle, on which it stands, and none of
\* the cycle is cut off.
LEMMA CycleUnderCut ==
    ASSUME TypeOK, BreakInv, LostInv, pc = "walk", parents[cur] \in visited
    PROVE  \E s \in SUBSET visited :
               Cycle(s) /\ cur \in s /\ s \intersect Lost = {}
               /\ \A t \in SUBSET Nodes : (Cycle(t) /\ cur \in t) => t = s
<1>1. /\ visited \in SUBSET Nodes /\ cur \in visited /\ NoParent \notin Nodes
      /\ \A n \in visited : parents[n] \in visited
      /\ \A s \in (SUBSET (visited \ {cur})) \ {{}} : \E n \in s : parents[n] \notin s
    BY DEF BreakInv, Walked
<1>2. \A n \in visited : n \notin Lost /\ linked[n] = parents[n]
    BY <1>1 DEF LostInv, Lost
<1> DEFINE Closed(s) == \A n \in s : linked[n] \in s
           C == {n \in visited : \A s \in SUBSET visited : (Closed(s) /\ cur \in s) => n \in s}
<1>3. cur \in C /\ C \in SUBSET visited
    BY <1>1
<1>4. Closed(C)
    BY <1>1, <1>2
<1>5. ASSUME NEW t \in (SUBSET C) \ {{}, C}
      PROVE  \E n \in t : linked[n] \notin t
    <2> SUFFICES ASSUME Closed(t) PROVE FALSE
        OBVIOUS
    <2>1. t \in SUBSET visited
        BY <1>3
    <2>2. CASE cur \in t
        <3>1. C \subseteq t
            BY <2>1, <2>2
        <3> QED
            BY <3>1, <1>5
    <2>3. CASE cur \notin t
        <3>1. t \in (SUBSET (visited \ {cur})) \ {{}}
            BY <1>5, <2>1, <2>3
        <3>2. \A n \in t : parents[n] \in t
            BY <1>2, <2>1
        <3> QED
            BY <1>1, <3>1, <3>2
    <2> QED
        BY <2>2, <2>3
<1>6. Cycle(C)
    BY <1>3, <1>4, <1>5 DEF Cycle
<1>7. ASSUME NEW t \in SUBSET Nodes, Cycle(t), cur \in t
      PROVE  t = C
    <2>1. Closed(t)
        BY <1>7 DEF Cycle
    <2>2. t \intersect visited \in SUBSET visited /\ cur \in t \intersect visited
        BY <1>1, <1>7
    <2>3. Closed(t \intersect visited)
        BY <1>1, <1>2, <2>1
    <2>4. C \subseteq t
        BY <2>2, <2>3
    <2> HIDE DEF C
    <2>5. C # {}
        BY <1>3
    <2> QED
        BY <1>4, <1>7, <2>4, <2>5 DEF Cycle
<1> HIDE DEF C
<1>8. C \intersect Lost = {}
    BY <1>2, <1>3
<1> QED
    BY <1>3, <1>6, <1>7, <1>8

LEMMA NextKeepsLostInv == TypeOK /\ BreakInv /\ LostInv /\ [Next]_vars => LostInv'
<1> SUFFICES ASSUME TypeOK, BreakInv, LostInv, [Next]_vars PROVE LostInv'
    OBVIOUS
<1>1. CASE UNCHANGED <<parents, linked>> /\ (pc' = pc \/ pc \notin {"index", "link"})
    <2>1. Lost' = Lost /\ \A s : Cycle(s)' <=> Cycle(s)
        BY <1>1 DEF Lost, Cycle
    <2> QED
        BY <1>1, <2>1 DEF LostInv
<1>2. CASE Index \/ Link
    BY <1>2 DEF Index, Link, LostInv
<1>3. CASE LinkEnd
    <2>1. Lost' = {}
        BY <1>3 DEF LinkEnd, Lost
    <2> QED
        BY <2>1 DEF LostInv
<1>4. CASE Cut
    <2>1. /\ pc = "walk" /\ parents[cur] \in visited /\ linked' = linked
          /\ parents' = [parents EXCEPT ![cur] = NoParent]
        BY <1>4 DEF Cut, NextWalk
    <2>2. PICK s \in SUBSET visited :
              Cycle(s) /\ cur \in s /\ s \intersect Lost = {}
              /\ \A t \in SUBSET Nodes : (Cycle(t) /\ cur \in t) => t = s
        BY <2>1, CycleUnderCut
    <2>3. cur \in Nodes /\ s \in SUBSET Nodes /\ parents \in [Nodes -> Nodes \union {NoParent}]
        BY <2>1 DEF TypeOK
    <2>4. Lost' \subseteq Lost \union {cur}
        BY <2>1, <2>3 DEF Lost
    <2>5. \A t : Cycle(t)' <=> Cycle(t)
        BY <2>1 DEF Cycle
    <2>6. /\ \A n \in Lost : parents[n] = NoParent
          /\ \A n \in Lost : \E t \in SUBSET Nodes : Cycle(t) /\ n \in t
          /\ \A t \in SUBSET Nodes : Cycle(t) => \A m, n \in t \intersect Lost : m = n
        BY <2>1 DEF LostInv
    <2>7. \A n \in Lost' : parents'[n] = NoParent
        BY <2>1, <2>3, <2>4, <2>6
    <2>8. \A n \in Lost' : \E t \in SUBSET Nodes : Cycle(t) /\ n \in t
        BY <2>2, <2>3, <2>4, <2>6
    <2>9. ASSUME NEW t \in SUBSET Nodes, Cycle(t), NEW m \in t \intersect Lost',
                 NEW n \in t \intersect Lost'
          PROVE  m = n
        <3>1. CASE cur \in t
            <4>1. t = s
                BY <2>2, <2>9, <3>1
            <4> QED
                BY <2>2, <2>4, <4>1
        <3>2. CASE cur \notin t
            BY <2>4, <2>6, <2>9, <3>2
        <3> QED
            BY <3>1, <3>2
    <2> QED
        BY <2>5, <2>7, <2>8, <2>9 DEF LostInv
<1>5. \/ Index \/ Link \/ LinkEnd \/ Cut
      \/ UNCHANGED <<parents, linked>> /\ (pc' = pc \/ pc \notin {"index", "link"})
    BY DEF Next, vars, Linking, Breaking, Measuring, Collecting, WalkStart, Walk, WalkEnd,
       NextWalk, BreakEnd, DepthRoot, Spread, SpreadEnd, DepthsEnd, Climb, Top, Collect,
       CollectEnd
<1> QED
    BY <1>1, <1>2, <1>3, <1>4, <1>5

\* Every cycle of the links loses exactly one, and nothing else is lost, for a window
\* of any size.
THEOREM OneLostPerCycle == Spec => []OneLinkPerCycle
<1>1. Init => LostInv
    BY DEF Init, LostInv
<1>2. TypeOK /\ BreakInv /\ LostInv => OneLinkPerCycle
    <2> SUFFICES ASSUME TypeOK, BreakInv, LostInv, Broken PROVE OneLinkPerCycle
        BY DEF OneLinkPerCycle
    <2>1. /\ \A n \in Lost : parents[n] = NoParent
          /\ \A n \in Lost : \E t \in SUBSET Nodes : Cycle(t) /\ n \in t
          /\ \A t \in SUBSET Nodes : Cycle(t) => \A m, n \in t \intersect Lost : m = n
        BY DEF LostInv, Broken
    <2>2. ASSUME NEW s \in SUBSET Nodes, Cycle(s)
          PROVE  Cardinality(s \intersect Lost) = 1
        <3>1. PICK n \in s : parents[n] \notin s
            BY <2>2 DEF BreakInv, Acyclic, Cycle
        <3>2. n \in Lost
            BY <2>2, <3>1 DEF Cycle, Lost
        <3>3. \A m \in s \intersect Lost : m = n
            BY <2>1, <2>2, <3>1, <3>2
        <3>4. s \intersect Lost = {n}
            BY <3>1, <3>2, <3>3
        <3> QED
            BY <3>4, FS_Singleton
    <2> QED
        BY <2>1, <2>2 DEF OneLinkPerCycle, Lost
<1> QED
    BY <1>1, <1>2, InitTypeOK, NextKeepsType, InitBreakInv, NextKeepsBreakInv,
       NextKeepsLostInv, PTL DEF Spec

-----------------------------------------------------------------------------
(* Depths *)

\* Message n has its depth, and so has its parent.
Deep(n) ==
    IF parents[n] = NoParent THEN depths[n] = 0
                             ELSE depths[parents[n]] # -1 /\ depths[n] = depths[parents[n]] + 1

\* What the walks have measured is right; the replies of what they have measured are
\* measured or about to be; and the roots before i are measured.
DepthInv ==
    /\ ~Broken => depths = [n \in Nodes |-> -1]
    /\ pc \in {"index", "link", "break", "walk", "depths"} => queue = {}
    /\ pc \in {"depths", "spread"} =>
           /\ \A n \in Nodes : depths[n] # -1 => Deep(n)
           /\ \A n \in queue : depths[n] # -1
           /\ \A n \in Nodes : depths[n] # -1 /\ n \notin queue =>
                  \A c \in Children(n) : depths[c] # -1
           /\ \A n \in Nodes : parents[n] = NoParent /\ (n < i \/ (pc = "spread" /\ n = i))
                  => depths[n] # -1
    /\ pc \in {"climb", "collect", "done"} => \A n \in Nodes : Deep(n)

\* A turn of the walk measures the unmeasured replies of one message.
LEMMA SpreadKeepsDepthInv == TypeOK /\ DepthInv /\ Spread => DepthInv'
<1> SUFFICES ASSUME TypeOK, DepthInv, Spread PROVE DepthInv'
    OBVIOUS
<1>1. PICK q \in queue :
          LET fresh == {c \in Children(q) : depths[c] = -1}
          IN  /\ depths' = [c \in Nodes |-> IF c \in fresh THEN depths[q] + 1 ELSE depths[c]]
              /\ queue' = (queue \ {q}) \union fresh
    BY DEF Spread
<1> DEFINE fresh == {c \in Children(q) : depths[c] = -1}
<1>2. /\ pc = "spread" /\ pc' = "spread" /\ UNCHANGED <<parents, i>>
      /\ depths' = [c \in Nodes |-> IF c \in fresh THEN depths[q] + 1 ELSE depths[c]]
      /\ queue' = (queue \ {q}) \union fresh
    BY <1>1 DEF Spread
<1>3. /\ queue \in SUBSET Nodes /\ q \in Nodes
      /\ parents \in [Nodes -> Nodes \union {NoParent}]
      /\ depths \in [Nodes -> Nat \union {-1}]
    BY DEF TypeOK
<1>4. /\ \A n \in Nodes : depths[n] # -1 => Deep(n)
      /\ \A n \in queue : depths[n] # -1
      /\ \A n \in Nodes : depths[n] # -1 /\ n \notin queue =>
             \A c \in Children(n) : depths[c] # -1
      /\ \A n \in Nodes : parents[n] = NoParent /\ (n < i \/ n = i) => depths[n] # -1
    BY <1>2 DEF DepthInv
<1>5. /\ fresh \in SUBSET Nodes
      /\ \A c \in fresh : parents[c] = q /\ depths[c] = -1
      /\ \A c \in Children(q) : c \in fresh \/ depths[c] # -1
    BY DEF Children
<1> HIDE DEF fresh
<1>6. depths[q] \in Nat /\ q \notin fresh
    BY <1>3, <1>4, <1>5
<1>7. /\ \A c \in fresh : depths'[c] = depths[q] + 1 /\ depths'[c] # -1
      /\ \A c \in Nodes \ fresh : depths'[c] = depths[c]
      /\ depths'[q] = depths[q]
    BY <1>2, <1>3, <1>5, <1>6
<1>8. ASSUME NEW n \in Nodes, depths'[n] # -1 PROVE Deep(n)'
    <2>1. CASE n \in fresh
        BY <1>2, <1>3, <1>5, <1>6, <1>7, <2>1 DEF Deep
    <2>2. CASE n \notin fresh
        <3>1. depths'[n] = depths[n] /\ Deep(n)
            BY <1>4, <1>7, <1>8, <2>2
        <3>2. CASE parents[n] = NoParent
            BY <1>2, <3>1, <3>2 DEF Deep
        <3>3. CASE parents[n] # NoParent
            <4>1. parents[n] \in Nodes /\ depths[parents[n]] # -1
                BY <1>3, <3>1, <3>3 DEF Deep
            <4>2. parents[n] \notin fresh
                BY <1>5, <4>1
            <4> QED
                BY <1>2, <1>7, <3>1, <3>3, <4>1, <4>2 DEF Deep
        <3> QED
            BY <3>2, <3>3
    <2> QED
        BY <2>1, <2>2
<1>9. \A n \in queue' : depths'[n] # -1
    BY <1>2, <1>3, <1>4, <1>7
<1>10. ASSUME NEW n \in Nodes, depths'[n] # -1, n \notin queue', NEW c \in Children(n)'
       PROVE  depths'[c] # -1
    <2>1. c \in Children(n) /\ c \in Nodes /\ n \notin fresh
        BY <1>2, <1>10 DEF Children
    <2>2. c \in fresh \/ depths[c] # -1
        <3>1. CASE n = q
            BY <1>5, <2>1, <3>1
        <3>2. CASE n # q
            BY <1>2, <1>4, <1>7, <1>10, <2>1, <3>2
        <3> QED
            BY <3>1, <3>2
    <2> QED
        BY <1>7, <2>1, <2>2
<1>11. \A n \in Nodes : depths[n] # -1 => depths'[n] # -1
    BY <1>7
<1>12. \A n \in Nodes : parents'[n] = NoParent /\ (n < i' \/ n = i') => depths'[n] # -1
    BY <1>2, <1>4, <1>11
<1> QED
    BY <1>2, <1>8, <1>9, <1>10, <1>12 DEF DepthInv, Broken

\* A walk starts at a root, which has been measured, if at all, as one.
LEMMA DepthRootKeepsDepthInv == TypeOK /\ DepthInv /\ DepthRoot => DepthInv'
<1> SUFFICES ASSUME TypeOK, DepthInv, DepthRoot PROVE DepthInv'
    OBVIOUS
<1>1. /\ pc = "depths" /\ i \in Nodes /\ parents' = parents /\ queue = {}
      /\ parents \in [Nodes -> Nodes \union {NoParent}]
      /\ depths \in [Nodes -> Nat \union {-1}]
    BY DEF DepthRoot, TypeOK, DepthInv
<1>2. /\ \A n \in Nodes : depths[n] # -1 => Deep(n)
      /\ \A n \in Nodes : depths[n] # -1 => \A c \in Children(n) : depths[c] # -1
      /\ \A n \in Nodes : parents[n] = NoParent /\ n < i => depths[n] # -1
    BY <1>1 DEF DepthInv
<1>3. CASE parents[i] = NoParent
    <2>1. /\ pc' = "spread" /\ i' = i /\ queue' = {i}
          /\ depths' = [depths EXCEPT ![i] = 0]
        BY <1>3 DEF DepthRoot
    <2>2. depths'[i] = 0 /\ \A n \in Nodes \ {i} : depths'[n] = depths[n]
        BY <1>1, <2>1
    <2>3. depths[i] # -1 => depths[i] = 0
        BY <1>1, <1>2, <1>3 DEF Deep
    <2>4. \A n \in Nodes : depths[n] # -1 => depths'[n] = depths[n]
        BY <1>1, <2>2, <2>3
    <2>5. ASSUME NEW n \in Nodes, depths'[n] # -1 PROVE Deep(n)'
        <3>1. CASE n = i
            BY <1>1, <1>3, <2>2, <3>1 DEF Deep
        <3>2. CASE n # i
            <4>1. depths'[n] = depths[n] /\ Deep(n)
                BY <1>2, <2>2, <2>5, <3>2
            <4>2. parents[n] # NoParent => parents[n] \in Nodes
                BY <1>1
            <4> QED
                BY <1>1, <2>4, <4>1, <4>2 DEF Deep
        <3> QED
            BY <3>1, <3>2
    <2>6. ASSUME NEW n \in Nodes, depths'[n] # -1, n \notin queue', NEW c \in Children(n)'
          PROVE  depths'[c] # -1
        <3>1. c \in Children(n) /\ c \in Nodes /\ n # i
            BY <1>1, <2>1, <2>6 DEF Children
        <3>2. depths[c] # -1
            BY <1>2, <2>2, <2>6, <3>1
        <3> QED
            BY <2>4, <3>1, <3>2
    <2>7. \A n \in Nodes : parents'[n] = NoParent /\ (n < i' \/ n = i') => depths'[n] # -1
        BY <1>1, <1>2, <2>1, <2>2, <2>4
    <2> QED
        BY <2>1, <2>2, <2>5, <2>6, <2>7 DEF DepthInv, Broken
<1>4. CASE parents[i] # NoParent
    <2>1. pc' = "depths" /\ i' = i + 1 /\ UNCHANGED <<depths, queue, parents>>
        BY <1>1, <1>4 DEF DepthRoot
    <2>2. \A n \in Nodes : parents[n] = NoParent /\ n < i + 1 => depths[n] # -1
        BY <1>1, <1>2, <1>4
    <2>3. \A n \in Nodes : Deep(n)' <=> Deep(n)
        BY <2>1 DEF Deep
    <2>4. \A n \in Nodes : Children(n)' = Children(n)
        BY <2>1 DEF Children
    <2> QED
        BY <1>1, <1>2, <2>1, <2>2, <2>3, <2>4 DEF DepthInv, Broken
<1> QED
    BY <1>3, <1>4

\* When every root is measured, so is every message, as every chain ends.
LEMMA AllMeasured ==
    ASSUME TypeOK, BreakInv, DepthInv, pc = "depths", i = N
    PROVE  \A n \in Nodes : Deep(n)
<1> DEFINE u == {n \in Nodes : depths[n] = -1}
<1>1. /\ parents \in [Nodes -> Nodes \union {NoParent}] /\ Acyclic(parents) /\ queue = {}
      /\ \A n \in Nodes : depths[n] # -1 => Deep(n)
      /\ \A n \in Nodes : depths[n] # -1 /\ n \notin queue =>
             \A c \in Children(n) : depths[c] # -1
      /\ \A n \in Nodes : parents[n] = NoParent /\ n < i => depths[n] # -1
    BY DEF TypeOK, BreakInv, DepthInv, Broken
<1>2. ASSUME u # {} PROVE FALSE
    <2>1. PICK n \in u : parents[n] \notin u
        BY <1>1, <1>2 DEF Acyclic
    <2>2. CASE parents[n] = NoParent
        BY <1>1, <2>1, <2>2
    <2>3. CASE parents[n] # NoParent
        <3>1. parents[n] \in Nodes /\ depths[parents[n]] # -1 /\ n \in Children(parents[n])
            BY <1>1, <2>1, <2>3 DEF Children
        <3> QED
            BY <1>1, <2>1, <3>1
    <2> QED
        BY <2>2, <2>3
<1> QED
    BY <1>1, <1>2

LEMMA NextKeepsDepthInv == TypeOK /\ BreakInv /\ DepthInv /\ [Next]_vars => DepthInv'
<1> SUFFICES ASSUME TypeOK, BreakInv, DepthInv, [Next]_vars PROVE DepthInv'
    OBVIOUS
<1>1. CASE Linking \/ WalkStart \/ Walk \/ Cut \/ WalkEnd
    <2>1. /\ pc \in {"index", "link", "break", "walk"} /\ pc' \in {"index", "link", "break", "walk"}
          /\ UNCHANGED <<depths, queue>>
        BY <1>1 DEF Linking, Index, Link, LinkEnd, WalkStart, Walk, Cut, WalkEnd, NextWalk
    <2> QED
        BY <2>1 DEF DepthInv, Broken
<1>2. CASE BreakEnd
    <2>1. /\ pc = "break" /\ pc' = "depths" /\ i' = 0 /\ queue' = {}
          /\ depths' = [n \in Nodes |-> -1]
        BY <1>2 DEF BreakEnd, DepthInv, Broken
    <2>2. \A n \in Nodes : depths'[n] = -1 /\ ~(n < i')
        BY <2>1
    <2> QED
        BY <2>1, <2>2 DEF DepthInv, Broken
<1>3. CASE DepthRoot \/ Spread
    BY <1>3, DepthRootKeepsDepthInv, SpreadKeepsDepthInv
<1>4. CASE SpreadEnd
    <2>1. /\ pc = "spread" /\ pc' = "depths" /\ i' = i + 1 /\ queue = {} /\ i \in Nodes
          /\ UNCHANGED <<depths, queue, parents>>
        BY <1>4 DEF SpreadEnd, TypeOK
    <2>2. \A n \in Nodes : parents[n] = NoParent /\ n < i + 1 => depths[n] # -1
        BY <2>1 DEF DepthInv
    <2>3. \A n \in Nodes : (Deep(n)' <=> Deep(n)) /\ Children(n)' = Children(n)
        BY <2>1 DEF Deep, Children
    <2> QED
        BY <2>1, <2>2, <2>3 DEF DepthInv, Broken
<1>5. CASE DepthsEnd
    <2>1. /\ pc = "depths" /\ i = N /\ pc' \in {"done", "climb"}
          /\ UNCHANGED <<depths, parents>>
        BY <1>5 DEF DepthsEnd
    <2>2. \A n \in Nodes : Deep(n)
        BY <2>1, AllMeasured
    <2> QED
        BY <2>1, <2>2 DEF DepthInv, Deep, Broken
<1>6. CASE Collecting
    <2>1. /\ pc \in {"climb", "collect"} /\ pc' \in {"climb", "collect", "done"}
          /\ UNCHANGED <<depths, parents>>
        BY <1>6 DEF Collecting, Climb, Top, Collect, CollectEnd
    <2> QED
        BY <2>1 DEF DepthInv, Deep, Broken
<1>7. CASE UNCHANGED vars
    BY <1>7 DEF vars, DepthInv, Deep, Children, Broken
<1> QED
    BY <1>1, <1>2, <1>3, <1>4, <1>5, <1>6, <1>7 DEF Next, Breaking, Measuring

\* A root has depth 0 and a reply its parent's and one, for a window of any size and
\* any headers.
THEOREM DepthsAreRight == Spec => []DepthsFollowParents
<1>1. Init => DepthInv
    BY DEF Init, DepthInv, Broken
<1>2. DepthInv => DepthsFollowParents
    BY DEF DepthInv, DepthsFollowParents, Deep
<1> QED
    BY <1>1, <1>2, InitTypeOK, NextKeepsType, InitBreakInv, NextKeepsBreakInv,
       NextKeepsDepthInv, PTL DEF Spec

-----------------------------------------------------------------------------
(* The thread of the anchor *)

\* Whatever whole set one of the two is in, the other is in it.
Together(a, b) == \A s \in SUBSET Nodes : Whole(s) => (a \in s <=> b \in s)

\* On the way up cur is a relation of the anchor; from the top, which is cur, the
\* thread grows by relations, and lacks replies of those in the queue only.
ThreadInv ==
    /\ anchor \in Nodes \union {-1}
    /\ pc \in {"climb", "collect"} => anchor \in Nodes /\ Together(anchor, cur)
    /\ pc \notin {"collect", "done"} \/ anchor = -1 => thread = {}
    /\ pc \in {"collect", "done"} /\ anchor # -1 =>
           /\ Together(anchor, cur) /\ cur \in thread /\ parents[cur] = NoParent
           /\ \A n \in thread : Together(n, cur)
           /\ \A n \in thread : n = cur \/ parents[n] \in thread
           /\ queue \subseteq thread
           /\ \A n \in thread \ queue : Children(n) \subseteq thread
           /\ pc = "done" => queue = {}

LEMMA NextKeepsThreadInv == TypeOK /\ ThreadInv /\ [Next]_vars => ThreadInv'
<1> SUFFICES ASSUME TypeOK, ThreadInv, [Next]_vars PROVE ThreadInv'
    OBVIOUS
<1>0. parents \in [Nodes -> Nodes \union {NoParent}] /\ anchor \in Nodes \union {-1}
      /\ thread \in SUBSET Nodes
    BY DEF TypeOK
<1>1. CASE Linking \/ Breaking \/ DepthRoot \/ Spread \/ SpreadEnd
    <2>1. /\ pc \notin {"climb", "collect", "done"} /\ pc' \notin {"climb", "collect", "done"}
          /\ UNCHANGED <<anchor, thread>>
        BY <1>1 DEF Linking, Index, Link, LinkEnd, Breaking, WalkStart, Walk, Cut, WalkEnd,
           NextWalk, BreakEnd, DepthRoot, Spread, SpreadEnd
    <2> QED
        BY <1>0, <2>1 DEF ThreadInv
<1>2. CASE DepthsEnd
    <2>1. pc = "depths" /\ UNCHANGED <<anchor, thread, parents>> /\ thread = {}
        BY <1>2 DEF DepthsEnd, ThreadInv
    <2>2. CASE anchor = -1
        BY <1>2, <2>1, <2>2 DEF DepthsEnd, ThreadInv
    <2>3. CASE anchor # -1
        <3>1. pc' = "climb" /\ cur' = anchor /\ anchor \in Nodes
            BY <1>0, <1>2, <2>3 DEF DepthsEnd
        <3>2. Together(anchor, cur)'
            BY <2>1, <3>1 DEF Together
        <3> QED
            BY <2>1, <2>3, <3>1, <3>2 DEF ThreadInv
    <2> QED
        BY <2>2, <2>3
<1>3. CASE Climb
    <2>1. /\ pc = "climb" /\ pc' = "climb" /\ cur' = parents[cur] /\ parents[cur] # NoParent
          /\ UNCHANGED <<anchor, thread, parents>> /\ cur \in Nodes
        BY <1>3 DEF Climb, TypeOK
    <2>2. anchor \in Nodes /\ Together(anchor, cur) /\ thread = {}
        BY <2>1 DEF ThreadInv
    <2>3. \A s \in SUBSET Nodes : Whole(s)' <=> Whole(s)
        BY <2>1 DEF Whole
    <2>4. \A s \in SUBSET Nodes : Whole(s) => (cur \in s <=> parents[cur] \in s)
        BY <1>0, <2>1 DEF Whole
    <2>5. Together(anchor, cur)'
        BY <2>1, <2>2, <2>3, <2>4 DEF Together
    <2> QED
        BY <2>1, <2>2, <2>5 DEF ThreadInv
<1>4. CASE Top
    <2>1. /\ pc = "climb" /\ pc' = "collect" /\ parents[cur] = NoParent
          /\ queue' = {cur} /\ thread' = {cur} /\ UNCHANGED <<anchor, cur, parents>>
        BY <1>4 DEF Top
    <2>2. anchor \in Nodes /\ Together(anchor, cur)
        BY <2>1 DEF ThreadInv
    <2>3. \A a, b : Together(a, b)' <=> Together(a, b)
        BY <2>1 DEF Together, Whole
    <2>4. Together(cur, cur)
        BY DEF Together
    <2>5. Together(anchor, cur)' /\ \A n \in thread' : Together(n, cur)'
        BY <2>1, <2>2, <2>4 DEF Together, Whole
    <2> QED
        BY <2>1, <2>2, <2>5 DEF ThreadInv
<1>5. CASE Collect
    <2> DEFINE fresh(n) == Children(n) \ thread
    <2>1. PICK n \in queue :
              /\ thread' = thread \union fresh(n)
              /\ queue' = (queue \ {n}) \union fresh(n)
        BY <1>5 DEF Collect
    <2>2. pc = "collect" /\ pc' = "collect" /\ UNCHANGED <<anchor, cur, parents>>
        BY <1>5 DEF Collect
    <2>3. /\ anchor \in Nodes /\ anchor # -1 /\ Together(anchor, cur)
          /\ cur \in thread /\ parents[cur] = NoParent
          /\ \A m \in thread : Together(m, cur)
          /\ \A m \in thread : m = cur \/ parents[m] \in thread
          /\ \A m \in thread \ queue : Children(m) \subseteq thread
        BY <2>2 DEF ThreadInv
    <2>4. n \in thread /\ n \in Nodes
        BY <1>0, <2>2, <2>3 DEF ThreadInv
    <2>5. \A c \in fresh(n) : c \in Nodes /\ parents[c] = n
        BY DEF Children
    <2>6. ASSUME NEW m \in thread' PROVE Together(m, cur)
        <3>1. CASE m \in thread
            BY <2>3, <3>1
        <3>2. CASE m \in fresh(n)
            <4>1. \A s \in SUBSET Nodes : Whole(s) => (m \in s <=> n \in s)
                BY <2>4, <2>5, <3>2 DEF Whole
            <4> QED
                BY <2>3, <2>4, <4>1 DEF Together
        <3> QED
            BY <2>1, <3>1, <3>2
    <2>7. \A m \in thread' : m = cur \/ parents[m] \in thread'
        BY <2>1, <2>3, <2>4, <2>5
    <2>8. \A m \in thread' \ queue' : Children(m) \subseteq thread'
        BY <2>1, <2>3
    <2>9. queue' \subseteq thread' /\ cur \in thread'
        BY <2>1, <2>2, <2>3 DEF ThreadInv
    <2>10. \A m \in Nodes \union {-1} \union thread' :
               /\ Together(m, cur)' <=> Together(m, cur)
               /\ Children(m)' = Children(m)
        BY <2>2 DEF Together, Whole, Children
    <2>11. /\ Together(anchor, cur)'
           /\ \A m \in thread' : Together(m, cur)'
           /\ \A m \in thread' \ queue' : Children(m)' \subseteq thread'
        BY <2>2, <2>3, <2>6, <2>8, <2>10
    <2> HIDE DEF fresh
    <2> QED
        BY <2>2, <2>3, <2>7, <2>9, <2>11 DEF ThreadInv
<1>6. CASE CollectEnd
    BY <1>6 DEF CollectEnd, ThreadInv, Together, Whole, Children
<1>7. CASE UNCHANGED vars
    BY <1>7 DEF vars, ThreadInv, Together, Whole, Children
<1> QED
    BY <1>1, <1>2, <1>3, <1>4, <1>5, <1>6, <1>7 DEF Next, Measuring, Collecting

\* What is collected is the anchor's whole component and no more, for a window of any
\* size and any headers.
THEOREM ThreadsAreWhole == Spec => []ThreadIsWhole
<1>1. Init => ThreadInv
    BY DEF Init, ThreadInv
<1>2. TypeOK /\ ThreadInv => ThreadIsWhole
    <2> SUFFICES ASSUME TypeOK, ThreadInv, pc = "done", anchor # -1
                 PROVE  /\ anchor \in thread /\ Whole(thread)
                        /\ \A s \in SUBSET thread : anchor \in s /\ Whole(s) => s = thread
        BY DEF ThreadIsWhole, ThreadInv
    <2>1. /\ Together(anchor, cur) /\ cur \in thread /\ parents[cur] = NoParent
          /\ \A n \in thread : Together(n, cur)
          /\ \A n \in thread : n = cur \/ parents[n] \in thread
          /\ \A n \in thread : Children(n) \subseteq thread
          /\ thread \in SUBSET Nodes
        BY DEF ThreadInv, TypeOK
    <2>2. Whole(thread)
        BY <2>1 DEF Whole, Children
    <2>3. anchor \in thread
        BY <2>1, <2>2 DEF Together
    <2>4. ASSUME NEW s \in SUBSET thread, anchor \in s, Whole(s)
          PROVE  s = thread
        BY <2>1, <2>4 DEF Together
    <2> QED
        BY <2>2, <2>3, <2>4
<1> QED
    BY <1>1, <1>2, InitTypeOK, NextKeepsType, NextKeepsThreadInv, PTL DEF Spec

-----------------------------------------------------------------------------
(* Termination *)

\* How far the function is from its end: the loops still to come; the messages the
\* outer loop of this one has still to turn to; and what the inner loop has left.
Stage ==
    CASE pc = "index" -> 6
      [] pc = "link" -> 5
      [] pc \in {"break", "walk"} -> 4
      [] pc \in {"depths", "spread"} -> 3
      [] pc = "climb" -> 2
      [] pc = "collect" -> 1
      [] OTHER -> 0

Turns == IF pc \in {"link", "break", "walk", "depths", "spread"} THEN N - i ELSE 0

Unmeasured == {n \in Nodes : depths[n] = -1}

Left ==
    CASE pc \in {"break", "depths"} -> N + 1
      [] pc = "walk" -> Cardinality(Nodes \ visited)
      [] pc = "spread" -> Cardinality(Unmeasured \union queue)
      [] pc = "climb" -> depths[cur]
      [] pc = "collect" -> Cardinality((Nodes \ thread) \union queue)
      [] OTHER -> 0

ToGo == <<<<Stage, Turns>>, Left>>

\* The lexicographic order.
Less == OpToRel(<, Nat)
Distances == (Nat \X Nat) \X Nat
Nearer == LexPairOrdering(LexPairOrdering(Less, Less, Nat, Nat), Less, Nat \X Nat, Nat)

\* A step that comes nearer to the end.
ComesNearer == <<ToGo', ToGo>> \in Nearer

LEMMA NearerWellFounded == IsWellFoundedOn(Nearer, Distances)
<1>1. IsWellFoundedOn(Less, Nat)
    BY NatLessThanWellFounded DEF Less
<1> HIDE DEF Less
<1>2. IsWellFoundedOn(LexPairOrdering(Less, Less, Nat, Nat), Nat \X Nat)
    BY <1>1, WFLexPairOrdering
<1> QED
    BY <1>1, <1>2, WFLexPairOrdering DEF Nearer, Distances

LEMMA NearerOf ==
    ASSUME NEW a1 \in Nat, NEW a2 \in Nat, NEW a3 \in Nat,
           NEW b1 \in Nat, NEW b2 \in Nat, NEW b3 \in Nat,
           \/ a1 < b1
           \/ a1 = b1 /\ a2 < b2
           \/ a1 = b1 /\ a2 = b2 /\ a3 < b3
    PROVE  <<<<<<a1, a2>>, a3>>, <<<<b1, b2>>, b3>>>> \in Nearer
<1>1. \A x, y \in Nat : x < y <=> <<x, y>> \in Less
    BY DEF Less, OpToRel
<1> HIDE DEF Less
<1> DEFINE R == LexPairOrdering(Less, Less, Nat, Nat)
<1>2. <<<<a1, a2>>, <<b1, b2>>>> \in R \/ (<<a1, a2>> = <<b1, b2>> /\ a3 < b3)
    BY <1>1 DEF LexPairOrdering
<1> HIDE DEF R
<1>3. <<<<<<a1, a2>>, a3>>, <<<<b1, b2>>, b3>>>> \in LexPairOrdering(R, Less, Nat \X Nat, Nat)
    BY <1>1, <1>2 DEF LexPairOrdering
<1> QED
    BY <1>3 DEF Nearer, R

\* Of the messages of the window a set has at most N, and fewer without one of them.
LEMMA FewerLeft ==
    ASSUME NEW s \in SUBSET Nodes, NEW t \in SUBSET Nodes, s \subseteq t
    PROVE  /\ Cardinality(s) \in Nat /\ Cardinality(t) \in Nat
           /\ Cardinality(t) <= N
           /\ s # t => Cardinality(s) < Cardinality(t)
<1>1. IsFiniteSet(Nodes) /\ Cardinality(Nodes) = N
    <2>1. 0 \in Int /\ N - 1 \in Int
        OBVIOUS
    <2>2. IsFiniteSet(0 .. N - 1) /\ Cardinality(0 .. N - 1) = IF 0 > N - 1 THEN 0 ELSE (N - 1) - 0 + 1
        BY <2>1, FS_Interval
    <2> QED
        BY <2>2
<1>2. IsFiniteSet(t) /\ Cardinality(t) <= N
    BY <1>1, FS_Subset
<1>3. IsFiniteSet(s) /\ Cardinality(s) <= Cardinality(t) /\ (Cardinality(t) = Cardinality(s) => t = s)
    BY <1>2, FS_Subset
<1>4. Cardinality(s) \in Nat /\ Cardinality(t) \in Nat
    BY <1>2, <1>3, FS_CardinalityType
<1> QED
    BY <1>2, <1>3, <1>4

Measured == Stage \in Nat /\ Turns \in Nat /\ Left \in Nat

LEMMA InvIsMeasured == TypeOK /\ DepthInv => Measured
<1> SUFFICES ASSUME TypeOK, DepthInv PROVE Measured
    OBVIOUS
<1>1. Stage \in Nat /\ Turns \in Nat
    BY DEF TypeOK, Stage, Turns
<1>2. Cardinality(Nodes \ visited) \in Nat
    BY FewerLeft
<1>3. Cardinality(Unmeasured \union queue) \in Nat
    BY FewerLeft DEF TypeOK, Unmeasured
<1>4. Cardinality((Nodes \ thread) \union queue) \in Nat
    BY FewerLeft DEF TypeOK
<1>5. pc = "climb" => depths[cur] \in Nat
    BY DEF TypeOK, DepthInv, Deep
<1>6. N + 1 \in Nat
    OBVIOUS
<1> QED
    BY <1>1, <1>2, <1>3, <1>4, <1>5, <1>6 DEF Left, Measured

\* Every step goes down: a step of an inner loop takes a message out of a finite set, or
\* on the way up comes to a message less deep; a turn of an outer loop has one message
\* less before it; and the loops come one after the other.
LEMMA NextComesNearer ==
    ASSUME TypeOK, DepthInv, ThreadInv, TypeOK', Measured, Measured', Next
    PROVE  ComesNearer
<1> DEFINE Down == \/ Stage' < Stage
                   \/ Stage' = Stage /\ Turns' < Turns
                   \/ Stage' = Stage /\ Turns' = Turns /\ Left' < Left
<1>1. ASSUME Index \/ LinkEnd \/ BreakEnd \/ DepthsEnd \/ Top \/ CollectEnd
      PROVE  Down
    BY <1>1 DEF Index, LinkEnd, BreakEnd, DepthsEnd, Top, CollectEnd, Stage
<1>2. ASSUME Link \/ Cut \/ WalkEnd \/ SpreadEnd
      PROVE  Down
    BY <1>2 DEF Link, Cut, WalkEnd, NextWalk, SpreadEnd, Stage, Turns, TypeOK
<1>3. ASSUME WalkStart PROVE Down
    <2>1. pc = "break" /\ pc' = "walk" /\ i' = i
        BY <1>3 DEF WalkStart
    <2>2. Left = N + 1 /\ Left' = Cardinality(Nodes \ visited)'
        BY <2>1 DEF Left
    <2>3. Cardinality(Nodes \ visited)' \in Nat /\ Cardinality(Nodes \ visited)' <= N
        BY FewerLeft
    <2> QED
        BY <2>1, <2>2, <2>3 DEF Stage, Turns
<1>4. ASSUME Walk PROVE Down
    <2>1. /\ pc = "walk" /\ pc' = "walk" /\ i' = i
          /\ parents[cur] \in Nodes \ visited /\ visited' = visited \union {parents[cur]}
        BY <1>4 DEF Walk, TypeOK
    <2>2. Cardinality(Nodes \ visited') < Cardinality(Nodes \ visited)
        BY <2>1, FewerLeft
    <2> QED
        BY <2>1, <2>2 DEF Stage, Turns, Left
<1>5. ASSUME DepthRoot PROVE Down
    <2>1. CASE parents[i] = NoParent
        <3>1. pc = "depths" /\ pc' = "spread" /\ i' = i
            BY <1>5, <2>1 DEF DepthRoot
        <3>2. Left = N + 1 /\ Left' = Cardinality(Unmeasured \union queue)'
            BY <3>1 DEF Left
        <3>3. /\ Cardinality(Unmeasured \union queue)' \in Nat
              /\ Cardinality(Unmeasured \union queue)' <= N
            BY FewerLeft DEF TypeOK, Unmeasured
        <3> QED
            BY <3>1, <3>2, <3>3 DEF Stage, Turns
    <2>2. CASE parents[i] # NoParent
        BY <1>5, <2>2 DEF DepthRoot, Stage, Turns, TypeOK
    <2> QED
        BY <2>1, <2>2
<1>6. ASSUME Spread PROVE Down
    <2>1. PICK n \in queue :
              LET fresh == {c \in Children(n) : depths[c] = -1}
              IN  /\ depths' = [c \in Nodes |-> IF c \in fresh THEN depths[n] + 1 ELSE depths[c]]
                  /\ queue' = (queue \ {n}) \union fresh
        BY <1>6 DEF Spread
    <2>2. /\ pc = "spread" /\ pc' = "spread" /\ i' = i /\ n \in Nodes /\ depths[n] \in Nat
          /\ queue \in SUBSET Nodes /\ queue' \in SUBSET Nodes
        BY <1>6 DEF Spread, TypeOK, DepthInv
    <2>3. /\ Unmeasured' \subseteq Unmeasured
          /\ queue' \subseteq (queue \ {n}) \union Unmeasured
          /\ n \notin Unmeasured /\ n \notin queue'
        BY <2>1, <2>2 DEF Unmeasured, Children
    <2>4. /\ (Unmeasured \union queue)' \subseteq Unmeasured \union queue
          /\ n \in Unmeasured \union queue /\ n \notin (Unmeasured \union queue)'
          /\ Unmeasured \union queue \in SUBSET Nodes
        BY <2>2, <2>3 DEF Unmeasured
    <2>5. Cardinality(Unmeasured \union queue)' < Cardinality(Unmeasured \union queue)
        BY <2>4, FewerLeft
    <2> QED
        BY <2>2, <2>5 DEF Stage, Turns, Left
<1>7. ASSUME Climb PROVE Down
    <2>1. /\ pc = "climb" /\ pc' = "climb" /\ cur \in Nodes /\ parents[cur] \in Nodes
          /\ cur' = parents[cur] /\ depths' = depths /\ i' = i
        BY <1>7 DEF Climb, TypeOK
    <2>2. depths[cur] = depths[parents[cur]] + 1 /\ depths[parents[cur]] \in Int
        BY <2>1 DEF DepthInv, Deep, TypeOK
    <2>3. Left = depths[cur] /\ Left' = depths[parents[cur]]
        BY <2>1 DEF Left
    <2> QED
        BY <2>1, <2>2, <2>3 DEF Stage, Turns
<1>8. ASSUME Collect PROVE Down
    <2>1. PICK n \in queue :
              LET fresh == Children(n) \ thread
              IN  thread' = thread \union fresh /\ queue' = (queue \ {n}) \union fresh
        BY <1>8 DEF Collect
    <2>2. /\ pc = "collect" /\ pc' = "collect" /\ i' = i
          /\ queue \in SUBSET Nodes /\ Children(n) \subseteq Nodes
        BY <1>8 DEF Collect, TypeOK, Children
    <2>3. n \in thread
        BY <2>2 DEF ThreadInv
    <2> DEFINE rest == (Nodes \ thread) \union queue
    <2>4. rest' \subseteq rest /\ n \in rest /\ n \notin rest' /\ rest \in SUBSET Nodes
        BY <2>1, <2>2, <2>3
    <2>5. Cardinality(rest') < Cardinality(rest)
        BY <2>4, FewerLeft
    <2> QED
        BY <2>2, <2>5 DEF Stage, Turns, Left
<1>9. Down
    BY <1>1, <1>2, <1>3, <1>4, <1>5, <1>6, <1>7, <1>8
       DEF Next, Linking, Breaking, Measuring, Collecting
<1> HIDE DEF Down
<1> QED
    BY <1>9, NearerOf DEF ComesNearer, ToGo, Down, Measured

\* BuildGraph cannot run for ever, for a window of any size and any headers: each of its
\* steps comes nearer to the end, by an order in which nothing comes nearer for ever.
THEOREM GraphComesToItsEnd ==
    /\ IsWellFoundedOn(Nearer, Distances)
    /\ Spec => [](ToGo \in Distances)
    /\ Spec => [][ComesNearer]_vars
<1>1. Init => DepthInv /\ ThreadInv
    BY DEF Init, DepthInv, Broken, ThreadInv
<1>2. Measured => ToGo \in Distances
    BY DEF Measured, ToGo, Distances
<1>3. TypeOK /\ DepthInv /\ ThreadInv /\ TypeOK' /\ Measured /\ Measured' /\ [Next]_vars
          => [ComesNearer]_vars
    BY NextComesNearer
<1>4. Spec => []TypeOK
    BY TypeCorrect
<1>5. Spec => [](DepthInv /\ ThreadInv)
    BY <1>1, InitTypeOK, NextKeepsType, InitBreakInv, NextKeepsBreakInv,
       NextKeepsDepthInv, NextKeepsThreadInv, PTL DEF Spec
<1>6. Spec => [](ToGo \in Distances)
    BY <1>2, <1>4, <1>5, InvIsMeasured, PTL
<1>7. Spec => [][ComesNearer]_vars
    BY <1>3, <1>4, <1>5, InvIsMeasured, PTL DEF Spec
<1> QED
    BY <1>6, <1>7, NearerWellFounded
=============================================================================
