-------------------------- MODULE FloodFillProofs --------------------------
(***************************************************************************)
(* The flood loop computes the least flood set, on a board of any size     *)
(* with any mines and any cells resolved before.  The invariant is         *)
(* inductive as it stands; each step of the loop keeps it.                 *)
(***************************************************************************)
EXTENDS FloodFill, BoardProofs

\* The neighbours of a cell are cells.
LEMMA AdjacentAreCells == ASSUME NEW c \in Cells PROVE Adjacent[c] \subseteq Cells
  BY DEF Adjacent

\* The loop starts within the invariant: the start cell is all there is.
LEMMA FloodInit == Init => FloodInvariant
  BY DEF Init, FloodInvariant, FloodSets, hidden, Hidden

\* Taking a coordinate that was visited before off the queue.
LEMMA SkipVisitedKeeps ==
    ASSUME FloodInvariant, NEW c \in queue, SkipVisited(c) PROVE FloodInvariant'
  <1> USE DEF SkipVisited, input
  <1>1. hidden' = hidden /\ FloodSets' = FloodSets
    BY DEF hidden, FloodSets
  <1>2. (visited \cup queue)' = visited \cup queue
    OBVIOUS
  <1> QED
    BY <1>1, <1>2 DEF FloodInvariant

\* Marking a mine or a resolved cell visited.
LEMMA SkipResolvedKeeps ==
    ASSUME FloodInvariant, NEW c \in queue, SkipResolved(c) PROVE FloodInvariant'
  <1> USE DEF SkipResolved, input
  <1>1. hidden' = hidden /\ FloodSets' = FloodSets
    BY DEF hidden, FloodSets
  <1>2. (visited \cup queue)' = visited \cup queue
    OBVIOUS
  <1>3. c \notin hidden
    BY DEF FloodInvariant
  <1>4. opened' = visited' \cap hidden
    BY <1>3 DEF FloodInvariant
  <1> QED
    BY <1>1, <1>2, <1>4 DEF FloodInvariant

\* Opening a cell; the neighbours of a clue of 0 belong to every flood set.
LEMMA OpenKeeps ==
    ASSUME FloodInvariant, NEW c \in queue, Open(c) PROVE FloodInvariant'
  <1> USE DEF Open, input
  <1>1. hidden' = hidden /\ FloodSets' = FloodSets
    BY DEF hidden, FloodSets
  <1>2. c \in Cells /\ c \in hidden
    BY DEF FloodInvariant
  <1> DEFINE pushed == IF Spreads(mines, c) THEN Adjacent[c] ELSE {}
  <1>3. pushed \subseteq Cells
    BY <1>2, AdjacentAreCells
  <1>4. (visited \cup queue)' = visited \cup queue \cup pushed
    OBVIOUS
  <1>5. opened' = visited' \cap hidden
    BY <1>2 DEF FloodInvariant
  <1>6. \A d \in opened' : Spreads(mines, d) => Adjacent[d] \subseteq (visited \cup queue)'
    BY <1>4 DEF FloodInvariant
  <1>7. ASSUME NEW S \in FloodSets
        PROVE  (visited \cup queue)' \cap hidden \subseteq S
    <2>1. c \in S
      BY <1>2 DEF FloodInvariant
    <2>2. pushed \cap hidden \subseteq S
      BY <2>1 DEF FloodSets
    <2> QED
      BY <1>4, <2>2 DEF FloodInvariant
  <1>8. Spreads(mines, c)' = Spreads(mines, c) /\ mines' = mines
    OBVIOUS
  <1>9. queue' \subseteq Cells /\ visited' \subseteq Cells /\ start' \in (visited \cup queue)'
    BY <1>2, <1>3 DEF FloodInvariant
  <1> HIDE DEF pushed
  <1> QED
    BY <1>1, <1>5, <1>6, <1>7, <1>8, <1>9 DEF FloodInvariant

\* The invariant of the loop of revealConnectedSafeCells.
THEOREM FloodInvariantHolds == Spec => []FloodInvariant
  <1>1. ASSUME FloodInvariant, [Next]_vars PROVE FloodInvariant'
    <2>1. CASE UNCHANGED vars
      BY <1>1, <2>1 DEF vars, input, FloodInvariant, FloodSets, hidden
    <2>2. CASE Next
      BY <1>1, <2>2, SkipVisitedKeeps, SkipResolvedKeeps, OpenKeeps DEF Next
    <2> QED
      BY <1>1, <2>1, <2>2
  <1> QED
    BY <1>1, FloodInit, PTL DEF Spec

\* Partial correctness: when the queue is empty, the opened cells are a flood
\* set and every other flood set contains them.
THEOREM FloodIsLeastFloodSet == Spec => []FloodIsLeast
  <1>1. ASSUME FloodInvariant PROVE FloodIsLeast
    <2> SUFFICES ASSUME queue = {}
                 PROVE  opened \in FloodSets /\ \A S \in FloodSets : opened \subseteq S
      BY DEF FloodIsLeast
    <2>1. opened = visited \cap hidden /\ start \in opened
      BY <1>1 DEF FloodInvariant
    <2>2. \A c \in opened : Spreads(mines, c) => Adjacent[c] \cap hidden \subseteq opened
      BY <1>1, <2>1 DEF FloodInvariant
    <2>3. opened \in FloodSets
      BY <2>1, <2>2 DEF FloodSets
    <2>4. \A S \in FloodSets : opened \subseteq S
      BY <1>1, <2>1 DEF FloodInvariant
    <2> QED
      BY <2>3, <2>4
  <1> QED
    BY <1>1, FloodInvariantHolds, PTL

\* The cells counted are the cells opened.
Counted == IsFiniteSet(opened) /\ revealedCount = Cardinality(opened)

\* A cell is counted when it is opened, and only then.
LEMMA CountedHolds == Spec => []Counted
<1>1. Init => Counted
  BY FS_EmptySet DEF Init, Counted
<1>2. ASSUME Counted, [Next]_vars PROVE Counted'
  <2>1. CASE opened' = opened /\ revealedCount' = revealedCount
    BY <1>2, <2>1 DEF Counted
  <2>2. ASSUME NEW c, Open(c) PROVE Counted'
    <3>1. c \notin opened /\ opened' = opened \cup {c} /\ revealedCount' = revealedCount + 1
      BY <2>2 DEF Open
    <3> QED BY <1>2, <3>1, FS_AddElement DEF Counted
  <2>3. CASE UNCHANGED vars
    BY <2>1, <2>3 DEF vars
  <2>4. ASSUME NEW c, SkipVisited(c) \/ SkipResolved(c) PROVE Counted'
    BY <2>1, <2>4 DEF SkipVisited, SkipResolved
  <2> QED BY <1>2, <2>2, <2>3, <2>4 DEF Next
<1> QED BY <1>1, <1>2, PTL DEF Spec

\* When the loop ends it has opened the set that the rules of a match use, and its count is the
\* size of that set: on boards of every size, whatever was resolved before.
THEOREM FloodIsTheRules == Spec => []FloodAgreesWithRules
<1>1. ASSUME FloodInvariant, FloodIsLeast, Counted PROVE FloodAgreesWithRules
  <2> SUFFICES ASSUME queue = {} PROVE opened = RevealConnectedSafeCells(mines, resolved, start)
    BY <1>1 DEF FloodAgreesWithRules, Counted
  <2>1. PICK R : R = RevealConnectedSafeCells(mines, resolved, start)
    OBVIOUS
  <2>2. start \in Hidden(mines, resolved)
    BY <1>1 DEF FloodInvariant, hidden
  <2>3. /\ start \in R /\ R \subseteq hidden /\ Closed(mines, hidden, R)
        /\ \A S : start \in S /\ Closed(mines, hidden, S) => R \subseteq S
    BY <2>1, <2>2, RevealIsLeast DEF hidden
  <2>4. opened \in FloodSets /\ \A S \in FloodSets : opened \subseteq S
    BY <1>1 DEF FloodIsLeast
  <2>5. R \in FloodSets
    BY <2>3 DEF FloodSets, Closed
  <2>6. start \in opened /\ Closed(mines, hidden, opened)
    BY <2>4 DEF FloodSets, Closed
  <2> QED BY <2>1, <2>3, <2>4, <2>5, <2>6
<1> QED BY <1>1, FloodInvariantHolds, FloodIsLeastFloodSet, CountedHolds, PTL
=============================================================================
