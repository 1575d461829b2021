------------------------------ MODULE FloodFill ------------------------------
(***************************************************************************)
(* The loop of revealConnectedSafeCells, one iteration per step: a safe    *)
(* cell is opened and, if its clue is 0, its neighbours are queued.        *)
(*                                                                         *)
(* The code's queue is a list that may hold a coordinate more than once;   *)
(* a later copy is skipped as visited.  The model keeps the coordinates in *)
(* the queue as a set and takes them in any order, so what it shows does   *)
(* not depend on the order the code happens to push them in.               *)
(***************************************************************************)
EXTENDS Board

CONSTANT Layouts    \* the layouts of mines to flood on

ASSUME FloodAssumption == \A layout \in Layouts : layout \subseteq Cells

VARIABLES
    mines, resolved, start,   \* the input: the board before, and the cell
    queue, visited,           \* the work list and the visited keys
    opened,                   \* the cells this call has set isRevealed on
    revealedCount

input == <<mines, resolved, start>>
vars == <<input, queue, visited, opened, revealedCount>>

hidden == Hidden(mines, resolved)
-----------------------------------------------------------------------------
\* The cells resolved before may be any: bombs open cells anywhere.
Init ==
    /\ mines \in Layouts
    /\ resolved \in SUBSET Cells
    /\ start \in hidden
    /\ queue = {start}
    /\ visited = {}
    /\ opened = {}
    /\ revealedCount = 0

\* A cell queued twice.
SkipVisited(c) ==
    /\ c \in visited
    /\ queue' = queue \ {c}
    /\ UNCHANGED <<input, visited, opened, revealedCount>>

\* A mine, or a cell resolved already.
SkipResolved(c) ==
    /\ c \notin visited
    /\ c \notin hidden \ opened
    /\ queue' = queue \ {c}
    /\ visited' = visited \cup {c}
    /\ UNCHANGED <<input, opened, revealedCount>>

\* Wrong variant of Open: it neither marks the cell visited nor revealed
\* before it goes on from a clue of 0.
OpenUnmarked(c) ==
    /\ c \notin visited
    /\ c \in hidden \ opened
    /\ queue' = (queue \ {c}) \cup (IF Spreads(mines, c) THEN Adjacent[c] ELSE {})
    /\ opened' = IF Spreads(mines, c) THEN opened ELSE opened \cup {c}
    /\ UNCHANGED <<input, visited, revealedCount>>

\* Wrong variant of Open: it never goes on.
OpenWithoutSpreading(c) ==
    /\ c \notin visited
    /\ c \in hidden \ opened
    /\ queue' = queue \ {c}
    /\ visited' = visited \cup {c}
    /\ opened' = opened \cup {c}
    /\ revealedCount' = revealedCount + 1
    /\ UNCHANGED input

Open(c) ==
    /\ c \notin visited
    /\ c \in hidden \ opened
    /\ queue' = (queue \ {c}) \cup (IF Spreads(mines, c) THEN Adjacent[c] ELSE {})
    /\ visited' = visited \cup {c}
    /\ opened' = opened \cup {c}
    /\ revealedCount' = revealedCount + 1
    /\ UNCHANGED input

Next == \E c \in queue : SkipVisited(c) \/ SkipResolved(c) \/ Open(c)

\* The loop is synchronous: it runs until the queue is empty.
Spec == Init /\ [][Next]_vars /\ WF_vars(Next)
-----------------------------------------------------------------------------
\* The sets a reveal of the start cell may open: with a cell whose clue is 0
\* come all its hidden neighbours.
FloodSets ==
    {S \in SUBSET hidden :
        start \in S /\ \A c \in S : Spreads(mines, c) => Adjacent[c] \cap hidden \subseteq S}

\* What makes the result hold, in every iteration: an opened cell whose clue is
\* 0 has its neighbours visited or queued, a visited hidden cell is open, and
\* nothing is opened or queued that some flood set could do without.
FloodInvariant ==
    /\ resolved \subseteq Cells /\ start \in hidden
    /\ queue \subseteq Cells /\ visited \subseteq Cells
    /\ opened = visited \cap hidden
    /\ start \in visited \cup queue
    /\ \A c \in opened : Spreads(mines, c) => Adjacent[c] \subseteq visited \cup queue
    /\ \A S \in FloodSets : (visited \cup queue) \cap hidden \subseteq S

\* When the loop ends, the opened cells are the least flood set, however the
\* earlier moves carved up the board.
FloodIsLeast ==
    queue = {} => opened \in FloodSets /\ \A S \in FloodSets : opened \subseteq S

\* The set the match rules use is the one the loop computes, and the count the
\* action reports is its size.
FloodAgreesWithRules ==
    queue = {} => /\ opened = RevealConnectedSafeCells(mines, resolved, start)
                  /\ revealedCount = Cardinality(opened)

\* The loop ends: a cell is opened, and its neighbours queued, only once.
FloodEnds == <>(queue = {})
=============================================================================
