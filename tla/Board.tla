------------------------------- MODULE Board -------------------------------
(***************************************************************************)
(* The board of packages/game-engine/src/board: its geometry, the clue of  *)
(* a cell, what a safe reveal opens and what a bomb covers.                *)
(*                                                                         *)
(* A cell is its coordinate <<row, column>>.  A layout of mines is a set   *)
(* of cells, so a cell's hasMine is membership in it; the cells already    *)
(* resolved (revealed, or claimed by a player) are a set too.              *)
(***************************************************************************)
EXTENDS Integers, FiniteSets

CONSTANTS
    Rows,        \* board.rows
    Columns,     \* board.columns
    BombRadius   \* BOMB_RADIUS: 2 in the code, 1 on the small boards TLC checks

ASSUME BoardAssumption ==
    /\ Rows \in Nat \ {0}
    /\ Columns \in Nat \ {0}
    /\ BombRadius \in Nat
-----------------------------------------------------------------------------
RowIndices == 0 .. Rows - 1
ColumnIndices == 0 .. Columns - 1

\* The board.cells grid; IsWithinBoard(c) of the code is c \in Cells.
Cells == RowIndices \X ColumnIndices

\* The eight neighbours of every cell, cut off at the edges of the board.
Adjacent ==
    [c \in Cells |->
        {d \in Cells :
            /\ d # c
            /\ d[1] - c[1] \in -1 .. 1
            /\ d[2] - c[2] \in -1 .. 1}]

\* The clue the board derives for a safe cell.
AdjacentMines(mines, c) == Cardinality(Adjacent[c] \cap mines)
-----------------------------------------------------------------------------
\* A cell the flood may open: no mine, and neither revealed nor claimed.
Hidden(mines, resolved) == Cells \ (mines \cup resolved)

\* The cells the flood goes on from: only a cell whose clue is 0 pushes its
\* neighbours on the queue.
Spreads(mines, c) == AdjacentMines(mines, c) = 0

\* One round of the flood over the opened cells, where hidden may be opened.
Grown(mines, hidden, opened) ==
    opened \cup (hidden \cap UNION {Adjacent[c] : c \in {d \in opened : Spreads(mines, d)}})

\* Wrong variant of RevealConnectedSafeCells: it stops after one round.
RevealStartAndNeighbours(mines, resolved, start) ==
    Grown(mines, Hidden(mines, resolved), {start})

\* The rounds of the flood from a start cell.
FloodRounds(mines, hidden, start) ==
    LET rounds[n \in Nat] ==
            IF n = 0 THEN {start}
            ELSE LET opened == rounds[n - 1] IN Grown(mines, hidden, opened)
    IN  rounds

\* What revealConnectedSafeCells opens from a hidden start cell.  The rounds
\* reach a fixed point in fewer rounds than there are cells.  FloodFill has
\* the queue of the code and shows that it computes this set.
RevealConnectedSafeCells(mines, resolved, start) ==
    LET hidden == Hidden(mines, resolved)
    IN  {start} \cup (hidden \cap FloodRounds(mines, hidden, start)[Rows * Columns])
-----------------------------------------------------------------------------
\* The rows (or columns) a bomb covers: a span of 2 * radius + 1 that is moved
\* inwards at an edge, never cut, unless the axis is shorter than the span.
BombAxisBounds(axisLength, position) ==
    LET Smaller(a, b) == IF a < b THEN a ELSE b
        Larger(a, b)  == IF a > b THEN a ELSE b
        span     == Smaller(axisLength, 2 * BombRadius + 1)
        maxStart == Larger(0, axisLength - span)
        start    == Smaller(Larger(0, position - BombRadius), maxStart)
    IN  start .. start + span - 1

BombCoordinates(c) ==
    BombAxisBounds(Rows, c[1]) \X BombAxisBounds(Columns, c[2])

\* Wrong variant of BombReveals: it opens the mines too.
BombRevealsMines(mines, resolved, c) == BombCoordinates(c) \ resolved

\* The safe cells a bomb opens and the mines it claims: the unresolved part of
\* its area.  A bomb opens a cell whose clue is 0 without flooding from it.
BombReveals(mines, resolved, c) == (BombCoordinates(c) \ resolved) \ mines
BombClaims(mines, resolved, c)  == (BombCoordinates(c) \ resolved) \cap mines
=============================================================================
