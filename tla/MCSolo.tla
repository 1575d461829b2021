------------------------------- MODULE MCSolo -------------------------------
(***************************************************************************)
(* Solo play on a 2 x 3 board with three mines: a bomb can be thrown, and  *)
(* the budget of the bot's search covers groups of two cells in all.  The  *)
(* board is this small because any earlier match may be the stored one.    *)
(***************************************************************************)
EXTENDS Solo

MCRows == 2
MCColumns == 3
MCMineCount == 3

MCLayouts == { {<<0, 0>>, <<1, 1>>, <<0, 2>>} }
=============================================================================
