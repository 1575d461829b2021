------------------------------ MODULE MCMatch ------------------------------
(***************************************************************************)
(* A 3 x 4 board with three mines and bombs of radius 1 (3 x 3 cells): a   *)
(* bomb area is smaller than the board and is moved inwards at its edges,  *)
(* floods open several cells, a majority needs two mines.  The budget of   *)
(* the bot's search covers groups of up to four cells in all.              *)
(***************************************************************************)
EXTENDS BotView

MCRows == 3
MCColumns == 4
MCMineCount == 3

\* Mines together in a corner (one large flood), spread out (no flood at all),
\* in a column that splits the board, and in a row within one bomb's reach.
MCLayouts ==
    { {<<0, 0>>, <<0, 1>>, <<1, 0>>},
      {<<0, 0>>, <<1, 2>>, <<2, 1>>},
      {<<0, 2>>, <<1, 2>>, <<2, 2>>},
      {<<2, 0>>, <<2, 1>>, <<2, 2>>} }
=============================================================================
