---------------------------- MODULE MCFloodFill ----------------------------
(***************************************************************************)
(* A 3 x 3 board: one mine in a corner, at an edge or in the centre, and   *)
(* two mines that split the board; every set of cells resolved before and  *)
(* every hidden start cell.  The other layouts of one mine are these,      *)
(* turned.                                                                 *)
(***************************************************************************)
EXTENDS FloodFill

MCRows == 3
MCColumns == 3
MCLayouts == {{<<0, 0>>}, {<<0, 1>>}, {<<1, 1>>}, {<<0, 0>>, <<0, 1>>}}
=============================================================================
