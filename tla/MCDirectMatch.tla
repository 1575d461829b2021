--------------------------- MODULE MCDirectMatch ---------------------------
(***************************************************************************)
(* A direct match of two rounds of one move, with a text that is sent and  *)
(* one that is too long.  Two guests open the link.                        *)
(***************************************************************************)
EXTENDS DirectMatch, TLC

CONSTANTS x, y, a, b, o, h, MaxWire

McGuestsAlike == Permutations(Guests)

\* Bound on the messages under way to each player.
McFewMessages == Len(wire["guest"]) <= MaxWire /\ Len(wire["host"]) <= 1

\* Bound: while there is a text, the first match is not over.
McTextOrMatch ==
    \/ room.said = 0 /\ \A p \in Players : view[p].draft = None /\ view[p].pending = None
    \/ room.match.round = 1 /\ ~room.match.over
=============================================================================
