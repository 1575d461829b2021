---------------------------- MODULE MCRoomServer ----------------------------
(***************************************************************************)
(* Ids, sockets and task slots are interchangeable: no definition orders   *)
(* them or singles one out.  The liveness run does not use the symmetry.   *)
(***************************************************************************)
EXTENDS RoomServer, TLC

Symmetry == Permutations(Rooms) \cup Permutations(Players)
            \cup Permutations(Sockets) \cup Permutations(Tasks)
=============================================================================
