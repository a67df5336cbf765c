--------------------------- MODULE MCRoomSession ---------------------------
(***************************************************************************)
(* The room session model on small instances.  Clients and sockets are     *)
(* interchangeable: no definition picks one of them by name.               *)
(***************************************************************************)
EXTENDS RoomSession, TLC

Symmetry == Permutations(Client) \cup Permutations(Socket)

=============================================================================
