--------------------------- MODULE MCRoomCreation ---------------------------
(***************************************************************************)
(* One createRoom for TLC.                                                 *)
(***************************************************************************)
EXTENDS RoomCreation

=============================================================================
