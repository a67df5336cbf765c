--------------------------- MODULE MCRoomProcess ----------------------------
(***************************************************************************)
(* One room process and its notify channel on a small instance: at most    *)
(* two connections, of which the second meets the slot of the first.       *)
(***************************************************************************)
EXTENDS RoomProcess

=============================================================================
