------------------------- MODULE MCClientConnection -------------------------
(***************************************************************************)
(* The client connection on small instances.  Websockets and messages are  *)
(* used in the order of their numbers, so there is no symmetry to exploit. *)
(***************************************************************************)
EXTENDS ClientConnection

=============================================================================
