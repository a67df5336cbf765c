---------------------------- MODULE MCSubscriber ----------------------------
(***************************************************************************)
(* The subscriber connection on a small instance.                          *)
(***************************************************************************)
EXTENDS Subscriber

=============================================================================
