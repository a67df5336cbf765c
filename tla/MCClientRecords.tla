-------------------------- MODULE MCClientRecords --------------------------
(***************************************************************************)
(* The client records of one room for TLC.                                 *)
(***************************************************************************)
EXTENDS ClientRecords

CONSTANTS c1, c2
=============================================================================
