--------------------------- MODULE MCControlPlane ---------------------------
(***************************************************************************)
(* The control plane on small instances.  Rooms are interchangeable, and   *)
(* so are the slots of overlapping ticks.  A behaviour has several rooms,  *)
(* or mishaps, a stop and ticks that overlap; not both.  A second reap     *)
(* comes in a behaviour of one room without mishaps and timeouts.          *)
(***************************************************************************)
EXTENDS ControlPlane, FiniteSets, TLC

Symmetry == Permutations(Room) \cup Permutations(Tick)

Overlapping == Cardinality({t \in Tick : pc[t] # "idle"}) > 1

Focused ==
  /\ Cardinality(created) > 1 =>
       /\ reaps <= 1 /\ mishaps = 0 /\ timeouts = 0
       /\ ~Overlapping /\ phase = "up" /\ dismissed = {}
  /\ reaps > 1 => mishaps = 0 /\ timeouts = 0

=============================================================================
