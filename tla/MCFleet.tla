------------------------------ MODULE MCFleet -------------------------------
(***************************************************************************)
(* The fleet on a small instance: servers, and so their calls, and         *)
(* endpoints are interchangeable.                                          *)
(***************************************************************************)
EXTENDS Fleet, TLC

Symmetry == Permutations(Server) \cup Permutations(Endpoint)

\* One thing at a time: rooms are destroyed or lapse, tags are written, and commands fail,
\* while no server stops or is down, and not both; after a failure, and when tags were
\* written to a room that is gone, there is one call at a time.
Focused ==
  LET ill == \E s \in Server : life[s] \in {"stopping", "down"}
  IN /\ ill => \A r \in excused : roomHash[r] # "none"
     /\ Removing(Sdk) # {} => old = {}
     /\ call[Sdk].at = "tags" => ~ill /\ old = {} /\ failures = 0
     /\ (\E r \in Room : roomHash[r] = "tags") =>
          ~ill /\ old = {} /\ failures = 0 /\ Cardinality(UnderWay) <= 1
     /\ failures > 0 => ~ill /\ old = {} /\ Cardinality(UnderWay) <= 1

\* A lock expires under a leader at its duties, while the rooms run: until those duties
\* and the next leader's are done, nothing fails, stops or goes, and no room is given up or
\* recovered.
TwoLeaders ==
  /\ expiries > 0 /\ failures = 0
  /\ \E l \in Server : Lead(l) \in UnderWay
  /\ \A s \in Server : life[s] \in {"off", "up"}
  /\ Sdk \notin UnderWay
  /\ Room \subseteq ready \ excused

\* Until then no two servers heartbeat, or lead, at a time.
OneLeader ==
  /\ expiries = 0
  /\ Cardinality({s \in Server : Beat(s) \in UnderWay}) <= 1
  /\ Cardinality({s \in Server : Lead(s) \in UnderWay}) <= 1

Bounded == (Focused /\ OneLeader) \/ TwoLeaders

=============================================================================
