---------------------------- MODULE MemoryDriver ----------------------------
(***************************************************************************)
(* What src/src/driver/memory.ts keeps of servers and rooms, and what each *)
(* call does to it.  No call of it that changes these maps awaits before   *)
(* it does, so each is one step: this module is also the specification     *)
(* that the Redis driver, whose calls are sequences of commands, is        *)
(* measured against (Fleet).                                               *)
(*                                                                         *)
(* There is no clock.  Of a time stamp only one thing matters, whether it  *)
(* is older than staleServerMs; time passing is the action GrowsOld.       *)
(***************************************************************************)
CONSTANTS
  Server, Room, Endpoint,
  NoServer,
  Atomic    \* TRUE in memory.ts.  In a driver that needs several commands evicted servers
            \* go later than the evicting one comes, what is assigned to a server while it
            \* is unregistered may stay behind, and an index that is deleted or cleaned takes
            \* several rooms with it

VARIABLES
  servers,    \* ids in the map servers
  old,        \* those whose lastHeartbeat is older than staleServerMs
  endpoint,   \* the endpoint each server heartbeats with
  room,       \* status in the map rooms
  owner       \* serverId of its records

vars == <<servers, old, endpoint, room, owner>>

TypeOK ==
  /\ old \subseteq servers
  /\ servers \subseteq Server
  /\ endpoint \in [Server -> Endpoint]
  /\ room \in [Room -> {"none", "requested", "running"}]
  /\ owner \in [Room -> Server \cup {NoServer}]
  /\ \A r \in Room : owner[r] = NoServer <=> room[r] = "none"

Init ==
  /\ servers = {} /\ old = {}
  /\ endpoint \in [Server -> Endpoint]
  /\ room = [r \in Room |-> "none"]
  /\ owner = [r \in Room |-> NoServer]

\* The records of the rooms of R are deleted.
RoomsGone(R) ==
  /\ room' = [r \in Room |-> IF r \in R THEN "none" ELSE room[r]]
  /\ owner' = [r \in Room |-> IF r \in R THEN NoServer ELSE owner[r]]

RoomsOf(S) == {r \in Room : owner[r] \in S}

\* deleteServer for each of S: a server goes with its rooms.
DeleteServers(S) ==
  /\ servers' = servers \ S
  /\ old' = old \ S
  /\ RoomsGone(RoomsOf(S))

GrowsOld(s) ==
  /\ s \in servers \ old
  /\ old' = old \cup {s}
  /\ UNCHANGED <<servers, endpoint, room, owner>>

\* A requested room is swept: sweepExpiredRequestedRooms, which every reader calls.
Lapses(r) ==
  /\ room[r] = "requested"
  /\ RoomsGone({r})
  /\ UNCHANGED <<servers, old, endpoint>>

\* heartbeat of a server that has a record, and of one that has none, which first evicts
\* those that were there before on its endpoint.
Refresh(s) ==
  /\ s \in servers
  /\ old' = old \ {s}
  /\ UNCHANGED <<servers, endpoint, room, owner>>

Predecessors(s) ==
  IF Atomic THEN {o \in servers : endpoint[o] = endpoint[s]} ELSE {}

Register(s) ==
  /\ s \notin servers
  /\ servers' = (servers \ Predecessors(s)) \cup {s}
  /\ old' = old \ (Predecessors(s) \cup {s})
  /\ RoomsGone(RoomsOf(Predecessors(s)))
  /\ UNCHANGED endpoint

\* registerRoom: ServerNotFoundError without a server; it overwrites a record.
RegisterRoom(r, s) ==
  /\ s \in servers
  /\ room' = [room EXCEPT ![r] = "requested"]
  /\ owner' = [owner EXCEPT ![r] = s]
  /\ UNCHANGED <<servers, old, endpoint>>

\* roomReady: nothing without a record.
RoomReady(r) ==
  /\ room[r] # "none"
  /\ room' = [room EXCEPT ![r] = "running"]
  /\ UNCHANGED <<servers, old, endpoint, owner>>

\* unregisterRoom, and roomFailure once it has published: one room of R.
UnregisterRoom(R) ==
  /\ \A r \in R : room[r] # "none"
  /\ Atomic => \E r \in Room : R = {r}
  /\ RoomsGone(R)
  /\ UNCHANGED <<servers, old, endpoint>>

UnregisterServer(s) ==
  /\ s \in servers
  /\ servers' = servers \ {s}
  /\ old' = old \ {s}
  /\ \E R \in SUBSET RoomsOf({s}) :
       /\ Atomic => R = RoomsOf({s})
       /\ RoomsGone(R)
  /\ UNCHANGED endpoint

\* reapServer: only if the server is stale at this very moment.
ReapServer(s) ==
  /\ s \in old
  /\ DeleteServers({s})
  /\ UNCHANGED endpoint

\* The timer: every stale server, and every requested room of T that has lapsed.
Prune(T) ==
  /\ T \subseteq {r \in Room : room[r] = "requested"}
  /\ servers' = servers \ old
  /\ old' = {}
  /\ RoomsGone(RoomsOf(old) \cup T)
  /\ UNCHANGED endpoint

Next ==
  \/ \E s \in Server : \/ GrowsOld(s) \/ Refresh(s) \/ Register(s)
                       \/ UnregisterServer(s) \/ ReapServer(s)
                       \/ \E r \in Room : RegisterRoom(r, s)
  \/ \E r \in Room : Lapses(r) \/ RoomReady(r)
  \/ \E T \in SUBSET Room : UnregisterRoom(T) \/ Prune(T)

Spec == Init /\ [][Next]_vars

=============================================================================
