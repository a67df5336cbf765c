--------------------------- MODULE ClientRecords ---------------------------
(***************************************************************************)
(* Who is connected to a room, according to the driver: the records that   *)
(* reserveClient, connectClient and disconnectClient of the Redis driver   *)
(* (src/src/driver/redis.ts) write for one room, the messages of the room  *)
(* that cause them, and the reconciliation of every room heartbeat         *)
(* (reconcileClients, src/src/server/server.ts).                           *)
(***************************************************************************)
EXTENDS Naturals, Sequences, FiniteSets

CONSTANTS
  Client,
  MaxBeats,    \* bound: room heartbeats on their way or being reconciled
  MaxChanges,  \* bound: joins and drops
  MaxFaults    \* bound: commands that fail, crashes of a caller

ASSUME RecordsAssumption ==
  MaxBeats \in Nat \ {0} /\ MaxChanges \in Nat /\ MaxFaults \in Nat

Beat == 1..MaxBeats

VARIABLES
  \* Redis
  hash,     \* the client records
  index,    \* the set of the room's client ids
  exists,   \* the room's record
  \* the sdk
  res,      \* reserveClient for each client
  removal,  \* unregisterRoom
  todo,     \* the clients it still has to delete
  \* the room
  up,       \* its process runs
  seat,     \* "in" with a socket, "window" without one
  pipe,     \* its messages to the server
  \* the server
  fast,     \* disconnectClient for a message of the room
  beats,    \* heartbeats and their reconciliations
  \* history
  joined,   \* clients that have been seated
  late,     \* records that unregisterRoom could not know of
  changes, faults

redis   == <<hash, index, exists>>
sdk     == <<res, removal, todo>>
room    == <<up, seat, pipe>>
server  == <<fast, beats>>
history == <<joined, late, changes, faults>>
vars    == <<redis, sdk, room, server, history>>

\* `since` stands for connectedAt: the unread heartbeats that were captured before it.
NoRecord == [st |-> "none", ttl |-> FALSE, since |-> {}]
Hashes   == [st : {"none", "reserved", "connected"}, ttl : BOOLEAN, since : SUBSET Beat]

\* A heartbeat: the clients it lists (and, for the properties, those it leaves out although
\* they have been seated), then what reconcileClients has read and still has to do.
NoBeat == [pc |-> "idle", list |-> {}, away |-> {}, ids |-> {}, add |-> {}, drop |-> {}]
Beats  == [pc : {"idle", "sent", "index", "hashes", "stale", "act", "unindex", "delete"},
           list : SUBSET Client, away : SUBSET Client, ids : SUBSET Client,
           add : SUBSET Client, drop : SUBSET Client]

Messages == [type : {"connected", "disconnected"}, client : Client]
              \cup [type : {"heartbeat"}, beat : Beat]

\* A connected record does not lapse.
TypeOK ==
  /\ hash \in [Client -> Hashes]
  /\ index \in SUBSET Client
  /\ exists \in BOOLEAN
  /\ res \in [Client -> {"no", "set", "ttl", "done", "over"}]
  /\ removal \in {"no", "clients", "room", "done"}
  /\ todo \in SUBSET Client
  /\ up \in BOOLEAN
  /\ seat \in [Client -> {"out", "in", "window"}]
  /\ pipe \in Seq(Messages)
  /\ fast \in [Client -> {"idle", "unindex", "delete"}]
  /\ beats \in [Beat -> Beats]
  /\ joined \in SUBSET Client
  /\ late \in SUBSET Client
  /\ changes \in 0..MaxChanges
  /\ faults \in 0..MaxFaults
  /\ \A c \in Client : hash[c].st = "connected" => ~hash[c].ttl

\* The room runs and nobody has reserved a place in it yet.
Init ==
  /\ hash = [c \in Client |-> NoRecord]
  /\ index = {}
  /\ exists = TRUE
  /\ res = [c \in Client |-> "no"]
  /\ removal = "no" /\ todo = {}
  /\ up = TRUE
  /\ seat = [c \in Client |-> "out"]
  /\ pipe = <<>>
  /\ fast = [c \in Client |-> "idle"]
  /\ beats = [b \in Beat |-> NoBeat]
  /\ joined = {} /\ late = {}
  /\ changes = 0 /\ faults = 0

Fault  == faults < MaxFaults /\ faults' = faults + 1
Change == changes < MaxChanges /\ changes' = changes + 1

-----------------------------------------------------------------------------
(* The commands of the driver.                                             *)

\* The captured heartbeats whose reconciliation has not read the records yet.
Unread == {b \in Beat : beats[b].pc \in {"sent", "index", "hashes"}}

\* connectClient: one transaction, written now.
Connected_NoPersist(c) == [st |-> "connected", ttl |-> hash[c].ttl, since |-> Unread]
Connected(c) == [st |-> "connected", ttl |-> FALSE, since |-> Unread]

ConnectClient(c) ==
  /\ hash' = [hash EXCEPT ![c] = Connected(c)]
  /\ index' = index \cup {c}
  /\ late' = IF removal = "no" THEN late ELSE late \cup {c}

\* disconnectClient: read the record; leave the index if there was one; delete it.  A
\* command that fails ends the call, perhaps after it took effect.
AfterRead(c)     == IF hash[c].st = "none" THEN "delete" ELSE "unindex"
LeaveIndex(c)    == index' = index \ {c}
DeleteRecord(c)  == hash' = [hash EXCEPT ![c] = NoRecord]

-----------------------------------------------------------------------------
(* The sdk.                                                                *)

\* reserveClient: the record, its ttl, the index, one by one; then the caller has a jwt.
Reserve(c) ==
  /\ exists /\ res[c] = "no"
  /\ res' = [res EXCEPT ![c] = "set"]
  /\ hash' = [hash EXCEPT ![c] = [NoRecord EXCEPT !.st = "reserved"]]
  /\ late' = IF removal = "no" THEN late ELSE late \cup {c}
  /\ UNCHANGED <<index, exists, removal, todo, room, server, joined, changes, faults>>

ReserveTtl(c) ==
  /\ res[c] = "set"
  /\ res' = [res EXCEPT ![c] = "ttl"]
  /\ hash' = [hash EXCEPT ![c].ttl = (hash[c].st # "none")]
  /\ UNCHANGED <<index, exists, removal, todo, room, server, history>>

ReserveIndex(c) ==
  /\ res[c] = "ttl"
  /\ res' = [res EXCEPT ![c] = "done"]
  /\ index' = index \cup {c}
  /\ UNCHANGED <<hash, exists, removal, todo, room, server, history>>

ReserveFails(c) ==
  /\ res[c] \in {"set", "ttl"}
  /\ Fault
  /\ res' = [res EXCEPT ![c] = "over"]
  /\ UNCHANGED <<redis, removal, todo, room, server, joined, late, changes>>

\* The reservation's time is over: its jwt is refused from now on, and the record goes
\* unless connectClient has made it permanent.
Expires(c) ==
  /\ res[c] = "done" \/ (res[c] = "over" /\ hash[c].ttl)
  /\ res' = [res EXCEPT ![c] = "over"]
  /\ hash' = IF hash[c].ttl THEN [hash EXCEPT ![c] = NoRecord] ELSE hash
  /\ UNCHANGED <<index, exists, removal, todo, room, server, history>>

\* unregisterRoom: the members of the index, each of their records, the index, the room.
RemovalBegins ==
  /\ exists /\ removal = "no"
  /\ removal' = "clients"
  /\ todo' = index
  /\ late' = {c \in Client : hash[c].st # "none" /\ c \notin index}
  /\ UNCHANGED <<redis, res, room, server, joined, changes, faults>>

RemoveRecord_Forgets(c) == UNCHANGED hash
RemoveRecord(c) == DeleteRecord(c)

RemovesClient(c) ==
  /\ removal = "clients" /\ c \in todo
  /\ todo' = todo \ {c}
  /\ RemoveRecord(c)
  /\ UNCHANGED <<index, exists, res, removal, room, server, history>>

RemovesIndex ==
  /\ removal = "clients" /\ todo = {}
  /\ removal' = "room"
  /\ index' = {}
  /\ UNCHANGED <<hash, exists, res, todo, room, server, history>>

RemovesRoom ==
  /\ removal = "room"
  /\ removal' = "done"
  /\ exists' = FALSE
  /\ UNCHANGED <<hash, index, res, todo, room, server, history>>

\* It fails half-way; it may be called again.
RemovalFails ==
  /\ removal \in {"clients", "room"}
  /\ Fault
  /\ removal' = "no"
  /\ todo' = {} /\ late' = {}
  /\ UNCHANGED <<redis, res, room, server, joined, changes>>

-----------------------------------------------------------------------------
(* The room.                                                               *)

Tell(msg) == pipe' = Append(pipe, msg)
Listed == {c \in Client : seat[c] = "in"}

\* A client with a valid jwt takes its seat, again perhaps (open).
Joins(c) ==
  /\ up /\ res[c] = "done" /\ seat[c] = "out"
  /\ Change
  /\ seat' = [seat EXCEPT ![c] = "in"]
  /\ joined' = joined \cup {c}
  /\ Tell([type |-> "connected", client |-> c])
  /\ UNCHANGED <<redis, sdk, up, server, late, faults>>

\* Its socket is lost and its seat is held: nothing is said.
Drops(c) ==
  /\ up /\ seat[c] = "in"
  /\ Change
  /\ seat' = [seat EXCEPT ![c] = "window"]
  /\ UNCHANGED <<redis, sdk, up, pipe, server, joined, late, faults>>

Returns(c) ==
  /\ up /\ seat[c] = "window"
  /\ seat' = [seat EXCEPT ![c] = "in"]
  /\ UNCHANGED <<redis, sdk, up, pipe, server, history>>

\* evictClient.
Leaves(c) ==
  /\ up /\ seat[c] # "out"
  /\ seat' = [seat EXCEPT ![c] = "out"]
  /\ Tell([type |-> "disconnected", client |-> c])
  /\ UNCHANGED <<redis, sdk, up, server, history>>

\* The heartbeat timer.  Clients in their window are not listed.
Captures(b) ==
  /\ up
  /\ beats[b].pc = "idle" /\ \A a \in 1..(b - 1) : beats[a].pc # "idle"
  /\ beats' = [beats EXCEPT ![b] = [NoBeat EXCEPT !.pc = "sent", !.list = Listed,
                                                 !.away = joined \ Listed]]
  /\ hash' = [c \in Client |-> [hash[c] EXCEPT !.since = @ \ {b}]]
  /\ Tell([type |-> "heartbeat", beat |-> b])
  /\ UNCHANGED <<index, exists, sdk, up, seat, fast, history>>

\* The process ends; what it has said is still read.
Ends ==
  /\ up
  /\ up' = FALSE
  /\ seat' = [c \in Client |-> "out"]
  /\ UNCHANGED <<redis, sdk, pipe, server, history>>

-----------------------------------------------------------------------------
(* The server: messages of the room, in order.  The commands it sends on    *)
(* one connection take effect in the order in which they are sent.          *)

Hears(msg) == pipe # <<>> /\ Head(pipe) = msg /\ pipe' = Tail(pipe)

ConnectedArrives(c) ==
  /\ Hears([type |-> "connected", client |-> c])
  /\ \/ ConnectClient(c) /\ UNCHANGED faults
     \/ Fault /\ UNCHANGED <<hash, index, late>>
  /\ UNCHANGED <<exists, sdk, up, seat, server, joined, changes>>

\* Bound: the message waits while the disconnectClient of an earlier one is under way.
DisconnectedArrives(c) ==
  /\ fast[c] = "idle"
  /\ Hears([type |-> "disconnected", client |-> c])
  /\ \/ fast' = [fast EXCEPT ![c] = AfterRead(c)] /\ UNCHANGED faults
     \/ Fault /\ UNCHANGED fast
  /\ UNCHANGED <<redis, sdk, up, seat, beats, joined, late, changes>>

FastUnindex(c) ==
  /\ fast[c] = "unindex"
  /\ \/ LeaveIndex(c) /\ fast' = [fast EXCEPT ![c] = "delete"] /\ UNCHANGED faults
     \/ Fault /\ fast' = [fast EXCEPT ![c] = "idle"] /\ (LeaveIndex(c) \/ UNCHANGED index)
  /\ UNCHANGED <<hash, exists, sdk, room, beats, joined, late, changes>>

FastDelete(c) ==
  /\ fast[c] = "delete"
  /\ fast' = [fast EXCEPT ![c] = "idle"]
  /\ \/ DeleteRecord(c) /\ UNCHANGED faults
     \/ Fault /\ UNCHANGED hash
  /\ UNCHANGED <<index, exists, sdk, room, beats, joined, late, changes>>

\* A heartbeat starts a reconciliation: getRoomInfo reads the room, the index, the records
\* of its members, and takes members without a record off the index.
HeartbeatArrives(b) ==
  /\ beats[b].pc = "sent" /\ Hears([type |-> "heartbeat", beat |-> b])
  /\ \/ exists /\ beats' = [beats EXCEPT ![b].pc = "index"] /\ UNCHANGED faults
     \/ ~exists /\ beats' = [beats EXCEPT ![b] = NoBeat] /\ UNCHANGED faults
     \/ Fault /\ beats' = [beats EXCEPT ![b] = NoBeat]
  /\ UNCHANGED <<redis, sdk, up, seat, fast, joined, late, changes>>

\* What getRoomInfo's answer, the clients in `found`, makes of heartbeat b: whom to connect,
\* and whom to disconnect.
ToConnect_Nobody(b, found) == {}
ToConnect(b, found) == {c \in beats[b].list : c \notin found \/ hash[c].st # "connected"}

ToDisconnect_Ungated(b, found) ==
  {c \in found : hash[c].st = "connected" /\ c \notin beats[b].list}
ToDisconnect(b, found) ==
  {c \in found : hash[c].st = "connected" /\ c \notin beats[b].list /\ b \notin hash[c].since}

\* A reconciliation that has nothing left to do is over.
Onward(r) == IF r.pc = "act" /\ r.add = {} /\ r.drop = {} THEN NoBeat ELSE r

Proceeds(b, r) == beats' = [beats EXCEPT ![b] = Onward(r)]
GivesUp(b) == Fault /\ beats' = [beats EXCEPT ![b] = NoBeat]

ReadsIndex(b) ==
  /\ beats[b].pc = "index"
  /\ \/ /\ index = {}
        /\ Proceeds(b, [beats[b] EXCEPT !.pc = "act", !.list = {}, !.add = ToConnect(b, {})])
        /\ UNCHANGED faults
     \/ /\ index # {}
        /\ Proceeds(b, [beats[b] EXCEPT !.pc = "hashes", !.ids = index])
        /\ UNCHANGED faults
     \/ GivesUp(b)
  /\ UNCHANGED <<redis, sdk, room, fast, joined, late, changes>>

\* One pipeline reads all members: exec() resolves whatever fails in it, and an error (the
\* members in F) passes for a record that is not there.  `ids` keeps those not found.
ReadsRecords(b) ==
  /\ beats[b].pc = "hashes"
  /\ \E F \in SUBSET beats[b].ids :
       LET found == {c \in beats[b].ids \ F : hash[c].st # "none"}
           stale == beats[b].ids \ found
       IN /\ Proceeds(b, [beats[b] EXCEPT !.pc = IF stale = {} THEN "act" ELSE "stale",
                                          !.list = {}, !.ids = stale,
                                          !.add = ToConnect(b, found),
                                          !.drop = ToDisconnect(b, found)])
          /\ IF F = {} THEN UNCHANGED faults ELSE Fault
  /\ UNCHANGED <<redis, sdk, room, fast, joined, late, changes>>

CleansIndex(b) ==
  /\ beats[b].pc = "stale"
  /\ \/ /\ index' = index \ beats[b].ids
        /\ Proceeds(b, [beats[b] EXCEPT !.pc = "act", !.ids = {}])
        /\ UNCHANGED faults
     \/ GivesUp(b) /\ UNCHANGED index
  /\ UNCHANGED <<hash, exists, sdk, room, fast, joined, late, changes>>

\* Clients the driver does not have are connected, one after the other; a failure is logged.
Connects(b, c) ==
  /\ beats[b].pc = "act" /\ c \in beats[b].add
  /\ Proceeds(b, [beats[b] EXCEPT !.add = @ \ {c}])
  /\ \/ ConnectClient(c) /\ UNCHANGED faults
     \/ Fault /\ UNCHANGED <<hash, index, late>>
  /\ UNCHANGED <<exists, sdk, room, fast, joined, changes>>

\* Then those the room does not have are disconnected, one after the other: c is the
\* current one while it is in `ids`.
Disconnects(b, c) ==
  /\ beats[b].pc = "act" /\ beats[b].add = {} /\ c \in beats[b].drop
  /\ \/ /\ Proceeds(b, [beats[b] EXCEPT !.pc = AfterRead(c), !.ids = {c}])
        /\ UNCHANGED faults
     \/ /\ Fault
        /\ Proceeds(b, [beats[b] EXCEPT !.drop = @ \ {c}])
  /\ UNCHANGED <<redis, sdk, room, fast, joined, late, changes>>

Done(b, c) == Proceeds(b, [beats[b] EXCEPT !.pc = "act", !.ids = {}, !.drop = @ \ {c}])

Unindexes(b, c) ==
  /\ beats[b].pc = "unindex" /\ beats[b].ids = {c}
  /\ \/ LeaveIndex(c) /\ Proceeds(b, [beats[b] EXCEPT !.pc = "delete"]) /\ UNCHANGED faults
     \/ Fault /\ Done(b, c) /\ (LeaveIndex(c) \/ UNCHANGED index)
  /\ UNCHANGED <<hash, exists, sdk, room, fast, joined, late, changes>>

Deletes(b, c) ==
  /\ beats[b].pc = "delete" /\ beats[b].ids = {c}
  /\ Done(b, c)
  /\ \/ DeleteRecord(c) /\ UNCHANGED faults
     \/ Fault /\ UNCHANGED hash
  /\ UNCHANGED <<index, exists, sdk, room, fast, joined, late, changes>>

-----------------------------------------------------------------------------

SdkStep(c) == \/ Reserve(c) \/ ReserveTtl(c) \/ ReserveIndex(c) \/ ReserveFails(c)
              \/ Expires(c) \/ RemovesClient(c)
SeatStep(c) == Joins(c) \/ Drops(c) \/ Returns(c) \/ Leaves(c)
Message(c) == ConnectedArrives(c) \/ DisconnectedArrives(c)
FastStep(c) == FastUnindex(c) \/ FastDelete(c)
BeatStep(b) ==
  \/ HeartbeatArrives(b) \/ ReadsIndex(b) \/ ReadsRecords(b) \/ CleansIndex(b)
  \/ \E c \in Client : Connects(b, c) \/ Disconnects(b, c) \/ Unindexes(b, c) \/ Deletes(b, c)

Next ==
  \/ \E c \in Client : SdkStep(c) \/ SeatStep(c) \/ Message(c) \/ FastStep(c)
  \/ \E b \in Beat : Captures(b) \/ BeatStep(b)
  \/ RemovalBegins \/ RemovesIndex \/ RemovesRoom \/ RemovalFails
  \/ Ends

Spec == Init /\ [][Next]_vars

\* The heartbeat timer goes on, messages arrive, the driver answers every command.
\* Nothing is assumed of clients, of the sdk or of the room's life.
FairSpec ==
  /\ Spec
  /\ WF_vars(\E b \in Beat : Captures(b))
  /\ \A b \in Beat : WF_vars(BeatStep(b))
  /\ \A c \in Client : WF_vars(Message(c)) /\ WF_vars(FastStep(c))

-----------------------------------------------------------------------------
(* Properties.                                                             *)

\* "A client that connected after the snapshot isn't mistaken for stale state and removed":
\* a seated client is disconnected in the driver only by the removal of the room, by the
\* end of its own earlier stay, or by a heartbeat that was captured while it was away
\* from a seat it had had (in its window, or before it took the seat again).
SeatedStaysConnected ==
  [][\A c \in Client :
       hash[c].st = "connected" /\ hash'[c].st # "connected" /\ seat[c] = "in" =>
         \/ removal # "no"
         \/ fast[c] # "idle"
         \/ \E b \in Beat : c \in beats[b].away]_vars

\* While the room lives, the driver comes to report as connected exactly those who sit in
\* it with a socket, whatever messages' commands failed and however calls overlapped: "this
\* corrects the drift".
Visible == {c \in index : hash[c].st = "connected"}
DriftIsCorrected == <>[](up /\ removal = "no" => Visible = Listed)

\* unregisterRoom leaves no record behind, but those it could not know of: written after it
\* had read the index, or not in the index then.
OrphansAreLate == removal = "done" => \A c \in Client : hash[c].st # "none" => c \in late
=============================================================================
