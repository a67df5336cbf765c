------------------------------- MODULE Fleet --------------------------------
(***************************************************************************)
(* Several servers on one Redis: their heartbeats, the leader they elect   *)
(* and its duties (src/src/server/server.ts), restarts and crashes, and an *)
(* sdk that creates and destroys rooms.  The calls into the driver are     *)
(* RedisDriver's, one command at a time; here a process decides what to    *)
(* call next.  What happens inside one server is ControlPlane's subject:   *)
(* here an assignment arrives or is lost, a room becomes ready in one step, *)
(* and a heartbeat's reply is acted upon in one step but for the commands  *)
(* of the recovery.                                                        *)
(***************************************************************************)
EXTENDS RedisDriver

CONSTANTS
  MaxDown,      \* bound: servers that stop or crash
  MaxAlike,     \* bound: heartbeats under way at a time, and leader loops
  MaxStale,     \* bound: servers whose record is stale at a time
  MaxExpiries   \* bound: leader locks that expire although their holder is up

ASSUME FleetAssumption == {MaxDown, MaxAlike, MaxStale, MaxExpiries} \subseteq Nat

VARIABLES
  life,         \* "off", "up", "stopping", "down" of each server process
  isLeader,     \* servers with s.isLeader
  previously,   \* servers with s.previouslyRegistered
  local,        \* rooms in the s.processes of each server
  ready,        \* rooms whose process is ready
  attempted,    \* rooms some server has spawned
  expiries,
  known,        \* rooms each heartbeat may destroy: local ones when it asked
  \* history
  excused,      \* rooms the sdk has destroyed, whose record has lapsed, or that a
                \* recovery has registered again
  missed        \* rooms there were that some listRooms left out, an error in its pipeline

processes == <<life, isLeader, previously, local, ready, attempted, known, expiries>>
history   == <<excused, missed>>
vars      == <<keyspace, endpoint, calls, processes, history>>

Beat(s) == <<"beat", s>>
Lead(s) == <<"lead", s>>
Stop(s) == <<"stop", s>>

Steps == {"idle", "multi", "evict", "victim", "list", "rooms?", "hash", "ids", "index",
          "hashes", "drop", "reply", "register", "confirm", "lock", "servers", "records",
          "forget", "listed", "rooms", "all hashes", "drop all", "orphans", "release",
          "tags"}

TypeOK ==
  /\ old \subseteq serverHash
  /\ {serverHash, servers, isLeader, previously} \subseteq SUBSET Server
  /\ roomHash \in [Room -> {"none", "requested", "running", "tags"}]
  /\ {rooms, ready, attempted, excused, missed} \subseteq SUBSET Room
  /\ {byServer, local, known} \subseteq [Server -> SUBSET Room]
  /\ leaderKey \in Server \cup {NoServer}
  /\ home \in [Room -> Server \cup {NoServer}]
  /\ \A r \in Room : roomHash[r] # "none" => home[r] # NoServer
  /\ \A s \in Server : \A r \in byServer[s] \cup local[s] : home[r] = s
  /\ ready \subseteq UNION {local[s] : s \in Server}
  /\ \A s \in Server : life[s] \in {"off", "down"} => local[s] = {} /\ s \notin isLeader
  /\ endpoint \in [Server -> Endpoint]
  /\ life \in [Server -> {"off", "up", "stopping", "down"}]
  /\ \A c \in Caller :
       /\ call[c].at \in Steps
       /\ call[c].ids \subseteq Server
       /\ {call[c].todo, call[c].seen} \subseteq SUBSET Room
       /\ call[c].gone \subseteq Room \cup Server
       /\ call[c].who \in Server \cup {NoServer}
  /\ removal \in [Caller -> [Room -> {"no", "read", "index", "hash", "rooms"}]]
  /\ failures \in 0..MaxFailures
  /\ expiries \in 0..MaxExpiries

Init ==
  /\ RedisInit
  /\ life \in [Server -> {"up", "off"}]
  /\ \A s \in Server : \E o \in Server : endpoint[o] = endpoint[s] /\ life[o] = "up"
  /\ \A s, o \in Server : (life[s] = "up" /\ life[o] = "up" /\ s # o) =>
                            endpoint[s] # endpoint[o]
  /\ isLeader = {} /\ previously = {} /\ expiries = 0
  /\ local = [s \in Server |-> {}]
  /\ ready = {} /\ attempted = {}
  /\ known = [s \in Server |-> {}]
  /\ excused = {} /\ missed = {}

-----------------------------------------------------------------------------
(* Processes come and go.                                                  *)

\* A server starts; a restarted one has a new id, and its predecessor on the endpoint
\* is no more.
Starts(s) ==
  /\ life[s] = "off"
  /\ \A o \in Server : endpoint[o] = endpoint[s] => life[o] \notin {"up", "stopping"}
  /\ life' = [life EXCEPT ![s] = "up"]
  /\ UNCHANGED <<expiries, keyspace, endpoint, calls, isLeader, previously, local, ready,
                 attempted, known, history>>

MayGoDown ==
  Cardinality({s \in Server : life[s] \in {"stopping", "down"}}) < MaxDown

\* The processes of s are gone, and what it has called goes on no further.
Gone(s) ==
  /\ life' = [life EXCEPT ![s] = "down"]
  /\ isLeader' = isLeader \ {s}
  /\ previously' = previously \ {s}
  /\ local' = [local EXCEPT ![s] = {}]
  /\ ready' = ready \ local[s]
  /\ known' = [known EXCEPT ![s] = {}]

Crashes(s) ==
  /\ life[s] = "stopping" \/ (life[s] = "up" /\ MayGoDown)
  /\ Gone(s)
  /\ call' = [c \in Caller |-> IF c \in {Beat(s), Lead(s), Stop(s)} THEN Quiet ELSE call[c]]
  /\ removal' = [c \in Caller |->
                   IF c \in {Beat(s), Lead(s), Stop(s)} THEN NoRemovals ELSE removal[c]]
  /\ UNCHANGED <<expiries, keyspace, endpoint, failures, attempted, history>>

\* stop(): the lock, if it has it; its record and its rooms'; its processes.  A tick
\* under way goes on, but comes to nothing at its next look at isCurrent().
StopBegins(s) ==
  /\ life[s] = "up" /\ MayCall /\ MayGoDown
  /\ life' = [life EXCEPT ![s] = "stopping"]
  /\ call' = [call EXCEPT ![Stop(s)] =
                [Quiet EXCEPT !.at = IF s \in isLeader THEN "release" ELSE "list", !.who = s]]
  /\ UNCHANGED <<expiries, keyspace, endpoint, removal, failures, isLeader, previously, local,
                 ready, attempted, known, history>>

StopReleases(s) ==
  /\ call[Stop(s)].at = "release"
  /\ leaderKey' = Unlocked(s)
  /\ isLeader' = isLeader \ {s}
  /\ At(Stop(s), "list")
  /\ UNCHANGED <<expiries, serverHash, old, servers, roomHash, rooms, byServer, home, endpoint,
                 removal, failures, life, previously, local, ready, attempted, known,
                 history>>

StopUnregisters(s) ==
  /\ Unregister(Stop(s), "reply")
  /\ UNCHANGED <<endpoint, failures, processes, history>>

StopEnds(s) ==
  /\ call[Stop(s)].at = "reply"
  /\ Gone(s)
  /\ At(Stop(s), "idle")
  /\ UNCHANGED <<expiries, keyspace, endpoint, removal, failures, attempted, history>>

-----------------------------------------------------------------------------
(* The sdk, and the assignment of rooms.                                   *)

Spawnable_Down(s, r) == r \notin attempted
Spawnable(s, r) == life[s] = "up" /\ r \notin attempted

\* Rooms of R are spawned by s.
Spawn(s, R) ==
  /\ local' = [local EXCEPT ![s] = @ \cup R]
  /\ attempted' = attempted \cup R

\* createRoom registers the room; the push that is part of it arrives or is lost.
Creates(r, s) ==
  /\ home[r] = NoServer
  /\ RegisterScript(r, s)
  /\ \/ Spawnable(s, r) /\ Spawn(s, {r})
     \/ UNCHANGED <<local, attempted>>
  /\ UNCHANGED <<expiries, endpoint, calls, life, isLeader, previously, ready, known, history>>

\* destroyRoom, or createRoom once its wait has failed.
Destroys(r) ==
  /\ home[r] # NoServer /\ removal[Sdk][r] = "no" /\ MayCall
  /\ removal' = [removal EXCEPT ![Sdk][r] = "read"]
  /\ excused' = excused \cup {r}
  /\ UNCHANGED <<keyspace, endpoint, call, failures, processes, missed>>

\* The sdk adds or removes tags: RoomNotFoundError if there is no such room, when it looks.
Tags(r) ==
  /\ call[Sdk] = Quiet /\ (Sdk \in UnderWay \/ MayCall)
  /\ r \in Alive(Room)
  /\ call' = [call EXCEPT ![Sdk] = [Quiet EXCEPT !.at = "tags", !.todo = {r}]]
  /\ UNCHANGED <<keyspace, endpoint, removal, failures, processes, history>>

Tagged(r) ==
  /\ call[Sdk].at = "tags" /\ r \in call[Sdk].todo
  /\ TagsWritten(r)
  /\ call' = [call EXCEPT ![Sdk] = Quiet]
  /\ UNCHANGED <<endpoint, removal, failures, processes, history>>

Removes(c, r) ==
  /\ RemovalStep(c, r)
  /\ UNCHANGED <<endpoint, processes, history>>

Lapses(r) ==
  /\ HashLapses(r)
  /\ excused' = excused \cup {r}
  /\ UNCHANGED <<endpoint, calls, processes, missed>>

\* A room process becomes ready: roomReady, which ends a room whose record is gone.
BecomesReady(s, r) ==
  /\ r \in local[s] \ ready
  /\ ReadyScript(r)
  /\ IF roomHash[r] = "none"
     THEN local' = [local EXCEPT ![s] = @ \ {r}] /\ UNCHANGED ready
     ELSE ready' = ready \cup {r} /\ UNCHANGED local
  /\ UNCHANGED <<expiries, endpoint, calls, life, isLeader, previously, attempted, known, history>>

Ages(s) ==
  /\ Cardinality(old) < MaxStale
  /\ GrowsOld(s)
  /\ UNCHANGED <<endpoint, calls, processes, history>>

-----------------------------------------------------------------------------
(* heartbeatTick.                                                          *)

BeatStarts(s) ==
  /\ life[s] = "up"
  /\ call[Beat(s)].at = "idle" /\ MayCall
  /\ Cardinality({o \in Server : Beat(o) \in UnderWay}) < MaxAlike
  /\ At(Beat(s), "multi")
  /\ known' = [known EXCEPT ![s] = local[s]]
  /\ UNCHANGED <<expiries, keyspace, endpoint, removal, failures, life, isLeader, previously, local,
                 ready, attempted, history>>

Beats(s) ==
  /\ Heartbeat(s)
  /\ UNCHANGED <<endpoint, processes, history>>

\* A run whose server has stopped meanwhile discards the reply.
ReplyDiscarded(s) ==
  /\ call[Beat(s)].at = "reply" /\ life[s] # "up"
  /\ call' = [call EXCEPT ![Beat(s)] = Quiet]
  /\ UNCHANGED <<keyspace, endpoint, removal, failures, processes, history>>

\* What the recovery registers again: the ready rooms that the reply does not name.
Lost(s) ==
  IF call[Beat(s)].of = "registered" /\ s \in previously
  THEN (local[s] \cap ready) \ call[Beat(s)].seen
  ELSE {}

\* The sweep and the reconciliation of the reply.
Settle(s) ==
  LET wanted == call[Beat(s)].seen
      spawned == {r \in wanted : Spawnable(s, r)}
      kept == {r \in local[s] : r \in wanted \/ r \notin known[s]}
  IN /\ local' = [local EXCEPT ![s] = kept \cup spawned]
     /\ ready' = ready \ (local[s] \ kept)
     /\ attempted' = attempted \cup spawned
     /\ previously' = previously \cup {s}
     /\ known' = [known EXCEPT ![s] = {}]
     /\ call' = [call EXCEPT ![Beat(s)] = Quiet]

ReplyActedOn(s) ==
  /\ call[Beat(s)].at = "reply" /\ life[s] = "up"
  /\ IF Lost(s) = {} THEN Settle(s)
     ELSE /\ call' = [call EXCEPT ![Beat(s)].at = "register", ![Beat(s)].todo = Lost(s)]
          /\ UNCHANGED <<previously, local, ready, attempted, known>>
  /\ UNCHANGED <<expiries, keyspace, endpoint, removal, failures, life, isLeader, history>>

\* The recovery: registerRoom and roomReady for each.
Registers(s, r) ==
  /\ call[Beat(s)].at = "register" /\ r \in call[Beat(s)].todo
  /\ RegisterScript(r, s)
  /\ call' = [call EXCEPT ![Beat(s)].at = "confirm", ![Beat(s)].gone = {r}]
  /\ excused' = excused \cup {r}
  /\ UNCHANGED <<endpoint, removal, failures, processes, missed>>

\* Without a server record, or if the command fails, the room is passed over.
PassedOver(s, r) ==
  /\ call[Beat(s)].at = "register" /\ r \in call[Beat(s)].todo
  /\ \/ s \notin serverHash /\ UNCHANGED failures
     \/ Failing
  /\ call' = [call EXCEPT ![Beat(s)].todo = @ \ {r}]
  /\ UNCHANGED <<keyspace, endpoint, removal, processes, history>>

Confirms(s, r) ==
  /\ call[Beat(s)].at = "confirm" /\ r \in call[Beat(s)].gone
  /\ ReadyScript(r)
  /\ call' = [call EXCEPT ![Beat(s)].at = "register", ![Beat(s)].gone = {},
                         ![Beat(s)].todo = @ \ {r}, ![Beat(s)].seen = @ \cup {r}]
  /\ UNCHANGED <<endpoint, removal, failures, processes, history>>

\* roomReady fails, its script run or not: the room is registered, and passed over.
Unconfirmed(s, r) ==
  /\ call[Beat(s)].at = "confirm" /\ r \in call[Beat(s)].gone
  /\ Failing
  /\ ReadyScript(r) \/ UNCHANGED keyspace
  /\ call' = [call EXCEPT ![Beat(s)].at = "register", ![Beat(s)].gone = {},
                         ![Beat(s)].todo = @ \ {r}]
  /\ UNCHANGED <<endpoint, removal, processes, history>>

Recovered(s) ==
  /\ call[Beat(s)].at = "register" /\ call[Beat(s)].todo = {}
  /\ Settle(s)
  /\ UNCHANGED <<expiries, keyspace, endpoint, removal, failures, life, isLeader, history>>

-----------------------------------------------------------------------------
(* The leader loop and its duties.                                         *)

LeadStarts(l) ==
  /\ life[l] = "up"
  /\ Cardinality({s \in Server : Lead(s) \in UnderWay}) < MaxAlike
  /\ Lead(l) \notin UnderWay /\ MayCall
  /\ At(Lead(l), "lock")
  /\ UNCHANGED <<keyspace, endpoint, removal, failures, processes, history>>

\* renewLeader or tryAcquireLeader; the loop has stopped if the server has.
Holds(l) == IF l \in isLeader THEN Renewed(l) ELSE Acquired(l)

LeadLocks(l) ==
  /\ call[Lead(l)].at = "lock"
  /\ leaderKey' = IF Holds(l) THEN l ELSE leaderKey
  /\ IF life[l] # "up" THEN UNCHANGED isLeader
     ELSE isLeader' = IF Holds(l) THEN isLeader \cup {l} ELSE isLeader \ {l}
  /\ call' = [call EXCEPT ![Lead(l)] =
                IF Holds(l) /\ life[l] = "up" THEN [Quiet EXCEPT !.at = "servers", !.of = "reap"]
                ELSE Quiet]
  /\ UNCHANGED <<expiries, serverHash, old, servers, roomHash, rooms, byServer, home, endpoint,
                 removal, failures, life, previously, local, ready, attempted, known,
                 history>>

LockExpires ==
  /\ leaderKey # NoServer
  /\ expiries' = IF life[leaderKey] = "up" THEN expiries + 1 ELSE expiries
  /\ expiries' <= MaxExpiries
  /\ leaderKey' = NoServer
  /\ UNCHANGED <<serverHash, old, servers, roomHash, rooms, byServer, home, endpoint,
                 calls, life, isLeader, previously, local, ready, attempted, known, history>>

\* Which servers listing call[c].of is of.  The rooms of those that are listed to be
\* reaped are of no use; their reading is left out, as the listings that follow clean the
\* same indexes.
Kind == [reap |-> "stale", fresh |-> "fresh", stale |-> "stale"]

LeadLists(l) ==
  /\ call[Lead(l)].of \in DOMAIN Kind
  /\ \/ ServersRead(Lead(l), Kind[call[Lead(l)].of],
                    IF call[Lead(l)].of = "reap" THEN "listed" ELSE "index")
     \/ RoomsOfServers(Lead(l), "listed")
  /\ UNCHANGED <<endpoint, removal, processes, history>>

\* reapStaleServers: each server listed, if it still is stale.
Reaping == {"reap", "failed"}

Reaps(l, s) ==
  /\ call[Lead(l)].at = "listed" /\ call[Lead(l)].of \in Reaping
  /\ s \in call[Lead(l)].ids
  /\ IF Fresh(s) THEN UNCHANGED keyspace ELSE ReapScript(s)
  /\ call' = [call EXCEPT ![Lead(l)].ids = @ \ {s}]
  /\ UNCHANGED <<endpoint, removal, failures, processes, history>>

\* A reap fails, its script run or not: the others are under way, and end the duties.
ReapFails(l, s) ==
  /\ call[Lead(l)].at = "listed" /\ call[Lead(l)].of \in Reaping
  /\ s \in call[Lead(l)].ids
  /\ Failing
  /\ ReapScript(s) \/ UNCHANGED keyspace
  /\ call' = [call EXCEPT ![Lead(l)].ids = @ \ {s}, ![Lead(l)].of = "failed"]
  /\ UNCHANGED <<endpoint, removal, processes, history>>

LeadGivesUp(l) ==
  /\ call[Lead(l)].at = "listed" /\ call[Lead(l)].of = "failed" /\ call[Lead(l)].ids = {}
  /\ call' = [call EXCEPT ![Lead(l)] = Quiet]
  /\ UNCHANGED <<keyspace, endpoint, removal, failures, processes, history>>

\* cleanOrphanedRoomEntries: all servers with their rooms, then all rooms.
LeadGoesOn(l) ==
  LET c == Lead(l) IN
  /\ call[c].at = "listed" /\ call[c].of # "failed"
  /\ call[c].of = "reap" => call[c].ids = {}
  /\ call' = [call EXCEPT ![c].ids = {},
                 ![c].at = IF call[c].of = "stale" THEN "rooms" ELSE "servers",
                 ![c].of = CASE @ = "reap" -> "fresh" [] @ = "fresh" -> "stale"
                             [] OTHER -> "rooms"]
  /\ UNCHANGED <<keyspace, endpoint, removal, failures, processes, history>>

LeadListsRooms(l) ==
  /\ RoomsRead(Lead(l), "orphans")
  /\ missed' = IF call[Lead(l)].at = "all hashes"
               THEN missed \cup (Alive(call[Lead(l)].todo) \ call'[Lead(l)].todo)
               ELSE missed
  /\ UNCHANGED <<endpoint, removal, processes, excused>>

\* What a server's index names and the set of rooms does not is unregistered.
Orphans(l) == call[Lead(l)].seen \ call[Lead(l)].todo

LeadCleans(l) ==
  /\ call[Lead(l)].at = "orphans"
  /\ removal' = [removal EXCEPT ![Lead(l)] =
                    [r \in Room |-> IF r \in Orphans(l) THEN "read" ELSE "no"]]
  /\ call' = [call EXCEPT ![Lead(l)] = Quiet]
  /\ UNCHANGED <<keyspace, endpoint, failures, processes, history>>

-----------------------------------------------------------------------------

\* Where a call awaits a command that nothing catches the failure of.
Exposed == {"multi", "evict", "victim", "list", "rooms?", "hash", "ids", "index", "drop",
            "lock", "servers", "forget", "rooms", "drop all", "release", "tags"}

\* It fails and with it the call: nothing is undone, the loops call again.
Fails(c) ==
  /\ call[c].at \in Exposed
  /\ Failing
  /\ call' = [call EXCEPT ![c] = Quiet]
  /\ removal' = [removal EXCEPT ![c] = IF c = Sdk THEN @ ELSE NoRemovals]
  /\ UNCHANGED <<keyspace, endpoint, processes, history>>

\* The sdk's and the leader's unregisterRooms do not wait for each other, and one that
\* fails ends alone.
RemovalFails(c, r) ==
  /\ removal[c][r] # "no"
  /\ Failing
  /\ removal' = [removal EXCEPT ![c][r] = "no"]
  /\ UNCHANGED <<keyspace, endpoint, call, processes, history>>

BeatGoesOn(s) ==
  \/ Beats(s) \/ ReplyDiscarded(s) \/ ReplyActedOn(s) \/ Recovered(s)
  \/ \E r \in Room : \/ Registers(s, r) \/ PassedOver(s, r)
                     \/ Confirms(s, r) \/ Unconfirmed(s, r)
                     \/ Removes(Beat(s), r)

LeadGoes(l) ==
  \/ LeadLocks(l) \/ LeadLists(l) \/ LeadGoesOn(l) \/ LeadListsRooms(l)
  \/ LeadCleans(l) \/ LeadGivesUp(l)
  \/ \E s \in Server : Reaps(l, s) \/ ReapFails(l, s)
  \/ \E r \in Room : Removes(Lead(l), r) \/ RemovalFails(Lead(l), r)

StopGoesOn(s) ==
  \/ StopReleases(s) \/ StopUnregisters(s) \/ StopEnds(s)
  \/ \E r \in Room : Removes(Stop(s), r)

Next ==
  \/ \E s \in Server :
       \/ Starts(s) \/ Crashes(s) \/ StopBegins(s) \/ StopGoesOn(s)
       \/ BeatStarts(s) \/ BeatGoesOn(s) \/ LeadStarts(s) \/ LeadGoes(s)
       \/ Ages(s)
       \/ \E r \in Room : Creates(r, s) \/ BecomesReady(s, r)
  \/ \E r \in Room : \/ Destroys(r) \/ Removes(Sdk, r) \/ RemovalFails(Sdk, r)
                     \/ Lapses(r) \/ Tags(r) \/ Tagged(r)
  \/ LockExpires
  \/ \E c \in Caller : Fails(c)

Spec == Init /\ [][Next]_vars

-----------------------------------------------------------------------------
(* Properties.                                                             *)

\* Servers and rooms as the callers of the driver know them.
KnownTo(r) == r \in Alive(Room) /\ r \in byServer[home[r]]

Status  == [r \in Room |-> IF KnownTo(r) THEN roomHash[r] ELSE "none"]
OwnedBy == [r \in Room |-> IF KnownTo(r) THEN home[r] ELSE NoServer]

Memory == INSTANCE MemoryDriver WITH
  Atomic <- FALSE, servers <- serverHash, room <- Status, owner <- OwnedBy

\* However the commands of different calls interleave, each step of the Redis driver is a
\* call of the memory driver: a room comes only from registerRoom on a server with a
\* record, a late roomReady revives nothing, only requested rooms lapse, and the step that
\* removes a server removes rooms of its own and of no other.
ActsAsMemoryDriver == Memory!Spec

\* The leader's duties spare a room that runs on a server that is up: however old what
\* they read is, they take neither a server whose heartbeat has resumed nor a room that
\* was registered since for an orphan.  A room that an error hid from some listRooms is
\* left out: it is taken for an orphan, and unregistered although it is well.
LeaderActs(l) ==
  call'[Lead(l)] # call[Lead(l)] \/ removal'[Lead(l)] # removal[Lead(l)]

LeaderSparesLiveRooms ==
  [][\A r \in ready \ (excused \cup missed) :
       (\E l \in Server : LeaderActs(l)) /\ life[home[r]] = "up" /\ home[r] \notin old =>
         (roomHash[r] = "running" => roomHash'[r] = "running")]_vars

=============================================================================
