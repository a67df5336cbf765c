---------------------------- MODULE RedisDriver -----------------------------
(***************************************************************************)
(* What src/src/driver/redis.ts keeps of servers and rooms in Redis, and   *)
(* the calls that change it, command by command: what is between two       *)
(* awaits of a call is one step, and other calls come in between.  A Lua   *)
(* script, a MULTI and a pipeline that reads are one command each.         *)
(*                                                                         *)
(* A caller is the sdk, or one of the three things a server may have under *)
(* way: its heartbeat, its leader duties, its stop().  Each has at most    *)
(* one call.  Clients and their index are in ClientRecords; of the clock   *)
(* only staleness is kept, as in MemoryDriver: a time is read, with a      *)
(* command of its own, when it is used.                                    *)
(***************************************************************************)
EXTENDS Naturals, FiniteSets

CONSTANTS Server, Room, Endpoint, NoServer,
  MaxCalls,     \* bound: calls under way at a time
  MaxFailures   \* bound: commands that fail, and pipelines some commands of which fail

ASSUME RedisAssumption ==
  /\ NoServer \notin Server
  /\ {MaxCalls, MaxFailures} \subseteq Nat

VARIABLES
  \* the keys
  serverHash,   \* servers whose hash has its serverId
  old,          \* those of them whose lastHeartbeat is older than staleServerMs
  servers,      \* the set of server ids
  roomHash,     \* status in each room's hash, "none" without one, "tags" for one that
                \* has no roomId: it holds tags, which somebody wrote to a room that was gone
  rooms,        \* the set of room ids
  byServer,     \* the set of room ids of each server
  leaderKey,    \* who holds the leader lock
  home,         \* serverId, in the hash while there is one: a room id is used once
  endpoint,     \* the endpoint each server heartbeats with
  \* the calls
  call,         \* where each caller is, and what it has read so far
  removal,      \* where each caller is in unregisterRoom of each room
  failures

keyspace == <<serverHash, old, servers, roomHash, rooms, byServer, leaderKey, home>>
calls    == <<call, removal, failures>>

Sdk == <<"sdk", NoServer>>
Caller == {Sdk} \cup ({"beat", "lead", "stop"} \X Server)

Quiet == [at |-> "idle", of |-> "-", ids |-> {}, todo |-> {}, gone |-> {}, seen |-> {},
          who |-> NoServer]

NoRemovals == [r \in Room |-> "no"]

\* As ensureSchemaVersion leaves the keys of another schema: empty.
RedisInit ==
  /\ serverHash = {} /\ old = {} /\ servers = {}
  /\ roomHash = [r \in Room |-> "none"]
  /\ rooms = {}
  /\ byServer = [s \in Server |-> {}]
  /\ leaderKey = NoServer
  /\ home = [r \in Room |-> NoServer]
  /\ endpoint \in [Server -> Endpoint]
  /\ call = [c \in Caller |-> Quiet]
  /\ removal = [c \in Caller |-> NoRemovals]
  /\ failures = 0

\* The rooms of R there are: a hash without a roomId is none.
Alive(R) == {r \in R : roomHash[r] \in {"requested", "running"}}

\* Another call may begin.
UnderWay == {c \in Caller : call[c].at # "idle" \/ removal[c] # NoRemovals}
MayCall == Cardinality(UnderWay) < MaxCalls

\* Call c goes on at another point.
At(c, at) == call' = [call EXCEPT ![c].at = at]

\* A command fails.
Failing == failures < MaxFailures /\ failures' = failures + 1

\* The commands of a pipeline that fail are those about the ids in F: exec() resolves all
\* the same, and who reads its results takes an error for a hash that is not there.
Unread(F) ==
  \/ F = {} /\ UNCHANGED failures
  \/ F # {} /\ Failing

-----------------------------------------------------------------------------
(* One command each.                                                       *)

\* REGISTER_ROOM_SCRIPT, on a server that has a record.
RegisterScript(r, s) ==
  /\ s \in serverHash
  /\ roomHash' = [roomHash EXCEPT ![r] = "requested"]
  /\ home' = [home EXCEPT ![r] = s]
  /\ rooms' = rooms \cup {r}
  /\ byServer' = [byServer EXCEPT ![s] = @ \cup {r}]
  /\ UNCHANGED <<serverHash, old, servers, leaderKey>>

\* ROOM_READY_SCRIPT: it creates nothing.
Ready_Creates(r) == roomHash' = [roomHash EXCEPT ![r] = "running"]
Ready(r) ==
  roomHash' = [roomHash EXCEPT ![r] = IF r \in Alive(Room) THEN "running" ELSE @]

ReadyScript(r) ==
  /\ Ready(r)
  /\ UNCHANGED <<serverHash, old, servers, rooms, byServer, leaderKey, home>>

\* addRoomTags and removeRoomTags: HSET, some time after the hash was read.
TagsWritten(r) ==
  /\ roomHash' = [roomHash EXCEPT ![r] = IF @ = "none" THEN "tags" ELSE @]
  /\ UNCHANGED <<serverHash, old, servers, rooms, byServer, leaderKey, home>>

\* The hash of a requested room reaches its PEXPIRE; the indexes keep its id.
HashLapses(r) ==
  /\ roomHash[r] = "requested"
  /\ roomHash' = [roomHash EXCEPT ![r] = "none"]
  /\ UNCHANGED <<serverHash, old, servers, rooms, byServer, leaderKey, home>>

\* Time passes: no heartbeat of s for staleServerMs.
GrowsOld(s) ==
  /\ s \in serverHash \ old
  /\ old' = old \cup {s}
  /\ UNCHANGED <<serverHash, servers, roomHash, rooms, byServer, leaderKey, home>>

\* REAP_SERVER_SCRIPT deletes s and all that its index names, unless the record is fresh.
Fresh_Unchecked(s) == FALSE
Fresh(s) == s \in serverHash \ old

ReapScript(s) ==
  /\ ~Fresh(s)
  /\ roomHash' = [r \in Room |-> IF r \in byServer[s] THEN "none" ELSE roomHash[r]]
  /\ rooms' = rooms \ byServer[s]
  /\ byServer' = [byServer EXCEPT ![s] = {}]
  /\ serverHash' = serverHash \ {s}
  /\ old' = old \ {s}
  /\ servers' = servers \ {s}
  /\ UNCHANGED <<leaderKey, home>>

\* tryAcquireLeader, renewLeader, releaseLeader, and the lock's PX.
Acquired(s) == leaderKey = NoServer
Renewed(s)  == leaderKey = s
Unlocked(s) == IF leaderKey = s THEN NoServer ELSE leaderKey

-----------------------------------------------------------------------------
(* unregisterRoom and unregisterServer.                                    *)

Removing(c) == {r \in Room : removal[c][r] # "no"}

\* HGETALL for the serverId; SREM of its index; (the clients;) DEL; SREM.
RemovalStep(c, r) ==
  LET next(at) == removal' = [removal EXCEPT ![c][r] = at] IN
  /\ \/ /\ removal[c][r] = "read"
        /\ next(IF r \in Alive(Room) THEN "index" ELSE "hash")
        /\ UNCHANGED <<byServer, roomHash, rooms>>
     \/ /\ removal[c][r] = "index"
        /\ byServer' = [byServer EXCEPT ![home[r]] = @ \ {r}]
        /\ next("hash")
        /\ UNCHANGED <<roomHash, rooms>>
     \/ /\ removal[c][r] = "hash"
        /\ roomHash' = [roomHash EXCEPT ![r] = "none"]
        /\ next("rooms")
        /\ UNCHANGED <<byServer, rooms>>
     \/ /\ removal[c][r] = "rooms"
        /\ rooms' = rooms \ {r}
        /\ next("no")
        /\ UNCHANGED <<byServer, roomHash>>
  /\ UNCHANGED <<serverHash, old, servers, leaderKey, home, call, failures>>

\* unregisterServer of call[c].who, which comes back to the point after.
Unregister(c, after) ==
  LET s == call[c].who IN
  \/ /\ call[c].at = "list"
     /\ call' = [call EXCEPT ![c].at = "rooms?", ![c].todo = byServer[s]]
     /\ UNCHANGED <<keyspace, removal>>
  \/ /\ call[c].at = "rooms?"     \* one room after the other
     /\ Removing(c) = {}
     /\ \E r \in call[c].todo :
          /\ removal' = [removal EXCEPT ![c][r] = "read"]
          /\ call' = [call EXCEPT ![c].todo = @ \ {r}]
     /\ UNCHANGED keyspace
  \/ /\ call[c].at = "rooms?"
     /\ call[c].todo = {} /\ Removing(c) = {}
     /\ byServer' = [byServer EXCEPT ![s] = {}]
     /\ At(c, "hash")
     /\ UNCHANGED <<serverHash, old, servers, roomHash, rooms, leaderKey, home, removal>>
  \/ /\ call[c].at = "hash"
     /\ serverHash' = serverHash \ {s}
     /\ old' = old \ {s}
     /\ At(c, "ids")
     /\ UNCHANGED <<servers, roomHash, rooms, byServer, leaderKey, home, removal>>
  \/ /\ call[c].at = "ids"
     /\ servers' = servers \ {s}
     /\ call' = [call EXCEPT ![c].at = after, ![c].who = NoServer]
     /\ UNCHANGED <<serverHash, old, roomHash, rooms, byServer, leaderKey, home, removal>>

-----------------------------------------------------------------------------
(* Reads that clean the indexes they read: of the ids without a hash, and  *)
(* of those whose hash was not read (F).                                   *)

\* getRoomsForServer of the servers in call[c].ids: SMEMBERS of their indexes, the
\* hashes, and SREM of the ids that had none; then the call goes on at after.
RoomsOfServers(c, after) ==
  LET indexed == UNION {byServer[s] : s \in call[c].ids} IN
  \/ /\ call[c].at = "index"
     /\ call' = [call EXCEPT ![c].todo = indexed,
                            ![c].at = IF indexed = {} THEN after ELSE "hashes"]
     /\ UNCHANGED <<keyspace, failures>>
  \/ /\ call[c].at = "hashes"
     /\ \E F \in SUBSET call[c].todo :
          LET alive == Alive(call[c].todo) \ F
              dead == call[c].todo \ alive
          IN /\ Unread(F)
             /\ call' = [call EXCEPT ![c].todo = {}, ![c].gone = dead,
                                     ![c].seen = @ \cup alive,
                                     ![c].at = IF dead = {} THEN after ELSE "drop"]
     /\ UNCHANGED keyspace
  \/ /\ call[c].at = "drop"
     /\ byServer' = [s \in Server |-> IF s \in call[c].ids
                                      THEN byServer[s] \ call[c].gone ELSE byServer[s]]
     /\ call' = [call EXCEPT ![c].gone = {}, ![c].at = after]
     /\ UNCHANGED <<serverHash, old, servers, roomHash, rooms, leaderKey, home, failures>>

\* listServers and listStaleServers: SMEMBERS of the ids, the hashes, SREM of the ids
\* that had none; what it lists is in ids, and the call goes on at next.
Listed(kind, ids) == IF kind = "fresh" THEN (ids \cap serverHash) \ old ELSE ids \cap old

ServersRead(c, kind, next) ==
  \/ /\ call[c].at = "servers"
     /\ call' = [call EXCEPT ![c].ids = servers,
                            ![c].at = IF servers = {} THEN next ELSE "records"]
     /\ UNCHANGED <<keyspace, failures>>
  \/ /\ call[c].at = "records"
     /\ \E F \in SUBSET call[c].ids :
          LET dead == F \cup (call[c].ids \ serverHash) IN
          /\ Unread(F)
          /\ call' = [call EXCEPT ![c].ids = Listed(kind, @ \ F), ![c].gone = dead,
                                  ![c].at = IF dead = {} THEN next ELSE "forget"]
     /\ UNCHANGED keyspace
  \/ /\ call[c].at = "forget"
     /\ servers' = servers \ call[c].gone
     /\ call' = [call EXCEPT ![c].gone = {}, ![c].at = next]
     /\ UNCHANGED <<serverHash, old, roomHash, rooms, byServer, leaderKey, home, failures>>

\* listRooms: the same of the set of room ids; what it finds is left in todo.
RoomsRead(c, after) ==
  \/ /\ call[c].at = "rooms"
     /\ call' = [call EXCEPT ![c].todo = rooms,
                            ![c].at = IF rooms = {} THEN after ELSE "all hashes"]
     /\ UNCHANGED <<keyspace, failures>>
  \/ /\ call[c].at = "all hashes"
     /\ \E F \in SUBSET call[c].todo :
          LET alive == Alive(call[c].todo) \ F
              dead == call[c].todo \ alive
          IN /\ Unread(F)
             /\ call' = [call EXCEPT ![c].todo = alive, ![c].gone = dead,
                                     ![c].at = IF dead = {} THEN after ELSE "drop all"]
     /\ UNCHANGED keyspace
  \/ /\ call[c].at = "drop all"
     /\ rooms' = rooms \ call[c].gone
     /\ call' = [call EXCEPT ![c].gone = {}, ![c].at = after]
     /\ UNCHANGED <<serverHash, old, servers, roomHash, byServer, leaderKey, home, failures>>

-----------------------------------------------------------------------------
(* heartbeat.                                                              *)

\* TIME, then the MULTI: it makes the record if there is none, which is how the caller
\* learns that it was gone, and stamps it.
HeartbeatMulti(s) ==
  LET c == <<"beat", s>> IN
  /\ call[c].at = "multi"
  /\ call' = [call EXCEPT ![c].at = IF s \in serverHash THEN "index" ELSE "evict",
                         ![c].ids = {s},
                         ![c].of = IF s \in serverHash THEN "known" ELSE "registered"]
  /\ serverHash' = serverHash \cup {s}
  /\ servers' = servers \cup {s}
  /\ old' = old \ {s}
  /\ UNCHANGED <<roomHash, rooms, byServer, leaderKey, home, removal>>

\* A new record: the other servers on its endpoint are unregistered, one by one.
Evicted(s) == {o \in (servers \cap serverHash) \ {s} : endpoint[o] = endpoint[s]}

HeartbeatEvict(s) ==
  LET c == <<"beat", s>> IN
  \/ /\ call[c].at = "evict"
     /\ call' = [call EXCEPT ![c].ids = Evicted(s), ![c].at = "victim"]
     /\ UNCHANGED <<keyspace, removal>>
  \/ /\ call[c].at = "victim"
     /\ \E o \in call[c].ids :
          call' = IF o \in serverHash
                  THEN [call EXCEPT ![c].ids = @ \ {o}, ![c].who = o, ![c].at = "list"]
                  ELSE [call EXCEPT ![c].ids = @ \ {o}]
     /\ UNCHANGED <<keyspace, removal>>
  \/ /\ call[c].at = "victim" /\ call[c].ids = {}
     /\ call' = [call EXCEPT ![c].ids = {s}, ![c].at = "index"]
     /\ UNCHANGED <<keyspace, removal>>
  \/ Unregister(c, "victim")

\* All of it up to its reply, which is at "reply": the desired rooms in seen.
Heartbeat(s) ==
  \/ (HeartbeatMulti(s) \/ HeartbeatEvict(s)) /\ UNCHANGED failures
  \/ RoomsOfServers(<<"beat", s>>, "reply") /\ UNCHANGED removal

=============================================================================
