---------------------------- MODULE Fleet_proofs ----------------------------
(***************************************************************************)
(* Proofs about Fleet, for any servers, rooms, endpoints and bounds: the   *)
(* types, and that the Redis driver, called by such a fleet, implements    *)
(* the memory driver.                                                      *)
(***************************************************************************)
EXTENDS Fleet, TLAPS

Statuses == {"none", "requested", "running", "tags"}

\* The keys: a room that has a hash has had a server, and an index names rooms of its own
\* server only.
StoreInv ==
  /\ serverHash \subseteq Server
  /\ old \subseteq serverHash
  /\ servers \subseteq Server
  /\ endpoint \in [Server -> Endpoint]
  /\ roomHash \in [Room -> Statuses]
  /\ rooms \subseteq Room
  /\ byServer \in [Server -> SUBSET Room]
  /\ home \in [Room -> Server \cup {NoServer}]
  /\ leaderKey \in Server \cup {NoServer}
  /\ \A r \in Room : roomHash[r] # "none" => home[r] # NoServer
  /\ \A s \in Server : \A r \in byServer[s] : home[r] = s

\* A room keeps the server it has once got.
HomesStay == \A r \in Room : home[r] # NoServer => home'[r] = home[r]

\* What Memory sees.
store == <<serverHash, old, roomHash, byServer, home, endpoint>>

-----------------------------------------------------------------------------
(* The refinement, by what a step does to the keys.                        *)

LEMMA NoServerIsNone == NoServer \notin Server
BY RedisAssumption

\* Who sees what: a room is seen by its server's index and its hash.
LEMMA Seeing ==
  ASSUME NEW r \in Room
  PROVE  /\ Status[r] = (IF KnownTo(r) THEN roomHash[r] ELSE "none")
         /\ OwnedBy[r] = (IF KnownTo(r) THEN home[r] ELSE NoServer)
         /\ Status'[r] = (IF KnownTo(r)' THEN roomHash'[r] ELSE "none")
         /\ OwnedBy'[r] = (IF KnownTo(r)' THEN home'[r] ELSE NoServer)
         /\ KnownTo(r) <=> roomHash[r] \in {"requested", "running"} /\ r \in byServer[home[r]]
         /\ KnownTo(r)' <=> roomHash'[r] \in {"requested", "running"} /\ r \in byServer'[home'[r]]
BY DEF Status, OwnedBy, KnownTo, Alive

LEMMA SeenAlike ==
  ASSUME \A r \in Room : Status'[r] = Status[r] /\ OwnedBy'[r] = OwnedBy[r]
  PROVE  Status' = Status /\ OwnedBy' = OwnedBy
BY DEF Status, OwnedBy

LEMMA Blind ==
  ASSUME UNCHANGED store
  PROVE  UNCHANGED Memory!vars
BY DEF store, Memory!vars, Status, OwnedBy, KnownTo, Alive

\* Rooms of R disappear from sight and nothing else does.
LEMMA Vanish ==
  ASSUME NEW R, \A r \in Room : KnownTo(r)' <=> KnownTo(r) /\ r \notin R,
         \A r \in Room : KnownTo(r)' => roomHash'[r] = roomHash[r] /\ home'[r] = home[r]
  PROVE  Memory!RoomsGone(R)
<1>1. \A r \in Room : /\ Status'[r] = IF r \in R THEN "none" ELSE Status[r]
                      /\ OwnedBy'[r] = IF r \in R THEN NoServer ELSE OwnedBy[r]
  BY Seeing
<1>2. QED
  BY <1>1 DEF Memory!RoomsGone, Status, OwnedBy

\* ... which is some unregisterRoom, of what was seen of R, if the servers stay.
LEMMA VanishRooms ==
  ASSUME NEW R, \A r \in Room : KnownTo(r)' <=> KnownTo(r) /\ r \notin R,
         \A r \in Room : KnownTo(r)' => roomHash'[r] = roomHash[r] /\ home'[r] = home[r],
         UNCHANGED <<serverHash, old, endpoint>>
  PROVE  Memory!Next
<1> DEFINE T == {r \in Room : r \in R /\ KnownTo(r)}
<1>1. Memory!RoomsGone(T)
  BY Vanish
<1>2. \A r \in T : Status[r] # "none"
  BY Seeing
<1>3. Memory!UnregisterRoom(T)
  BY <1>1, <1>2 DEF Memory!UnregisterRoom
<1>4. T \in SUBSET Room
  OBVIOUS
<1>5. QED
  BY <1>3, <1>4 DEF Memory!Next

LEMMA MapsRegister ==
  ASSUME StoreInv, NEW r \in Room, NEW s \in Server, RegisterScript(r, s),
         home[r] \in {NoServer, s}, UNCHANGED endpoint
  PROVE  Memory!Next
<1> USE NoServerIsNone
<1>1. /\ serverHash' = serverHash /\ old' = old /\ s \in serverHash
      /\ roomHash'[r] = "requested" /\ home'[r] = s /\ r \in byServer'[s]
  BY DEF RegisterScript, StoreInv
<1>2. \A o \in Room : o # r => /\ roomHash'[o] = roomHash[o] /\ home'[o] = home[o]
                               /\ \A t \in Server : o \in byServer'[t] <=> o \in byServer[t]
  BY DEF RegisterScript, StoreInv
<1>3. \A o \in Room : o # r => (KnownTo(o)' <=> KnownTo(o))
  BY <1>2, Seeing DEF StoreInv
<1>4. KnownTo(r)'
  BY <1>1, Seeing
<1>5. Status'[r] = "requested" /\ OwnedBy'[r] = s
  BY <1>1, <1>4, Seeing
<1>6. \A o \in Room : o # r => Status'[o] = Status[o] /\ OwnedBy'[o] = OwnedBy[o]
  BY <1>2, <1>3, Seeing
<1>7. Status' = [Status EXCEPT ![r] = "requested"] /\ OwnedBy' = [OwnedBy EXCEPT ![r] = s]
  BY <1>5, <1>6 DEF Status, OwnedBy
<1>8. Memory!RegisterRoom(r, s)
  BY <1>1, <1>7 DEF Memory!RegisterRoom
<1>9. QED
  BY <1>8 DEF Memory!Next

LEMMA MapsReady ==
  ASSUME StoreInv, NEW r \in Room, ReadyScript(r), UNCHANGED endpoint
  PROVE  Memory!Next \/ UNCHANGED Memory!vars
<1>1. UNCHANGED <<serverHash, old, byServer, home, endpoint>>
  BY DEF ReadyScript
<1>2. roomHash' = [roomHash EXCEPT ![r] = IF r \in Alive(Room) THEN "running" ELSE @]
  BY DEF ReadyScript, Ready
<1>3. \A o \in Room : o # r => roomHash'[o] = roomHash[o]
  BY <1>2 DEF StoreInv
<1>4. \A o \in Room : KnownTo(o)' <=> KnownTo(o)
  BY <1>1, <1>2, Seeing DEF Alive, StoreInv
<1>5. CASE KnownTo(r)
  <2>1. roomHash'[r] = "running"
    BY <1>2, <1>5, Seeing DEF Alive, StoreInv
  <2>2. Status' = [Status EXCEPT ![r] = "running"] /\ OwnedBy' = OwnedBy
    BY <1>1, <1>3, <1>4, <1>5, <2>1, Seeing DEF Status, OwnedBy
  <2>3. Status[r] # "none"
    BY <1>5, Seeing
  <2>4. Memory!RoomReady(r)
    BY <1>1, <2>2, <2>3 DEF Memory!RoomReady
  <2>5. QED
    BY <2>4 DEF Memory!Next
<1>6. CASE ~KnownTo(r)
  <2>1. Status' = Status /\ OwnedBy' = OwnedBy
    BY <1>1, <1>3, <1>4, <1>6, Seeing, SeenAlike
  <2>2. QED
    BY <1>1, <2>1 DEF Memory!vars
<1>7. QED
  BY <1>5, <1>6

LEMMA MapsTags ==
  ASSUME StoreInv, NEW r \in Room, TagsWritten(r), UNCHANGED endpoint
  PROVE  UNCHANGED Memory!vars
<1>1. UNCHANGED <<serverHash, old, byServer, home, endpoint>>
  BY DEF TagsWritten
<1>2. \A o \in Room : roomHash'[o] = roomHash[o] \/ (roomHash[o] = "none" /\ roomHash'[o] = "tags")
  BY DEF TagsWritten, StoreInv
<1>3. \A o \in Room : KnownTo(o)' <=> KnownTo(o)
  BY <1>1, <1>2, Seeing
<1>4. Status' = Status /\ OwnedBy' = OwnedBy
  BY <1>1, <1>2, <1>3, Seeing, SeenAlike
<1>5. QED
  BY <1>1, <1>4 DEF Memory!vars

LEMMA MapsLapse ==
  ASSUME StoreInv, NEW r \in Room, HashLapses(r), UNCHANGED endpoint
  PROVE  Memory!Next
<1>1. UNCHANGED <<serverHash, old, byServer, home, endpoint>>
  BY DEF HashLapses
<1>2. roomHash'[r] = "none" /\ \A o \in Room : o # r => roomHash'[o] = roomHash[o]
  BY DEF HashLapses, StoreInv
<1>3. \A o \in Room : KnownTo(o)' <=> KnownTo(o) /\ o \notin {r}
  BY <1>1, <1>2, Seeing
<1>4. \A o \in Room : KnownTo(o)' => roomHash'[o] = roomHash[o] /\ home'[o] = home[o]
  BY <1>1, <1>2, <1>3
<1>5. QED
  BY <1>1, <1>3, <1>4, VanishRooms

LEMMA MapsAge ==
  ASSUME NEW s \in Server, GrowsOld(s), UNCHANGED endpoint
  PROVE  Memory!Next
<1>1. Status' = Status /\ OwnedBy' = OwnedBy
  BY DEF GrowsOld, Status, OwnedBy, KnownTo, Alive
<1>2. Memory!GrowsOld(s)
  BY <1>1 DEF GrowsOld, Memory!GrowsOld
<1>3. QED
  BY <1>2 DEF Memory!Next

LEMMA MapsReap ==
  ASSUME StoreInv, NEW s \in Server, ReapScript(s), UNCHANGED endpoint
  PROVE  Memory!Next
<1> USE NoServerIsNone
<1>1. /\ home' = home /\ serverHash' = serverHash \ {s} /\ old' = old \ {s}
      /\ \A r \in Room : roomHash'[r] = IF r \in byServer[s] THEN "none" ELSE roomHash[r]
      /\ byServer' = [byServer EXCEPT ![s] = {}]
  BY DEF ReapScript
<1>2. \A r \in Room : KnownTo(r)' <=> KnownTo(r) /\ r \notin byServer[s]
  BY <1>1, Seeing DEF StoreInv
<1>3. \A r \in Room : KnownTo(r)' => roomHash'[r] = roomHash[r] /\ home'[r] = home[r]
  BY <1>1, <1>2
<1>4. CASE s \in old
  <2>1. \A r \in Room : KnownTo(r) => (r \in byServer[s] <=> OwnedBy[r] = s)
    BY Seeing DEF StoreInv
  <2>2. \A r \in Room : KnownTo(r)' <=> KnownTo(r) /\ r \notin Memory!RoomsOf({s})
    BY <1>2, <2>1, Seeing DEF Memory!RoomsOf
  <2>3. Memory!RoomsGone(Memory!RoomsOf({s}))
    BY <1>3, <2>2, Vanish
  <2>4. Memory!ReapServer(s)
    BY <1>1, <1>4, <2>3 DEF Memory!ReapServer, Memory!DeleteServers
  <2>5. QED
    BY <2>4 DEF Memory!Next
<1>5. CASE s \notin old
  <2>1. UNCHANGED <<serverHash, old, endpoint>>
    BY <1>1, <1>5 DEF ReapScript, Fresh
  <2>2. QED
    BY <1>2, <1>3, <2>1, VanishRooms
<1>6. QED
  BY <1>4, <1>5

LEMMA MapsRemoval ==
  ASSUME StoreInv, NEW c \in Caller, NEW r \in Room, RemovalStep(c, r), UNCHANGED endpoint
  PROVE  Memory!Next \/ UNCHANGED Memory!vars
<1>1. UNCHANGED <<serverHash, old, home, endpoint>>
  BY DEF RemovalStep
<1>2. \/ byServer' = byServer
      \/ /\ removal[c][r] = "index" /\ roomHash' = roomHash
         /\ byServer' = [byServer EXCEPT ![home[r]] = @ \ {r}]
  BY DEF RemovalStep
<1>3. \/ roomHash' = roomHash
      \/ byServer' = byServer /\ roomHash' = [roomHash EXCEPT ![r] = "none"]
  BY DEF RemovalStep
<1>4. CASE byServer' = byServer /\ roomHash' = roomHash
  BY <1>1, <1>4, Blind DEF store
<1>5. CASE byServer' = byServer /\ roomHash' = [roomHash EXCEPT ![r] = "none"]
  <2>1. \A o \in Room : roomHash'[o] = IF o = r THEN "none" ELSE roomHash[o]
    BY <1>5 DEF StoreInv
  <2>2. \A o \in Room : KnownTo(o)' <=> KnownTo(o) /\ o \notin {r}
    BY <1>1, <1>5, <2>1, Seeing
  <2>3. \A o \in Room : KnownTo(o)' => roomHash'[o] = roomHash[o] /\ home'[o] = home[o]
    BY <1>1, <2>1, <2>2
  <2>4. QED
    BY <1>1, <2>2, <2>3, VanishRooms
<1>6. CASE roomHash' = roomHash /\ byServer' = [byServer EXCEPT ![home[r]] = @ \ {r}]
  <2>1. \A o \in Room : home[o] \in Server =>
          (o \in byServer'[home[o]] <=> o \in byServer[home[o]] /\ o # r)
    BY <1>6 DEF StoreInv
  <2>2. \A o \in Room : KnownTo(o)' <=> KnownTo(o) /\ o \notin {r}
    BY <1>1, <1>6, <2>1, Seeing DEF StoreInv
  <2>3. QED
    BY <1>1, <1>6, <2>2, VanishRooms
<1>7. QED
  BY <1>2, <1>3, <1>4, <1>5, <1>6

LEMMA MapsUnregister ==
  ASSUME StoreInv, NEW c \in Caller, NEW after, Unregister(c, after), UNCHANGED endpoint
  PROVE  Memory!Next \/ UNCHANGED Memory!vars
<1> DEFINE s == call[c].who
<1> USE NoServerIsNone
<1>1. UNCHANGED <<roomHash, home, endpoint>>
  BY DEF Unregister, keyspace
<1>2. \/ UNCHANGED store
      \/ byServer' = [byServer EXCEPT ![s] = {}] /\ UNCHANGED <<serverHash, old>>
      \/ serverHash' = serverHash \ {s} /\ old' = old \ {s} /\ UNCHANGED byServer
  BY <1>1 DEF Unregister, keyspace, store
<1>3. CASE byServer' = [byServer EXCEPT ![s] = {}] /\ UNCHANGED <<serverHash, old>>
  <2>1. \A r \in Room : home[r] \in Server =>
          (r \in byServer'[home[r]] <=> r \in byServer[home[r]] /\ home[r] # s)
    BY <1>3 DEF StoreInv
  <2>2. \A r \in Room : r \in {x \in Room : home[x] = s} <=> home[r] = s
    OBVIOUS
  <2>3. \A r \in Room : KnownTo(r)' <=> KnownTo(r) /\ r \notin {x \in Room : home[x] = s}
    BY <1>1, <2>1, <2>2, Seeing DEF StoreInv
  <2>4. QED
    BY <1>1, <1>3, <2>3, VanishRooms
<1>4. CASE serverHash' = serverHash \ {s} /\ old' = old \ {s} /\ UNCHANGED byServer
  <2>1. Status' = Status /\ OwnedBy' = OwnedBy
    BY <1>1, <1>4, Seeing, SeenAlike
  <2>2. CASE s \in serverHash
    <3>1. Memory!RoomsGone({})
      BY <2>1 DEF Memory!RoomsGone, Status, OwnedBy
    <3>2. Memory!UnregisterServer(s)
      BY <1>1, <1>4, <2>2, <3>1 DEF Memory!UnregisterServer
    <3>3. QED
      BY <2>2, <3>2 DEF Memory!Next, StoreInv
  <2>3. CASE s \notin serverHash
    BY <1>1, <1>4, <2>1, <2>3 DEF StoreInv, Memory!vars
  <2>4. QED
    BY <2>2, <2>3
<1>5. QED
  BY <1>2, <1>3, <1>4, Blind

LEMMA MapsListing ==
  ASSUME StoreInv, NEW c \in Caller, NEW after, RoomsOfServers(c, after), UNCHANGED endpoint
  PROVE  Memory!Next \/ UNCHANGED Memory!vars
<1> DEFINE ids == call[c].ids
           gone == call[c].gone
<1> USE NoServerIsNone
<1>1. UNCHANGED <<serverHash, old, roomHash, home, endpoint>>
  BY DEF RoomsOfServers, keyspace
<1>2. CASE byServer' = byServer
  BY <1>1, <1>2, Blind DEF store
<1>3. CASE byServer' = [t \in Server |-> IF t \in ids THEN byServer[t] \ gone ELSE byServer[t]]
  <2>1. \A r \in Room : home[r] \in Server =>
          (r \in byServer'[home[r]] <=> r \in byServer[home[r]] /\ ~(home[r] \in ids /\ r \in gone))
    BY <1>3
  <2>2. \A r \in Room : r \in {x \in Room : home[x] \in ids /\ x \in gone} <=>
                          home[r] \in ids /\ r \in gone
    OBVIOUS
  <2>3. \A r \in Room : KnownTo(r)' <=>
          KnownTo(r) /\ r \notin {x \in Room : home[x] \in ids /\ x \in gone}
    BY <1>1, <2>1, <2>2, Seeing DEF StoreInv
  <2>4. QED
    BY <1>1, <2>3, VanishRooms
<1>4. QED
  BY <1>2, <1>3 DEF RoomsOfServers, keyspace

LEMMA MapsHeartbeat ==
  ASSUME StoreInv, NEW s \in Server, HeartbeatMulti(s), UNCHANGED endpoint
  PROVE  Memory!Next
<1>1. /\ UNCHANGED <<roomHash, byServer, home, endpoint>>
      /\ serverHash' = serverHash \cup {s} /\ old' = old \ {s}
  BY DEF HeartbeatMulti
<1>2. Status' = Status /\ OwnedBy' = OwnedBy
  BY <1>1, Seeing, SeenAlike
<1>3. CASE s \in serverHash
  <2>1. Memory!Refresh(s)
    BY <1>1, <1>2, <1>3 DEF Memory!Refresh
  <2>2. QED
    BY <2>1 DEF Memory!Next
<1>4. CASE s \notin serverHash
  <2>1. Memory!Predecessors(s) = {} /\ Memory!RoomsOf({}) = {}
    BY DEF Memory!Predecessors, Memory!RoomsOf
  <2>2. Memory!RoomsGone({})
    BY <1>2 DEF Memory!RoomsGone, Status, OwnedBy
  <2>3. Memory!Register(s)
    BY <1>1, <1>4, <2>1, <2>2 DEF Memory!Register
  <2>4. QED
    BY <2>3 DEF Memory!Next
<1>5. QED
  BY <1>3, <1>4

-----------------------------------------------------------------------------
(* The rest of the invariant.                                              *)

Calls == [at: Steps, of: {"-", "known", "registered", "reap", "fresh", "stale", "rooms", "failed"},
          ids: SUBSET Server, todo: SUBSET Room, gone: SUBSET (Room \cup Server),
          seen: SUBSET Room, who: Server \cup {NoServer}]

CallInv ==
  /\ call \in [Caller -> Calls]
  /\ \A c \in Caller : call[c].at \in {"release", "list"} => call[c].who \in Server
  /\ removal \in [Caller -> [Room -> {"no", "read", "index", "hash", "rooms"}]]
  /\ failures \in 0..MaxFailures

\* The processes of a server are rooms of it.
ProcessInv ==
  /\ life \in [Server -> {"off", "up", "stopping", "down"}]
  /\ isLeader \subseteq Server
  /\ previously \subseteq Server
  /\ local \in [Server -> SUBSET Room]
  /\ known \in [Server -> SUBSET Room]
  /\ ready \subseteq Room
  /\ attempted \subseteq Room
  /\ excused \subseteq Room
  /\ missed \subseteq Room
  /\ expiries \in 0..MaxExpiries
  /\ \A s \in Server : \A r \in local[s] : home[r] = s
  /\ \A r \in ready : \E s \in Server : r \in local[s]
  /\ \A s \in Server : life[s] \in {"off", "down"} => local[s] = {} /\ s \notin isLeader

HomeOf(s) == {r \in Room : home[r] = s}

\* What a heartbeat works on are rooms of its server, however long ago it read them ...
BeatInv(s) ==
  /\ call[Beat(s)].seen \subseteq HomeOf(s)
  /\ call[Beat(s)].at \in {"index", "hashes"} => call[Beat(s)].ids = {s}
  /\ call[Beat(s)].at \in {"hashes", "register", "confirm"} => call[Beat(s)].todo \subseteq HomeOf(s)
  /\ call[Beat(s)].at = "confirm" => call[Beat(s)].gone \subseteq HomeOf(s)

\* ... and what the sdk writes tags to was once a room.
SdkInv == call[Sdk].at = "tags" => \A r \in call[Sdk].todo : home[r] # NoServer

ReadsInv == SdkInv /\ \A s \in Server : BeatInv(s)

Inv == StoreInv /\ CallInv /\ ProcessInv /\ ReadsInv

-----------------------------------------------------------------------------

LEMMA Callers ==
  /\ Sdk \in Caller
  /\ \A s \in Server : /\ {Beat(s), Lead(s), Stop(s)} \subseteq Caller
                        /\ Beat(s) # Sdk /\ Lead(s) # Sdk /\ Stop(s) # Sdk
  /\ \A s, o \in Server : /\ Beat(s) # Lead(o) /\ Beat(s) # Stop(o) /\ Lead(s) # Stop(o)
                           /\ Beat(s) = Beat(o) => s = o
BY DEF Caller, Sdk, Beat, Lead, Stop

LEMMA QuietCall == Quiet \in Calls
BY DEF Quiet, Calls, Steps

\* The bounds of the counters.
LEMMA Bounds == MaxFailures \in Nat /\ MaxExpiries \in Nat
BY RedisAssumption, FleetAssumption

LEMMA CallTyped == CallInv => call \in [Caller -> Calls]
BY DEF CallInv

LEMMA InitInv == Init => Inv
<1> SUFFICES ASSUME Init PROVE Inv
  OBVIOUS
<1> USE DEF Init, RedisInit
<1>1. StoreInv
  BY NoServerIsNone DEF StoreInv, Statuses
<1>2. CallInv
  <2>1. call \in [Caller -> Calls] /\ \A c \in Caller : call[c].at = "idle"
    BY QuietCall DEF Quiet
  <2>2. QED
    BY <2>1, Bounds DEF CallInv, NoRemovals
<1>3. ProcessInv
  BY Bounds DEF ProcessInv
<1>4. ReadsInv
  <2>1. \A c \in Caller : call[c].at = "idle" /\ call[c].seen = {}
    BY DEF Quiet
  <2>2. QED
    BY <2>1, Callers DEF ReadsInv, SdkInv, BeatInv
<1>5. QED
  BY <1>1, <1>2, <1>3, <1>4 DEF Inv

\* What a step does to the keys.
Kinds ==
  \/ /\ UNCHANGED store
     /\ servers' \subseteq Server /\ rooms' \subseteq Room
     /\ leaderKey' \in Server \cup {NoServer}
  \/ \E r \in Room : \/ \E s \in Server : home[r] \in {NoServer, s} /\ RegisterScript(r, s)
                     \/ home[r] # NoServer /\ TagsWritten(r)
                     \/ ReadyScript(r)
                     \/ HashLapses(r)
                     \/ \E c \in Caller : RemovalStep(c, r)
  \/ \E s \in Server : GrowsOld(s) \/ ReapScript(s) \/ HeartbeatMulti(s)
  \/ \E c \in Caller : \E after \in Steps : Unregister(c, after) \/ RoomsOfServers(c, after)

LEMMA StoreStep ==
  ASSUME Inv, [Next]_vars
  PROVE  Kinds /\ endpoint' = endpoint
<1> USE Callers DEF Inv
<1> DEFINE Good == Kinds /\ endpoint' = endpoint
<1>2. ASSUME UNCHANGED <<keyspace, endpoint>> PROVE Good
  BY <1>2 DEF keyspace, Kinds, store, StoreInv
<1>3. CASE UNCHANGED vars
  BY <1>2, <1>3 DEF vars
<1>4. ASSUME NEW s \in Server,
             \/ Starts(s) \/ Crashes(s) \/ StopBegins(s) \/ StopEnds(s) \/ BeatStarts(s)
             \/ ReplyDiscarded(s) \/ ReplyActedOn(s) \/ Recovered(s) \/ LeadStarts(s)
             \/ LeadGoesOn(s) \/ LeadCleans(s) \/ LeadGivesUp(s)
             \/ \E r \in Room : PassedOver(s, r)
      PROVE  Good
  BY <1>2, <1>4 DEF Starts, Crashes, StopBegins, StopEnds, BeatStarts, ReplyDiscarded, ReplyActedOn,
              Recovered, LeadStarts, LeadGoesOn, LeadCleans, LeadGivesUp, PassedOver
<1>5. ASSUME \/ \E r \in Room : Destroys(r) \/ Tags(r)
             \/ \E c \in Caller : Fails(c) \/ \E r \in Room : RemovalFails(c, r)
      PROVE  Good
  BY <1>2, <1>5 DEF Destroys, Tags, Fails, RemovalFails
<1>6. ASSUME NEW s \in Server, StopReleases(s) \/ LeadLocks(s)
      PROVE  Good
  BY <1>6 DEF StopReleases, LeadLocks, Unlocked, Kinds, store, StoreInv
<1>7. ASSUME NEW c \in Caller, NEW r \in Room, Removes(c, r) PROVE Good
  BY <1>7 DEF Removes, Kinds
<1>8. ASSUME NEW s \in Server, StopUnregisters(s) PROVE Good
  BY <1>8 DEF StopUnregisters, Kinds, Steps
<1>9. ASSUME NEW s \in Server, Beats(s) PROVE Good
  <2>1. HeartbeatMulti(s) \/ RoomsOfServers(Beat(s), "reply") \/ Unregister(Beat(s), "victim")
        \/ UNCHANGED <<keyspace, endpoint>>
    BY <1>9 DEF Beats, Heartbeat, HeartbeatEvict, Beat
  <2>2. "reply" \in Steps /\ "victim" \in Steps
    BY DEF Steps
  <2>3. QED
    BY <1>2, <1>9, <2>1, <2>2 DEF Beats, Kinds
<1>10. ASSUME NEW s \in Server, LeadLists(s) PROVE Good
  <2>1. CASE RoomsOfServers(Lead(s), "listed")
    BY <1>10, <2>1 DEF LeadLists, Kinds, Steps
  <2>2. CASE ~RoomsOfServers(Lead(s), "listed")
    <3>1. UNCHANGED <<serverHash, old, roomHash, rooms, byServer, leaderKey, home, endpoint>>
      BY <1>10, <2>2 DEF LeadLists, ServersRead, keyspace
    <3>2. servers' \subseteq servers
      BY <1>10, <2>2 DEF LeadLists, ServersRead, keyspace
    <3>3. QED
      BY <3>1, <3>2 DEF Kinds, store, StoreInv
  <2>3. QED
    BY <2>1, <2>2
<1>11. ASSUME NEW s \in Server, LeadListsRooms(s) PROVE Good
  <2>1. UNCHANGED <<serverHash, old, servers, roomHash, byServer, leaderKey, home, endpoint>>
    BY <1>11 DEF LeadListsRooms, RoomsRead, keyspace
  <2>2. rooms' \subseteq rooms
    BY <1>11 DEF LeadListsRooms, RoomsRead, keyspace
  <2>3. QED
    BY <2>1, <2>2 DEF Kinds, store, StoreInv
<1>12. ASSUME NEW l \in Server, NEW s \in Server, Reaps(l, s) \/ ReapFails(l, s) PROVE Good
  BY <1>2, <1>12 DEF Reaps, ReapFails, Kinds
<1>13. ASSUME NEW s \in Server, Ages(s) PROVE Good
  BY <1>13 DEF Ages, Kinds
<1>14. ASSUME NEW r \in Room, NEW s \in Server, Creates(r, s) PROVE Good
  BY <1>14 DEF Creates, Kinds
<1>15. ASSUME NEW r \in Room, NEW s \in Server, BecomesReady(s, r) PROVE Good
  BY <1>15 DEF BecomesReady, Kinds
<1>16. ASSUME NEW r \in Room, Lapses(r) PROVE Good
  BY <1>16 DEF Lapses, Kinds
<1>17. ASSUME NEW r \in Room, Tagged(r) PROVE Good
  BY <1>17 DEF Tagged, Kinds, ReadsInv, SdkInv
<1>18. ASSUME NEW r \in Room, NEW s \in Server, Confirms(s, r) \/ Unconfirmed(s, r) PROVE Good
  BY <1>2, <1>18 DEF Confirms, Unconfirmed, Kinds
<1>19. ASSUME NEW r \in Room, NEW s \in Server, Registers(s, r) PROVE Good
  <2>1. r \in HomeOf(s)
    BY <1>19 DEF Registers, ReadsInv, BeatInv
  <2>2. QED
    BY <1>19, <2>1 DEF Registers, Kinds, HomeOf
<1>20. ASSUME NEW s \in Server, StopGoesOn(s) PROVE Good
  BY <1>4, <1>6, <1>7, <1>8, <1>20 DEF StopGoesOn
<1>21. ASSUME NEW s \in Server, BeatGoesOn(s) PROVE Good
  BY <1>4, <1>7, <1>9, <1>18, <1>19, <1>21 DEF BeatGoesOn
<1>22. ASSUME NEW s \in Server, LeadGoes(s) PROVE Good
  BY <1>4, <1>5, <1>6, <1>7, <1>10, <1>11, <1>12, <1>22, Callers DEF LeadGoes
<1>23. CASE LockExpires
  BY <1>23 DEF LockExpires, Kinds, store, StoreInv
<1>24. QED
  BY <1>3, <1>4, <1>5, <1>7, <1>13, <1>14, <1>15, <1>16, <1>17, <1>20, <1>21, <1>22, <1>23 DEF Next

\* A step is a call of the memory driver, or none that it could see.
LEMMA StepMaps ==
  ASSUME Inv, [Next]_vars
  PROVE  [Memory!Next]_(Memory!vars)
<1>1. endpoint' = endpoint /\ Kinds
  BY StoreStep
<1>2. StoreInv
  BY DEF Inv
<1>3. QED
  BY <1>1, <1>2, Blind, MapsRegister, MapsTags, MapsReady, MapsLapse, MapsRemoval, MapsAge, MapsReap,
     MapsHeartbeat, MapsUnregister, MapsListing DEF Kinds

-----------------------------------------------------------------------------
(* The invariant is inductive.                                             *)

LEMMA StoreStays ==
  ASSUME Inv, [Next]_vars
  PROVE  StoreInv' /\ HomesStay
<1> USE NoServerIsNone
<1>1. StoreInv /\ Kinds /\ endpoint' = endpoint
  BY StoreStep DEF Inv
<1>2. CASE /\ UNCHANGED store
           /\ servers' \subseteq Server /\ rooms' \subseteq Room
           /\ leaderKey' \in Server \cup {NoServer}
  BY <1>1, <1>2 DEF store, StoreInv, HomesStay
<1>3. ASSUME NEW r \in Room, NEW s \in Server, home[r] \in {NoServer, s}, RegisterScript(r, s)
      PROVE  StoreInv' /\ HomesStay
  BY <1>1, <1>3 DEF RegisterScript, StoreInv, HomesStay, Statuses
<1>4. ASSUME NEW r \in Room, \/ home[r] # NoServer /\ TagsWritten(r)
                             \/ ReadyScript(r)
                             \/ HashLapses(r)
      PROVE  StoreInv' /\ HomesStay
  BY <1>1, <1>4 DEF TagsWritten, ReadyScript, Ready, Alive, HashLapses, StoreInv, HomesStay, Statuses
<1>5. ASSUME NEW r \in Room, NEW c \in Caller, RemovalStep(c, r)
      PROVE  StoreInv' /\ HomesStay
  BY <1>1, <1>5 DEF RemovalStep, StoreInv, HomesStay, Statuses
<1>6. ASSUME NEW s \in Server, GrowsOld(s) \/ ReapScript(s) \/ HeartbeatMulti(s)
      PROVE  StoreInv' /\ HomesStay
  BY <1>1, <1>6 DEF GrowsOld, ReapScript, HeartbeatMulti, StoreInv, HomesStay, Statuses
<1>7. ASSUME NEW c \in Caller, NEW after \in Steps, Unregister(c, after)
      PROVE  StoreInv' /\ HomesStay
  BY <1>1, <1>7 DEF Unregister, keyspace, StoreInv, HomesStay, Statuses
<1>8. ASSUME NEW c \in Caller, NEW after \in Steps, RoomsOfServers(c, after)
      PROVE  StoreInv' /\ HomesStay
  <2>1. /\ UNCHANGED <<serverHash, old, servers, roomHash, rooms, leaderKey, home>>
        /\ \/ byServer' = byServer
           \/ byServer' = [s \in Server |-> IF s \in call[c].ids
                                            THEN byServer[s] \ call[c].gone ELSE byServer[s]]
    BY <1>8 DEF RoomsOfServers, keyspace
  <2>2. QED
    BY <1>1, <2>1 DEF StoreInv, HomesStay
<1>9. QED
  BY <1>1, <1>2, <1>3, <1>4, <1>5, <1>6, <1>7, <1>8 DEF Kinds

\* ProcessInv: what a step does to the processes.
LEMMA ProcessStays ==
  ASSUME Inv, [Next]_vars
  PROVE  ProcessInv'
<1>1. HomesStay
  BY StoreStays
<1> USE <1>1, NoServerIsNone DEF Inv, history
<1>2. ASSUME UNCHANGED processes, excused' \subseteq Room, missed' \subseteq Room PROVE ProcessInv'
  BY <1>2 DEF processes, ProcessInv, HomesStay
<1>3. ASSUME NEW s \in Server, Starts(s) PROVE ProcessInv'
  BY <1>3 DEF Starts, ProcessInv, HomesStay
<1>4. ASSUME NEW s \in Server, Gone(s), UNCHANGED <<expiries, attempted, history>> PROVE ProcessInv'
  BY <1>4 DEF Gone, ProcessInv, HomesStay
<1>5. ASSUME NEW s \in Server, StopBegins(s) PROVE ProcessInv'
  BY <1>5 DEF StopBegins, ProcessInv, HomesStay
<1>6. ASSUME NEW s \in Server, StopReleases(s) PROVE ProcessInv'
  BY <1>6 DEF StopReleases, ProcessInv, HomesStay
<1>7. ASSUME NEW s \in Server, NEW r \in Room, Creates(r, s) PROVE ProcessInv'
  <2>1. home'[r] = s
    BY <1>7 DEF Creates, RegisterScript, StoreInv
  <2>2. CASE UNCHANGED <<local, attempted>>
    BY <1>7, <2>2 DEF Creates, ProcessInv, HomesStay
  <2>3. CASE Spawnable(s, r) /\ Spawn(s, {r})
    BY <1>7, <2>1, <2>3 DEF Creates, Spawnable, Spawn, ProcessInv, HomesStay
  <2>4. QED
    BY <1>7, <2>2, <2>3 DEF Creates
<1>8. ASSUME NEW s \in Server, NEW r \in Room, BecomesReady(s, r) PROVE ProcessInv'
  BY <1>8 DEF BecomesReady, ProcessInv, HomesStay
<1>9. ASSUME NEW s \in Server, BeatStarts(s) PROVE ProcessInv'
  BY <1>9 DEF BeatStarts, ProcessInv, HomesStay
<1>10. ASSUME NEW s \in Server, Settle(s), UNCHANGED <<expiries, life, isLeader, history>>
       PROVE  ProcessInv'
  <2>1. call[Beat(s)].seen \subseteq HomeOf(s)
    BY DEF ReadsInv, BeatInv
  <2> DEFINE wanted == call[Beat(s)].seen
             spawned == {r \in wanted : Spawnable(s, r)}
             kept == {r \in local[s] : r \in wanted \/ r \notin known[s]}
  <2>2. /\ local' = [local EXCEPT ![s] = kept \cup spawned]
        /\ ready' = ready \ (local[s] \ kept)
        /\ attempted' = attempted \cup spawned
        /\ previously' = previously \cup {s}
        /\ known' = [known EXCEPT ![s] = {}]
    BY <1>10 DEF Settle
  <2>3. /\ kept \subseteq local[s]
        /\ \A r \in spawned : r \in Room /\ home[r] = s /\ life[s] = "up"
    BY <2>1 DEF Spawnable, HomeOf
  <2> HIDE DEF kept, spawned
  <2>4. QED
    BY <1>10, <2>2, <2>3 DEF ProcessInv, HomesStay
<1>11. ASSUME NEW s \in Server, ReplyActedOn(s) \/ Recovered(s) PROVE ProcessInv'
  BY <1>2, <1>10, <1>11 DEF ReplyActedOn, Recovered, processes, ProcessInv
<1>12. ASSUME NEW s \in Server, LeadLocks(s) PROVE ProcessInv'
  BY <1>12 DEF LeadLocks, ProcessInv, HomesStay
<1>13. CASE LockExpires
  BY <1>13, Bounds DEF LockExpires, ProcessInv, HomesStay
<1>14. ASSUME NEW s \in Server, StopGoesOn(s) PROVE ProcessInv'
  <2>1. CASE StopUnregisters(s) \/ \E r \in Room : Removes(Stop(s), r)
    BY <1>2, <2>1 DEF StopUnregisters, Removes, ProcessInv
  <2>2. CASE StopEnds(s)
    BY <1>4, <2>2 DEF StopEnds
  <2>3. QED
    BY <1>6, <1>14, <2>1, <2>2 DEF StopGoesOn
<1>15. ASSUME NEW s \in Server, BeatGoesOn(s) PROVE ProcessInv'
  <2>1. CASE Beats(s) \/ ReplyDiscarded(s)
    BY <1>2, <2>1 DEF Beats, ReplyDiscarded, ProcessInv
  <2>2. ASSUME NEW r \in Room, \/ Registers(s, r) \/ PassedOver(s, r) \/ Confirms(s, r)
                               \/ Unconfirmed(s, r) \/ Removes(Beat(s), r)
        PROVE  ProcessInv'
    BY <1>2, <2>2 DEF Registers, PassedOver, Confirms, Unconfirmed, Removes, ProcessInv
  <2>3. QED
    BY <1>11, <1>15, <2>1, <2>2 DEF BeatGoesOn
<1>16. ASSUME NEW s \in Server, LeadGoes(s) PROVE ProcessInv'
  <2>1. Alive(call[Lead(s)].todo) \subseteq Room
    BY CallTyped, Callers DEF Alive, Calls
  <2>2. LeadListsRooms(s) => UNCHANGED processes /\ excused' \subseteq Room /\ missed' \subseteq Room
    BY <2>1 DEF LeadListsRooms, ProcessInv
  <2>3. QED
    BY <1>2, <1>12, <1>16, <2>2
       DEF LeadGoes, LeadLists, LeadGoesOn, LeadGivesUp, LeadCleans, Reaps, ReapFails, Removes,
           RemovalFails, ProcessInv
<1>17. ASSUME NEW s \in Server, LeadStarts(s) \/ Ages(s) PROVE ProcessInv'
  BY <1>2, <1>17 DEF LeadStarts, Ages, ProcessInv
<1>18. ASSUME NEW s \in Server, Crashes(s) PROVE ProcessInv'
  BY <1>4, <1>18 DEF Crashes
<1>19. ASSUME NEW r \in Room, \/ Destroys(r) \/ Removes(Sdk, r) \/ RemovalFails(Sdk, r)
                              \/ Lapses(r) \/ Tags(r) \/ Tagged(r)
       PROVE  ProcessInv'
  BY <1>2, <1>19 DEF Destroys, Removes, RemovalFails, Lapses, Tags, Tagged, ProcessInv
<1>20. ASSUME NEW c \in Caller, Fails(c) PROVE ProcessInv'
  BY <1>2, <1>20 DEF Fails, ProcessInv
<1>21. CASE UNCHANGED vars
  BY <1>2, <1>21 DEF vars, ProcessInv
<1>22. QED
  BY <1>3, <1>5, <1>7, <1>8, <1>9, <1>13, <1>14, <1>15, <1>16, <1>17, <1>18, <1>19, <1>20, <1>21
     DEF Next

\* Nothing fails, or one command more than before.
Counted == failures' = failures \/ Failing

\* A step of call c, which changes nothing of the others.
Moves(c) == call' = [call EXCEPT ![c] = call'[c]] /\ UNCHANGED removal /\ Counted

LEMMA CountedStays == ASSUME failures \in 0..MaxFailures, Counted PROVE failures' \in 0..MaxFailures
BY Bounds DEF Counted, Failing

LEMMA UnreadCounted == \A F : Unread(F) => Counted
BY DEF Unread, Counted

LEMMA CallMoves ==
  ASSUME CallInv, NEW c \in Caller, call'[c] \in Calls, Moves(c),
         call'[c].at \in {"release", "list"} => call'[c].who \in Server
  PROVE  CallInv'
BY CountedStays DEF CallInv, Moves

\* The commands of the driver, by the call that gives them.
LEMMA PointMoves ==
  ASSUME CallInv, NEW c \in Caller, NEW at \in Steps \ {"release", "list"}, At(c, at),
         UNCHANGED <<removal, failures>>
  PROVE  CallInv'
<1>1. call \in [Caller -> Calls]
  BY CallTyped
<1>2. call'[c] \in Calls /\ call'[c].at = at /\ Moves(c)
  BY <1>1 DEF At, Calls, Moves, Counted
<1>3. QED
  BY <1>2, CallMoves

LEMMA QuietMoves ==
  ASSUME CallInv, NEW c \in Caller, call' = [call EXCEPT ![c] = Quiet], UNCHANGED <<removal, failures>>
  PROVE  CallInv'
BY QuietCall, CallMoves, CallTyped DEF Quiet, Moves, Counted

LEMMA RemovalMoves ==
  ASSUME CallInv, NEW c \in Caller, NEW r \in Room, RemovalStep(c, r)
  PROVE  CallInv'
BY DEF RemovalStep, CallInv

LEMMA UnregisterMoves ==
  ASSUME CallInv, StoreInv, NEW c \in Caller, NEW after \in Steps \ {"release", "list"},
         Unregister(c, after), UNCHANGED failures
  PROVE  CallInv'
<1>1. call \in [Caller -> Calls] /\ "rooms?" \in Steps
  BY CallTyped DEF Steps
<1>2. CASE /\ call[c].at = "list" /\ UNCHANGED removal
           /\ call' = [call EXCEPT ![c].at = "rooms?", ![c].todo = byServer[call[c].who]]
  <2>1. byServer[call[c].who] \subseteq Room
    BY <1>2 DEF CallInv, StoreInv
  <2>2. call'[c] \in Calls /\ call'[c].at = "rooms?" /\ Moves(c)
    BY <1>1, <1>2, <2>1 DEF Calls, Moves, Counted
  <2>3. QED
    BY <2>2, CallMoves
<1>3. ASSUME call[c].at = "rooms?", NEW r \in call[c].todo,
             removal' = [removal EXCEPT ![c][r] = "read"],
             call' = [call EXCEPT ![c].todo = @ \ {r}]
      PROVE  CallInv'
  <2>1. call'[c] \in Calls /\ call'[c].at = "rooms?" /\ call' = [call EXCEPT ![c] = call'[c]]
    BY <1>1, <1>3 DEF Calls
  <2>2. removal' \in [Caller -> [Room -> {"no", "read", "index", "hash", "rooms"}]]
    BY <1>3 DEF CallInv
  <2>3. QED
    BY <2>1, <2>2 DEF CallInv
<1>4. CASE (At(c, "hash") \/ At(c, "ids")) /\ UNCHANGED removal
  BY <1>4, PointMoves DEF Steps
<1>5. CASE call' = [call EXCEPT ![c].at = after, ![c].who = NoServer] /\ UNCHANGED removal
  <2>1. call'[c] \in Calls /\ call'[c].at = after /\ Moves(c)
    BY <1>1, <1>5 DEF Calls, Moves, Counted
  <2>2. QED
    BY <2>1, CallMoves
<1>6. QED
  BY <1>2, <1>3, <1>4, <1>5 DEF Unregister

LEMMA ListingMoves ==
  ASSUME CallInv, StoreInv, NEW c \in Caller, NEW after \in Steps \ {"release", "list"},
         RoomsOfServers(c, after), UNCHANGED removal
  PROVE  CallInv'
<1>1. call \in [Caller -> Calls] /\ {"hashes", "drop"} \subseteq Steps
  BY CallTyped DEF Steps
<1>2. CASE call[c].at = "index"
  <2>1. UNION {byServer[s] : s \in call[c].ids} \subseteq Room
    BY <1>1 DEF StoreInv, Calls
  <2>2. call'[c] \in Calls /\ call'[c].at \notin {"release", "list"} /\ Moves(c)
    BY <1>1, <1>2, <2>1 DEF RoomsOfServers, Calls, Moves, Counted
  <2>3. QED
    BY <2>2, CallMoves
<1>3. CASE call[c].at = "hashes"
  <2>1. PICK F \in SUBSET call[c].todo :
          LET alive == Alive(call[c].todo) \ F
              dead == call[c].todo \ alive
          IN /\ Unread(F)
             /\ call' = [call EXCEPT ![c].todo = {}, ![c].gone = dead, ![c].seen = @ \cup alive,
                                     ![c].at = IF dead = {} THEN after ELSE "drop"]
    BY <1>3 DEF RoomsOfServers
  <2> DEFINE alive == Alive(call[c].todo) \ F
             dead == call[c].todo \ alive
  <2>2. alive \subseteq Room /\ dead \subseteq Room
    BY <1>1 DEF Alive, Calls
  <2> HIDE DEF alive, dead
  <2>3. PICK at \in {after, "drop"} :
          call' = [call EXCEPT ![c].todo = {}, ![c].gone = dead, ![c].seen = @ \cup alive, ![c].at = at]
    BY <2>1 DEF alive, dead
  <2>4. Counted
    BY <2>1, UnreadCounted
  <2> DEFINE seen == call[c].seen \cup alive
  <2>5. seen \subseteq Room
    BY <1>1, <2>2 DEF Calls
  <2>6. call' = [call EXCEPT ![c].todo = {}, ![c].gone = dead, ![c].seen = seen, ![c].at = at]
    BY <2>3
  <2> HIDE DEF seen
  <2>7. call'[c] \in Calls /\ call'[c].at \notin {"release", "list"}
    <3>1. call[c] \in Calls /\ at \in Steps /\ at \notin {"release", "list"}
      BY <1>1
    <3>2. call'[c] = [call[c] EXCEPT !.todo = {}, !.gone = dead, !.seen = seen, !.at = at]
      BY <1>1, <2>6
    <3>3. call'[c].at = at
      BY <3>1, <3>2 DEF Calls
    <3>4. call'[c] \in Calls
      BY <2>2, <2>5, <3>1, <3>2 DEF Calls
    <3>5. QED
      BY <3>1, <3>3, <3>4
  <2>8. Moves(c)
    BY <1>1, <2>4, <2>6 DEF Moves
  <2>9. QED
    BY <2>7, <2>8, CallMoves
<1>4. CASE call[c].at = "drop"
  <2>1. call'[c] \in Calls /\ call'[c].at \notin {"release", "list"} /\ Moves(c)
    BY <1>1, <1>4 DEF RoomsOfServers, Calls, Moves, Counted
  <2>2. QED
    BY <2>1, CallMoves
<1>5. QED
  BY <1>2, <1>3, <1>4 DEF RoomsOfServers

LEMMA ServersMoves ==
  ASSUME CallInv, StoreInv, NEW c \in Caller, NEW kind, NEW next \in Steps \ {"release", "list"},
         ServersRead(c, kind, next), UNCHANGED removal
  PROVE  CallInv'
<1>1. call \in [Caller -> Calls] /\ {"records", "forget"} \subseteq Steps
  BY CallTyped DEF Steps
<1>2. CASE call[c].at = "servers"
  <2>1. call'[c] \in Calls /\ call'[c].at \notin {"release", "list"} /\ Moves(c)
    BY <1>1, <1>2 DEF ServersRead, StoreInv, Calls, Moves, Counted
  <2>2. QED
    BY <2>1, CallMoves
<1>3. CASE call[c].at = "records"
  <2>1. PICK F \in SUBSET call[c].ids :
          LET dead == F \cup (call[c].ids \ serverHash) IN
          /\ Unread(F)
          /\ call' = [call EXCEPT ![c].ids = Listed(kind, @ \ F), ![c].gone = dead,
                                  ![c].at = IF dead = {} THEN next ELSE "forget"]
    BY <1>3 DEF ServersRead
  <2> DEFINE left == Listed(kind, call[c].ids \ F)
             dead == F \cup (call[c].ids \ serverHash)
  <2>2. left \subseteq Server /\ dead \subseteq Server
    BY <1>1 DEF Listed, StoreInv, Calls
  <2> HIDE DEF left, dead
  <2>3. PICK at \in {next, "forget"} :
          call' = [call EXCEPT ![c].ids = left, ![c].gone = dead, ![c].at = at]
    BY <2>1 DEF left, dead
  <2>4. Counted
    BY <2>1, UnreadCounted
  <2>5. call'[c] \in Calls /\ call'[c].at \notin {"release", "list"} /\ Moves(c)
    BY <1>1, <2>2, <2>3, <2>4 DEF Calls, Moves
  <2>6. QED
    BY <2>5, CallMoves
<1>4. CASE call[c].at = "forget"
  <2>1. call'[c] \in Calls /\ call'[c].at \notin {"release", "list"} /\ Moves(c)
    BY <1>1, <1>4 DEF ServersRead, Calls, Moves, Counted
  <2>2. QED
    BY <2>1, CallMoves
<1>5. QED
  BY <1>2, <1>3, <1>4 DEF ServersRead

LEMMA RoomsMoves ==
  ASSUME CallInv, StoreInv, NEW c \in Caller, RoomsRead(c, "orphans"), UNCHANGED removal
  PROVE  CallInv'
<1>1. Alive(call[c].todo) \subseteq call[c].todo /\ rooms \subseteq Room
  BY DEF Alive, StoreInv
<1>2. "orphans" \in Steps /\ "all hashes" \in Steps /\ "drop all" \in Steps
  BY DEF Steps
<1>3. CASE call[c].at = "rooms"
  <2>1. PICK at \in {"orphans", "all hashes"} : call' = [call EXCEPT ![c].todo = rooms, ![c].at = at] /\ UNCHANGED failures
    BY <1>3 DEF RoomsRead
  <2>2. call'[c] \in Calls /\ call'[c].at \notin {"release", "list"} /\ Moves(c)
    BY <1>1, <1>2, <2>1, CallTyped DEF Calls, Moves, Counted
  <2>3. QED
    BY <2>2, CallMoves
<1>4. CASE call[c].at = "all hashes"
  <2>1. PICK F \in SUBSET call[c].todo :
          LET alive == Alive(call[c].todo) \ F
              dead == call[c].todo \ alive
          IN /\ Unread(F)
             /\ call' = [call EXCEPT ![c].todo = alive, ![c].gone = dead,
                                     ![c].at = IF dead = {} THEN "orphans" ELSE "drop all"]
    BY <1>4 DEF RoomsRead
  <2> DEFINE alive == Alive(call[c].todo) \ F
             dead == call[c].todo \ alive
  <2>2. alive \subseteq Room /\ dead \subseteq Room
    BY <1>1, CallTyped DEF Calls
  <2> HIDE DEF alive, dead
  <2>3. PICK at \in {"orphans", "drop all"} :
          call' = [call EXCEPT ![c].todo = alive, ![c].gone = dead, ![c].at = at]
    BY <2>1 DEF alive, dead
  <2>4. Counted
    BY <2>1, UnreadCounted
  <2>5. call'[c] \in Calls /\ call'[c].at \notin {"release", "list"} /\ Moves(c)
    BY <1>2, <2>2, <2>3, <2>4, CallTyped DEF Calls, Moves
  <2>6. QED
    BY <2>5, CallMoves
<1>5. CASE call[c].at = "drop all"
  <2>1. call' = [call EXCEPT ![c].gone = {}, ![c].at = "orphans"] /\ UNCHANGED failures
    BY <1>5 DEF RoomsRead
  <2>2. call'[c] \in Calls /\ call'[c].at \notin {"release", "list"} /\ Moves(c)
    BY <1>2, <2>1, CallTyped DEF Calls, Moves, Counted
  <2>3. QED
    BY <2>2, CallMoves
<1>6. QED
  BY <1>3, <1>4, <1>5 DEF RoomsRead

\* The steps of the eviction.
EvictSteps(s) ==
  LET c == Beat(s) IN
  \/ Unregister(c, "victim")
  \/ /\ UNCHANGED removal
     /\ \/ call' = [call EXCEPT ![c].ids = Evicted(s), ![c].at = "victim"]
        \/ call' = [call EXCEPT ![c].ids = {s}, ![c].at = "index"]
  \/ \E o \in call[c].ids :
       /\ UNCHANGED removal /\ call[c].at = "victim"
       /\ \/ call' = [call EXCEPT ![c].ids = @ \ {o}, ![c].who = o, ![c].at = "list"]
          \/ call' = [call EXCEPT ![c].ids = @ \ {o}]

LEMMA EvictCases == \A s \in Server : HeartbeatEvict(s) => EvictSteps(s)
BY DEF HeartbeatEvict, EvictSteps, Beat

LEMMA HeartbeatMoves ==
  ASSUME CallInv, StoreInv, NEW s \in Server, Heartbeat(s)
  PROVE  CallInv'
<1> DEFINE c == Beat(s)
<1>1. /\ call \in [Caller -> Calls] /\ c \in Caller /\ c = <<"beat", s>>
      /\ {"index", "evict", "victim", "list"} \subseteq Steps
  BY CallTyped, Callers DEF Beat, Steps
<1>2. Evicted(s) \subseteq Server
  BY DEF Evicted, StoreInv
<1>3. RoomsOfServers(c, "reply") /\ UNCHANGED removal => CallInv'
  BY <1>1, ListingMoves DEF Steps
<1>4. SUFFICES ASSUME HeartbeatMulti(s) \/ HeartbeatEvict(s), UNCHANGED failures
               PROVE  CallInv'
  BY <1>1, <1>3 DEF Heartbeat
<1> HIDE DEF c
<1>5. CASE HeartbeatMulti(s)
  <2>1. PICK at \in {"index", "evict"}, of \in {"known", "registered"} :
          call' = [call EXCEPT ![c].at = at, ![c].ids = {s}, ![c].of = of]
    BY <1>1, <1>5 DEF HeartbeatMulti
  <2>2. UNCHANGED removal
    BY <1>5 DEF HeartbeatMulti
  <2>3. call'[c] \in Calls /\ call'[c].at = at
    BY <1>1, <2>1 DEF Calls
  <2>4. Moves(c)
    BY <1>1, <1>4, <2>1, <2>2 DEF Moves, Counted
  <2>5. QED
    BY <1>1, <2>3, <2>4, CallMoves
<1>6. ASSUME UNCHANGED removal, NEW ids \in SUBSET Server, NEW at \in {"victim", "index"},
             call' = [call EXCEPT ![c].ids = ids, ![c].at = at]
      PROVE  CallInv'
  <2>1. call'[c] \in Calls /\ call'[c].at \notin {"release", "list"} /\ Moves(c)
    BY <1>1, <1>4, <1>6 DEF Calls, Moves, Counted
  <2>2. QED
    BY <1>1, <2>1, CallMoves
<1>7. ASSUME NEW o \in call[c].ids, UNCHANGED removal, call[c].at = "victim",
             \/ call' = [call EXCEPT ![c].ids = @ \ {o}, ![c].who = o, ![c].at = "list"]
             \/ call' = [call EXCEPT ![c].ids = @ \ {o}]
      PROVE  CallInv'
  <2>1. o \in Server
    BY <1>1, <1>7 DEF Calls
  <2>2. CASE call' = [call EXCEPT ![c].ids = @ \ {o}, ![c].who = o, ![c].at = "list"]
    <3> DEFINE rest == call[c].ids \ {o}
    <3>1. rest \subseteq Server /\ "list" \in Steps
      BY <1>1 DEF Calls
    <3>2. call' = [call EXCEPT ![c].ids = rest, ![c].who = o, ![c].at = "list"]
      BY <2>2
    <3> HIDE DEF rest
    <3>3. call'[c] \in Calls
      BY <1>1, <2>1, <3>1, <3>2 DEF Calls
    <3>4. call'[c].who = o
      BY <1>1, <3>2 DEF Calls
    <3>5. Moves(c)
      BY <1>1, <1>4, <1>7, <3>2 DEF Moves, Counted
    <3>6. QED
      BY <1>1, <2>1, <3>3, <3>4, <3>5, CallMoves
  <2>3. CASE call' = [call EXCEPT ![c].ids = @ \ {o}]
    <3>1. call'[c] \in Calls /\ Moves(c) /\ call'[c].at = "victim"
      BY <1>1, <1>4, <1>7, <2>3 DEF Calls, Moves, Counted
    <3>2. QED
      BY <1>1, <3>1, CallMoves
  <2>4. QED
    BY <1>7, <2>2, <2>3
<1>8. CASE Unregister(c, "victim")
  BY <1>1, <1>4, <1>8, UnregisterMoves DEF Steps
<1>9. HeartbeatEvict(s) => EvictSteps(s)
  BY EvictCases
<1>10. {s} \subseteq Server
  OBVIOUS
<1>11. HeartbeatEvict(s) => CallInv'
  BY <1>2, <1>6, <1>7, <1>8, <1>9, <1>10 DEF EvictSteps, c
<1>12. QED
  BY <1>4, <1>5, <1>11

LEMMA CallStays ==
  ASSUME Inv, [Next]_vars
  PROVE  CallInv'
<1>1. CallInv /\ StoreInv /\ call \in [Caller -> Calls]
  BY CallTyped DEF Inv
<1>2. ASSUME UNCHANGED calls PROVE CallInv'
  BY <1>1, <1>2 DEF calls, CallInv
<1>3. ASSUME NEW s \in Server, Crashes(s) PROVE CallInv'
  <2>1. /\ call' = [c \in Caller |-> IF c \in {Beat(s), Lead(s), Stop(s)} THEN Quiet ELSE call[c]]
        /\ removal' = [c \in Caller |-> IF c \in {Beat(s), Lead(s), Stop(s)} THEN NoRemovals ELSE removal[c]]
        /\ failures' = failures
    BY <1>3 DEF Crashes
  <2>2. Quiet.at = "idle"
    BY DEF Quiet
  <2>3. NoRemovals \in [Room -> {"no", "read", "index", "hash", "rooms"}]
    BY DEF NoRemovals
  <2>4. call' \in [Caller -> Calls]
    BY <1>1, <2>1, QuietCall
  <2>5. QED
    BY <1>1, <2>1, <2>2, <2>3, <2>4 DEF CallInv
<1>4. ASSUME NEW s \in Server, StopBegins(s) PROVE CallInv'
  <2> DEFINE v == [Quiet EXCEPT !.at = IF s \in isLeader THEN "release" ELSE "list", !.who = s]
  <2>1. v \in Calls /\ v.who \in Server
    BY QuietCall DEF Quiet, Calls, Steps
  <2>2. call' = [call EXCEPT ![Stop(s)] = v] /\ UNCHANGED <<removal, failures>>
    BY <1>4 DEF StopBegins
  <2> HIDE DEF v
  <2>3. QED
    BY <1>1, <2>1, <2>2, CallMoves, Callers DEF Moves, Counted
<1>5. ASSUME NEW s \in Server, StopReleases(s) PROVE CallInv'
  <2>1. /\ call[Stop(s)].at = "release" /\ At(Stop(s), "list") /\ UNCHANGED <<removal, failures>>
        /\ Stop(s) \in Caller /\ "list" \in Steps
    BY <1>5, Callers DEF StopReleases, Steps
  <2>2. call'[Stop(s)] \in Calls /\ call'[Stop(s)].who = call[Stop(s)].who /\ Moves(Stop(s))
    BY <1>1, <2>1 DEF At, Calls, Moves, Counted
  <2>3. call[Stop(s)].who \in Server
    BY <1>1, <2>1 DEF CallInv
  <2>4. QED
    BY <1>1, <2>1, <2>2, <2>3, CallMoves
<1>6. ASSUME NEW s \in Server, StopUnregisters(s) PROVE CallInv'
  BY <1>1, <1>6, UnregisterMoves, Callers DEF StopUnregisters, Steps
<1>7. ASSUME NEW s \in Server, StopEnds(s) PROVE CallInv'
  BY <1>1, <1>7, PointMoves, Callers DEF StopEnds, Steps
<1>8. ASSUME NEW s \in Server, \E r \in Room : Creates(r, s) \/ BecomesReady(s, r) PROVE CallInv'
  BY <1>2, <1>8 DEF Creates, BecomesReady
<1>9. ASSUME NEW r \in Room, Destroys(r) PROVE CallInv'
  BY <1>1, <1>9, Callers DEF Destroys, CallInv
<1>10. ASSUME NEW r \in Room, Tags(r) PROVE CallInv'
  <2> DEFINE v == [Quiet EXCEPT !.at = "tags", !.todo = {r}]
  <2>1. v \in Calls /\ v.at = "tags"
    BY QuietCall DEF Quiet, Calls, Steps
  <2>2. call' = [call EXCEPT ![Sdk] = v] /\ UNCHANGED <<removal, failures>>
    BY <1>10 DEF Tags
  <2> HIDE DEF v
  <2>3. QED
    BY <1>1, <2>1, <2>2, CallMoves, Callers DEF Moves, Counted
<1>11. ASSUME NEW r \in Room, Tagged(r) PROVE CallInv'
  BY <1>1, <1>11, QuietMoves, Callers DEF Tagged
<1>12. ASSUME NEW r \in Room, Lapses(r) PROVE CallInv'
  BY <1>2, <1>12 DEF Lapses
<1>13. ASSUME NEW s \in Server, Starts(s) \/ Ages(s) PROVE CallInv'
  BY <1>2, <1>13 DEF Starts, Ages, calls
<1>14. ASSUME NEW s \in Server, BeatStarts(s) \/ LeadStarts(s) PROVE CallInv'
  BY <1>1, <1>14, PointMoves, Callers DEF BeatStarts, LeadStarts, Steps
<1>15. ASSUME NEW s \in Server, ReplyDiscarded(s) \/ Recovered(s) PROVE CallInv'
  BY <1>1, <1>15, QuietMoves, Callers DEF ReplyDiscarded, Recovered, Settle
<1>16. ASSUME NEW s \in Server, ReplyActedOn(s) PROVE CallInv'
  <2> DEFINE c == Beat(s)
  <2>1. /\ Lost(s) \subseteq Room /\ c \in Caller /\ "register" \in Steps
        /\ UNCHANGED <<removal, failures>>
    BY <1>16, Callers DEF Lost, Inv, ProcessInv, ReplyActedOn, Steps
  <2>2. CASE Settle(s)
    BY <1>1, <2>1, <2>2, QuietMoves DEF Settle
  <2>3. CASE call' = [call EXCEPT ![c].at = "register", ![c].todo = Lost(s)]
    <3> HIDE DEF c
    <3>1. call'[c] \in Calls /\ call'[c].at = "register" /\ Moves(c)
      BY <1>1, <2>1, <2>3 DEF Calls, Moves, Counted
    <3>2. QED
      BY <1>1, <2>1, <3>1, CallMoves
  <2>4. QED
    BY <1>16, <2>2, <2>3 DEF ReplyActedOn
<1>17. ASSUME NEW s \in Server, NEW r \in Room,
              Registers(s, r) \/ PassedOver(s, r) \/ Confirms(s, r) \/ Unconfirmed(s, r)
       PROVE  CallInv'
  <2> DEFINE c == Beat(s)
  <2>1. c \in Caller /\ "confirm" \in Steps /\ "register" \in Steps
    BY Callers DEF Steps
  <2>2. /\ \/ call' = [call EXCEPT ![c].at = "confirm", ![c].gone = {r}]
           \/ call' = [call EXCEPT ![c].todo = @ \ {r}] /\ call[c].at = "register"
           \/ call' = [call EXCEPT ![c].at = "register", ![c].gone = {}, ![c].todo = @ \ {r},
                                   ![c].seen = @ \cup {r}]
           \/ call' = [call EXCEPT ![c].at = "register", ![c].gone = {}, ![c].todo = @ \ {r}]
        /\ UNCHANGED removal /\ Counted
    BY <1>17 DEF Registers, PassedOver, Confirms, Unconfirmed, Counted
  <2> HIDE DEF c
  <2>3. call'[c] \in Calls /\ call'[c].at \in {"register", "confirm"} /\ Moves(c)
    BY <1>1, <2>1, <2>2 DEF Calls, Moves
  <2>4. QED
    BY <1>1, <2>1, <2>3, CallMoves
<1>18. ASSUME NEW s \in Server, LeadLocks(s) PROVE CallInv'
  <2> DEFINE v == [Quiet EXCEPT !.at = "servers", !.of = "reap"]
  <2>1. v \in Calls /\ v.at = "servers"
    BY QuietCall DEF Quiet, Calls, Steps
  <2>2. call' = [call EXCEPT ![Lead(s)] = v] \/ call' = [call EXCEPT ![Lead(s)] = Quiet]
    BY <1>18 DEF LeadLocks
  <2>3. UNCHANGED <<removal, failures>>
    BY <1>18 DEF LeadLocks
  <2> HIDE DEF v
  <2>4. CASE call' = [call EXCEPT ![Lead(s)] = v]
    BY <1>1, <2>1, <2>3, <2>4, CallMoves, Callers DEF Moves, Counted
  <2>5. QED
    BY <1>1, <2>2, <2>3, <2>4, QuietMoves, Callers
<1>19. ASSUME NEW s \in Server, LeadLists(s) PROVE CallInv'
  <2>1. UNCHANGED removal /\ Lead(s) \in Caller
    BY <1>19, Callers DEF LeadLists
  <2>2. {"listed", "index"} \subseteq Steps \ {"release", "list"}
    BY DEF Steps
  <2>3. CASE RoomsOfServers(Lead(s), "listed")
    BY <1>1, <2>1, <2>2, <2>3, ListingMoves
  <2>4. CASE ServersRead(Lead(s), Kind[call[Lead(s)].of],
                         IF call[Lead(s)].of = "reap" THEN "listed" ELSE "index")
    BY <1>1, <2>1, <2>2, <2>4, ServersMoves
  <2>5. QED
    BY <1>19, <2>3, <2>4 DEF LeadLists
<1>20. ASSUME NEW l \in Server, NEW s \in Server, Reaps(l, s) \/ ReapFails(l, s) PROVE CallInv'
  <2> DEFINE c == Lead(l)
  <2>1. /\ \/ call' = [call EXCEPT ![c].ids = @ \ {s}]
           \/ call' = [call EXCEPT ![c].ids = @ \ {s}, ![c].of = "failed"]
        /\ call[c].at = "listed" /\ UNCHANGED removal /\ Counted /\ c \in Caller
    BY <1>20, Callers DEF Reaps, ReapFails, Counted
  <2> HIDE DEF c
  <2>2. call'[c] \in Calls /\ call'[c].at = "listed" /\ Moves(c)
    BY <1>1, <2>1 DEF Calls, Moves
  <2>3. QED
    BY <1>1, <2>1, <2>2, CallMoves
<1>21. ASSUME NEW s \in Server, LeadGoesOn(s) PROVE CallInv'
  <2> DEFINE c == Lead(s)
  <2>1. PICK of \in {"fresh", "stale", "rooms"}, at \in {"rooms", "servers"} :
          call' = [call EXCEPT ![c].ids = {}, ![c].at = at, ![c].of = of]
    BY <1>21 DEF LeadGoesOn
  <2>2. UNCHANGED <<removal, failures>> /\ c \in Caller /\ {"rooms", "servers"} \subseteq Steps
    BY <1>21, Callers DEF LeadGoesOn, Steps
  <2> HIDE DEF c
  <2>3. call'[c] \in Calls /\ call'[c].at \in {"rooms", "servers"} /\ Moves(c)
    BY <1>1, <2>1, <2>2 DEF Calls, Moves, Counted
  <2>4. QED
    BY <1>1, <2>2, <2>3, CallMoves
<1>22. ASSUME NEW s \in Server, LeadListsRooms(s) PROVE CallInv'
  BY <1>1, <1>22, RoomsMoves, Callers DEF LeadListsRooms
<1>23. ASSUME NEW s \in Server, LeadCleans(s) PROVE CallInv'
  <2> DEFINE w == [r \in Room |-> IF r \in Orphans(s) THEN "read" ELSE "no"]
  <2>1. w \in [Room -> {"no", "read", "index", "hash", "rooms"}]
    OBVIOUS
  <2>2. /\ call' = [call EXCEPT ![Lead(s)] = Quiet] /\ removal' = [removal EXCEPT ![Lead(s)] = w]
        /\ failures' = failures /\ Lead(s) \in Caller
    BY <1>23, Callers DEF LeadCleans
  <2>3. Quiet.at = "idle"
    BY DEF Quiet
  <2> HIDE DEF w
  <2>4. QED
    BY <1>1, <2>1, <2>2, <2>3, QuietCall DEF CallInv
<1>24. ASSUME NEW c \in Caller, Fails(c) \/ \E r \in Room : RemovalFails(c, r) PROVE CallInv'
  <2>1. Quiet.at = "idle" /\ NoRemovals \in [Room -> {"no", "read", "index", "hash", "rooms"}]
    BY DEF Quiet, NoRemovals
  <2>2. failures' \in 0..MaxFailures
    BY <1>1, <1>24, Bounds DEF Fails, RemovalFails, Failing, CallInv
  <2>3. CASE Fails(c)
    BY <1>1, <2>1, <2>2, <2>3, QuietCall DEF Fails, CallInv
  <2>4. CASE \E r \in Room : RemovalFails(c, r)
    BY <1>1, <2>2, <2>4 DEF RemovalFails, CallInv
  <2>5. QED
    BY <1>24, <2>3, <2>4
<1>25. ASSUME NEW c \in Caller, \E r \in Room : Removes(c, r) PROVE CallInv'
  BY <1>1, <1>25, RemovalMoves DEF Removes
<1>26. ASSUME NEW s \in Server, StopGoesOn(s) PROVE CallInv'
  BY <1>5, <1>6, <1>7, <1>25, <1>26, Callers DEF StopGoesOn
<1>27. ASSUME NEW s \in Server, BeatGoesOn(s) PROVE CallInv'
  BY <1>1, <1>15, <1>16, <1>17, <1>25, <1>27, HeartbeatMoves, Callers DEF BeatGoesOn, Beats
<1>31. ASSUME NEW s \in Server, LeadGivesUp(s) PROVE CallInv'
  BY <1>1, <1>31, QuietMoves, Callers DEF LeadGivesUp
<1>28. ASSUME NEW s \in Server, LeadGoes(s) PROVE CallInv'
  BY <1>18, <1>19, <1>20, <1>21, <1>22, <1>23, <1>24, <1>25, <1>28, <1>31, Callers DEF LeadGoes
<1>29. CASE LockExpires \/ UNCHANGED vars
  BY <1>2, <1>29 DEF LockExpires, vars, calls
<1>30. QED
  BY <1>3, <1>4, <1>8, <1>9, <1>10, <1>11, <1>12, <1>13, <1>14, <1>24, <1>25, <1>26, <1>27, <1>28,
     <1>29, Callers DEF Next

-----------------------------------------------------------------------------
(* ReadsInv.                                                               *)

\* A call of the sdk, and of a server's heartbeat, that does not move keeps what it read.
LEMMA BeatRests ==
  ASSUME NEW s \in Server, BeatInv(s), HomesStay, call'[Beat(s)] = call[Beat(s)]
  PROVE  BeatInv(s)'
<1>1. \A r \in HomeOf(s) : r \in HomeOf(s)'
  BY NoServerIsNone DEF HomesStay, HomeOf
<1>2. QED
  BY <1>1 DEF BeatInv

\* A heartbeat that is not listing, registering or confirming needs only what it has seen.
LEMMA BeatMoves ==
  ASSUME NEW s \in Server, HomesStay, call'[Beat(s)].seen \subseteq HomeOf(s),
         call'[Beat(s)].at \notin {"index", "hashes", "register", "confirm"}
  PROVE  BeatInv(s)'
<1>1. \A r \in HomeOf(s) : r \in HomeOf(s)'
  BY NoServerIsNone DEF HomesStay, HomeOf
<1>2. QED
  BY <1>1 DEF BeatInv

LEMMA HomeGrows ==
  ASSUME NEW s \in Server, HomesStay
  PROVE  HomeOf(s) \subseteq HomeOf(s)'
BY NoServerIsNone DEF HomesStay, HomeOf

LEMMA UnregisterReads ==
  ASSUME call \in [Caller -> Calls], NEW c \in Caller, NEW after, Unregister(c, after)
  PROVE  call'[c].seen = call[c].seen /\ call'[c].at \in {"rooms?", "hash", "ids", after}
<1>1. call[c] \in Calls
  OBVIOUS
<1>2. ASSUME NEW at, At(c, at) PROVE call'[c].seen = call[c].seen /\ call'[c].at = at
  BY <1>1, <1>2 DEF At, Calls
<1>3. ASSUME NEW X, call' = [call EXCEPT ![c].at = "rooms?", ![c].todo = X]
      PROVE  call'[c].seen = call[c].seen /\ call'[c].at = "rooms?"
  BY <1>1, <1>3 DEF Calls
<1>4. ASSUME NEW r, call[c].at = "rooms?", call' = [call EXCEPT ![c].todo = @ \ {r}]
      PROVE  call'[c].seen = call[c].seen /\ call'[c].at = "rooms?"
  BY <1>1, <1>4 DEF Calls
<1>5. ASSUME call' = [call EXCEPT ![c].at = after, ![c].who = NoServer]
      PROVE  call'[c].seen = call[c].seen /\ call'[c].at = after
  BY <1>1, <1>5 DEF Calls
<1>6. \/ call' = [call EXCEPT ![c].at = "rooms?", ![c].todo = byServer[call[c].who]]
      \/ \E r \in call[c].todo : call[c].at = "rooms?" /\ call' = [call EXCEPT ![c].todo = @ \ {r}]
      \/ At(c, "hash") \/ At(c, "ids")
      \/ call' = [call EXCEPT ![c].at = after, ![c].who = NoServer]
  BY DEF Unregister
<1>7. QED
  BY <1>2, <1>3, <1>4, <1>5, <1>6

\* The commands of a heartbeat.
LEMMA HeartbeatReads ==
  ASSUME Inv, HomesStay, NEW s \in Server, Heartbeat(s)
  PROVE  BeatInv(s)' /\ \A c \in Caller : c # Beat(s) => call'[c] = call[c]
<1> DEFINE c == Beat(s)
           b == call[Beat(s)]
<1>1. /\ call \in [Caller -> Calls] /\ c \in Caller /\ c = <<"beat", s>> /\ b = call[c]
      /\ BeatInv(s) /\ StoreInv
  BY CallTyped, Callers DEF Beat, Inv, ReadsInv
<1>2. b \in Calls /\ b.seen \subseteq HomeOf(s)
  BY <1>1 DEF BeatInv
<1>3. HomeOf(s) \subseteq HomeOf(s)'
  BY HomeGrows
<1>4. \A d \in Caller : d # c => call'[d] = call[d]
  BY <1>1 DEF Heartbeat, HeartbeatMulti, HeartbeatEvict, Unregister, RoomsOfServers, At
<1>5. CASE HeartbeatMulti(s)
  <2>1. call'[c].seen = b.seen /\ call'[c].ids = {s} /\ call'[c].at \in {"index", "evict"}
    BY <1>1, <1>2, <1>5 DEF HeartbeatMulti, Calls
  <2>2. QED
    BY <1>2, <1>3, <1>4, <2>1 DEF BeatInv
<1>6. CASE HeartbeatEvict(s)
  <2>1. ASSUME NEW ids, call' = [call EXCEPT ![c].ids = ids, ![c].at = "victim"]
        PROVE  call'[c].seen = b.seen /\ call'[c].at = "victim"
    BY <1>1, <1>2, <2>1 DEF Calls
  <2>2. ASSUME call' = [call EXCEPT ![c].ids = {s}, ![c].at = "index"]
        PROVE  call'[c].seen = b.seen /\ call'[c].at = "index" /\ call'[c].ids = {s}
    BY <1>1, <1>2, <2>2 DEF Calls
  <2>3. ASSUME NEW o, call' = [call EXCEPT ![c].ids = @ \ {o}, ![c].who = o, ![c].at = "list"]
        PROVE  call'[c].seen = b.seen /\ call'[c].at = "list"
    BY <1>1, <1>2, <2>3 DEF Calls
  <2>4. ASSUME NEW o, call[c].at = "victim", call' = [call EXCEPT ![c].ids = @ \ {o}]
        PROVE  call'[c].seen = b.seen /\ call'[c].at = "victim"
    BY <1>1, <1>2, <2>4 DEF Calls
  <2>5. ASSUME Unregister(c, "victim")
        PROVE  call'[c].seen = b.seen /\ call'[c].at \in {"victim", "rooms?", "hash", "ids"}
    BY <1>1, <2>5, UnregisterReads
  <2>6. /\ call'[c].seen = b.seen
        /\ \/ call'[c].at = "index" /\ call'[c].ids = {s}
           \/ call'[c].at \in {"victim", "list", "rooms?", "hash", "ids"}
    <3>1. EvictSteps(s)
      BY <1>6, EvictCases
    <3>2. CASE \/ call' = [call EXCEPT ![c].ids = Evicted(s), ![c].at = "victim"]
               \/ call' = [call EXCEPT ![c].ids = {s}, ![c].at = "index"]
      BY <2>1, <2>2, <3>2
    <3>3. ASSUME NEW o \in call[c].ids, call[c].at = "victim",
                 \/ call' = [call EXCEPT ![c].ids = @ \ {o}, ![c].who = o, ![c].at = "list"]
                 \/ call' = [call EXCEPT ![c].ids = @ \ {o}]
          PROVE  call'[c].seen = b.seen /\ call'[c].at \in {"victim", "list"}
      BY <2>3, <2>4, <3>3
    <3>4. QED
      BY <2>5, <3>1, <3>2, <3>3 DEF EvictSteps
  <2>7. QED
    BY <1>2, <1>3, <1>4, <2>6 DEF BeatInv
<1>7. CASE RoomsOfServers(c, "reply")
  <2>1. ASSUME NEW X, NEW at, call' = [call EXCEPT ![c].todo = X, ![c].at = at]
        PROVE  /\ call'[c].seen = b.seen /\ call'[c].ids = b.ids
               /\ call'[c].todo = X /\ call'[c].at = at
    BY <1>1, <1>2, <2>1 DEF Calls
  <2>2. ASSUME NEW X, NEW Y, NEW at,
               call' = [call EXCEPT ![c].todo = {}, ![c].gone = X, ![c].seen = Y, ![c].at = at]
        PROVE  call'[c].seen = Y /\ call'[c].at = at
    BY <1>1, <1>2, <2>2 DEF Calls
  <2>3. ASSUME call' = [call EXCEPT ![c].gone = {}, ![c].at = "reply"]
        PROVE  call'[c].seen = b.seen /\ call'[c].at = "reply"
    BY <1>1, <1>2, <2>3 DEF Calls
  <2>4. CASE b.at = "index"
    <3> DEFINE indexed == UNION {byServer[t] : t \in b.ids}
    <3>1. b.ids = {s} /\ byServer[s] \subseteq HomeOf(s)
      BY <1>1, <2>4 DEF BeatInv, StoreInv, HomeOf
    <3>2. indexed \subseteq HomeOf(s)
      BY <3>1
    <3>3. call' = [call EXCEPT ![c].todo = indexed, ![c].at = IF indexed = {} THEN "reply" ELSE "hashes"]
      BY <1>1, <1>7, <2>4 DEF RoomsOfServers
    <3> HIDE DEF indexed
    <3>4. /\ call'[c].seen = b.seen /\ call'[c].ids = b.ids /\ call'[c].todo = indexed
          /\ call'[c].at \in {"reply", "hashes"}
      BY <2>1, <3>3
    <3>5. QED
      BY <1>2, <1>3, <1>4, <3>1, <3>2, <3>4 DEF BeatInv
  <2>5. CASE b.at = "hashes"
    <3>0. PICK F \in SUBSET b.todo :
            LET alive == Alive(b.todo) \ F
                dead == b.todo \ alive
            IN call' = [call EXCEPT ![c].todo = {}, ![c].gone = dead, ![c].seen = b.seen \cup alive,
                                    ![c].at = IF dead = {} THEN "reply" ELSE "drop"]
      BY <1>1, <1>7, <2>5 DEF RoomsOfServers
    <3> DEFINE alive == Alive(b.todo) \ F
               dead == b.todo \ alive
    <3>1. alive \subseteq HomeOf(s)
      BY <1>1, <2>5 DEF Alive, BeatInv
    <3>2. call' = [call EXCEPT ![c].todo = {}, ![c].gone = dead, ![c].seen = b.seen \cup alive,
                              ![c].at = IF dead = {} THEN "reply" ELSE "drop"]
      BY <3>0
    <3> HIDE DEF alive, dead
    <3>3. call'[c].seen = b.seen \cup alive /\ call'[c].at \in {"reply", "drop"}
      BY <2>2, <3>2
    <3>4. QED
      BY <1>2, <1>4, <3>1, <3>3, BeatMoves
  <2>6. CASE b.at = "drop"
    <3>1. call'[c].seen = b.seen /\ call'[c].at = "reply"
      BY <1>1, <1>7, <2>3, <2>6 DEF RoomsOfServers
    <3>2. QED
      BY <1>2, <1>4, <3>1, BeatMoves
  <2>7. QED
    BY <1>1, <1>7, <2>4, <2>5, <2>6 DEF RoomsOfServers
<1>8. QED
  BY <1>1, <1>5, <1>6, <1>7 DEF Heartbeat

\* What a heartbeat does with its reply.
LEMMA ReplyReads ==
  ASSUME Inv, HomesStay, NEW s \in Server,
         \/ ReplyDiscarded(s) \/ ReplyActedOn(s) \/ Recovered(s)
         \/ \E r \in Room : Registers(s, r) \/ PassedOver(s, r) \/ Confirms(s, r) \/ Unconfirmed(s, r)
  PROVE  BeatInv(s)' /\ \A c \in Caller : c # Beat(s) => call'[c] = call[c]
<1> DEFINE c == Beat(s)
           b == call[Beat(s)]
<1>1. call \in [Caller -> Calls] /\ c \in Caller /\ BeatInv(s) /\ ProcessInv
  BY CallTyped, Callers DEF Inv, ReadsInv
<1>2. b \in Calls /\ b.seen \subseteq HomeOf(s)
  BY <1>1 DEF BeatInv
<1>3. HomeOf(s) \subseteq HomeOf(s)'
  BY HomeGrows
<1>4. CASE call' = [call EXCEPT ![c] = Quiet]
  <2>1. call'[c].seen = {} /\ call'[c].at = "idle"
    BY <1>1, <1>4 DEF Quiet
  <2>2. QED
    BY <1>1, <1>4, <2>1, BeatMoves
<1>5. CASE call' = [call EXCEPT ![c].at = "register", ![c].todo = Lost(s)]
  <2>1. Lost(s) \subseteq HomeOf(s)
    BY <1>1 DEF Lost, ProcessInv, HomeOf
  <2>2. call'[c].seen = b.seen /\ call'[c].at = "register" /\ call'[c].todo = Lost(s)
    BY <1>1, <1>2, <1>5 DEF Calls
  <2>3. QED
    BY <1>1, <1>2, <1>3, <1>5, <2>1, <2>2 DEF BeatInv
<1>6. ASSUME NEW r \in Room, Registers(s, r)
      PROVE  BeatInv(s)' /\ \A d \in Caller : d # c => call'[d] = call[d]
  <2>1. r \in HomeOf(s) /\ b.todo \subseteq HomeOf(s)
    BY <1>1, <1>6 DEF Registers, BeatInv
  <2>2. call' = [call EXCEPT ![c].at = "confirm", ![c].gone = {r}]
    BY <1>6 DEF Registers
  <2>3. call'[c].seen = b.seen /\ call'[c].at = "confirm" /\ call'[c].todo = b.todo /\ call'[c].gone = {r}
    BY <1>1, <1>2, <2>2 DEF Calls
  <2>4. QED
    BY <1>1, <1>2, <1>3, <2>1, <2>2, <2>3 DEF BeatInv
<1>7. ASSUME NEW r \in Room, PassedOver(s, r)
      PROVE  BeatInv(s)' /\ \A d \in Caller : d # c => call'[d] = call[d]
  <2>1. b.todo \subseteq HomeOf(s) /\ b.at = "register"
    BY <1>1, <1>7 DEF PassedOver, BeatInv
  <2>2. call' = [call EXCEPT ![c].todo = @ \ {r}]
    BY <1>7 DEF PassedOver
  <2>3. call'[c].seen = b.seen /\ call'[c].at = "register" /\ call'[c].todo = b.todo \ {r}
    BY <1>1, <1>2, <2>1, <2>2 DEF Calls
  <2>4. QED
    BY <1>1, <1>2, <1>3, <2>1, <2>2, <2>3 DEF BeatInv
<1>8. ASSUME NEW r \in Room, Confirms(s, r)
      PROVE  BeatInv(s)' /\ \A d \in Caller : d # c => call'[d] = call[d]
  <2>1. r \in HomeOf(s) /\ b.todo \subseteq HomeOf(s)
    BY <1>1, <1>8 DEF Confirms, BeatInv
  <2>2. call' = [call EXCEPT ![c].at = "register", ![c].gone = {}, ![c].todo = @ \ {r},
                            ![c].seen = @ \cup {r}]
    BY <1>8 DEF Confirms
  <2>3. call'[c].seen = b.seen \cup {r} /\ call'[c].at = "register" /\ call'[c].todo = b.todo \ {r}
    BY <1>1, <1>2, <2>2 DEF Calls
  <2>4. QED
    BY <1>1, <1>2, <1>3, <2>1, <2>2, <2>3 DEF BeatInv
<1>9. ASSUME NEW r \in Room, Unconfirmed(s, r)
      PROVE  BeatInv(s)' /\ \A d \in Caller : d # c => call'[d] = call[d]
  <2>1. b.todo \subseteq HomeOf(s)
    BY <1>1, <1>9 DEF Unconfirmed, BeatInv
  <2>2. call' = [call EXCEPT ![c].at = "register", ![c].gone = {}, ![c].todo = @ \ {r}]
    BY <1>9 DEF Unconfirmed
  <2>3. call'[c].seen = b.seen /\ call'[c].at = "register" /\ call'[c].todo = b.todo \ {r}
    BY <1>1, <1>2, <2>2 DEF Calls
  <2>4. QED
    BY <1>1, <1>2, <1>3, <2>1, <2>2, <2>3 DEF BeatInv
<1>10. QED
  BY <1>4, <1>5, <1>6, <1>7, <1>8, <1>9 DEF ReplyDiscarded, ReplyActedOn, Recovered, Settle

LEMMA ReadsStay ==
  ASSUME Inv, [Next]_vars
  PROVE  ReadsInv'
<1>1. HomesStay /\ call \in [Caller -> Calls] /\ SdkInv /\ (\A s \in Server : BeatInv(s)) /\ StoreInv
  BY StoreStays, CallTyped DEF Inv, ReadsInv
<1>2. call[Sdk].todo \subseteq Room /\ Sdk \in Caller
  BY <1>1, Callers DEF Calls
<1>3. ASSUME NEW s \in Server,
             \/ call'[Beat(s)] = call[Beat(s)]
             \/ call'[Beat(s)] = Quiet
      PROVE  BeatInv(s)'
  BY <1>1, <1>3, BeatRests, BeatMoves DEF Quiet
<1>4. ASSUME call'[Sdk] \in {call[Sdk], Quiet} PROVE SdkInv'
  BY <1>1, <1>2, <1>4 DEF SdkInv, HomesStay, Quiet
\* The only call that moves is neither the sdk's nor a heartbeat.
<1>5. ASSUME NEW s \in Server, NEW c \in {Lead(s), Stop(s)}, \A d \in Caller : d # c => call'[d] = call[d]
      PROVE  ReadsInv'
  <2>1. call'[Sdk] = call[Sdk] /\ \A o \in Server : call'[Beat(o)] = call[Beat(o)]
    <3>1. Sdk \in Caller /\ Sdk # c
      BY <1>5, Callers
    <3>2. \A o \in Server : Beat(o) \in Caller /\ Beat(o) # c
      BY <1>5 DEF Caller, Beat, Lead, Stop
    <3>3. QED
      BY <1>5, <3>1, <3>2
  <2>2. QED
    BY <1>3, <1>4, <2>1 DEF ReadsInv
<1>6. ASSUME call' = call PROVE ReadsInv'
  BY <1>3, <1>4, <1>6 DEF ReadsInv
<1>7. ASSUME NEW s \in Server, BeatInv(s)', \A d \in Caller : d # Beat(s) => call'[d] = call[d]
      PROVE  ReadsInv'
  <2>1. call'[Sdk] = call[Sdk] /\ \A o \in Server : o # s => call'[Beat(o)] = call[Beat(o)]
    <3>1. Sdk \in Caller /\ Sdk # Beat(s)
      BY Callers
    <3>2. \A o \in Server : Beat(o) \in Caller /\ (o # s => Beat(o) # Beat(s))
      BY DEF Caller, Beat
    <3>3. QED
      BY <1>7, <3>1, <3>2
  <2>2. \A o \in Server : BeatInv(o)'
    BY <1>3, <1>7, <2>1
  <2>3. QED
    BY <1>4, <2>1, <2>2 DEF ReadsInv
<1>8. ASSUME \A d \in Caller : call'[d] \in {call[d], Quiet} PROVE ReadsInv'
  <2>1. call'[Sdk] \in {call[Sdk], Quiet}
    BY <1>8, Callers
  <2>2. \A s \in Server : call'[Beat(s)] \in {call[Beat(s)], Quiet}
    BY <1>8, Callers
  <2>3. \A s \in Server : BeatInv(s)'
    BY <1>3, <2>2
  <2>4. QED
    BY <1>4, <2>1, <2>3 DEF ReadsInv
<1>9. ASSUME \/ \E s \in Server : Crashes(s)
             \/ \E c \in Caller : Fails(c) \/ \E r \in Room : RemovalFails(c, r)
      PROVE  ReadsInv'
  <2>1. \A d \in Caller : call'[d] \in {call[d], Quiet}
    BY <1>1, <1>9 DEF Crashes, Fails, RemovalFails
  <2>2. QED
    BY <1>8, <2>1
<1>10. ASSUME NEW s \in Server, StopGoesOn(s) PROVE ReadsInv'
  <2>1. \A d \in Caller : d # Stop(s) => call'[d] = call[d]
    BY <1>1, <1>10, Callers
       DEF StopGoesOn, StopReleases, StopUnregisters, StopEnds, Removes, RemovalStep, Unregister, At
  <2>2. QED
    BY <1>5, <2>1
<1>11. ASSUME NEW s \in Server, LeadGoes(s) PROVE ReadsInv'
  <2>1. CASE \/ LeadLocks(s) \/ LeadGoesOn(s) \/ LeadCleans(s) \/ LeadGivesUp(s)
             \/ \E o \in Server : Reaps(s, o) \/ ReapFails(s, o)
    BY <1>1, <1>5, <2>1 DEF LeadLocks, LeadGoesOn, LeadCleans, LeadGivesUp, Reaps, ReapFails
  <2>2. CASE LeadLists(s)
    BY <1>1, <1>5, <2>2 DEF LeadLists, ServersRead, RoomsOfServers
  <2>3. CASE LeadListsRooms(s)
    BY <1>1, <1>5, <2>3 DEF LeadListsRooms, RoomsRead
  <2>4. CASE \E r \in Room : Removes(Lead(s), r) \/ RemovalFails(Lead(s), r)
    BY <1>6, <2>4 DEF Removes, RemovalStep, RemovalFails
  <2>5. QED
    BY <1>11, <2>1, <2>2, <2>3, <2>4 DEF LeadGoes
<1>12. ASSUME NEW s \in Server, BeatGoesOn(s) PROVE ReadsInv'
  <2>1. CASE \E r \in Room : Removes(Beat(s), r)
    BY <1>6, <2>1 DEF Removes, RemovalStep
  <2>2. CASE Beats(s)
    BY <1>1, <1>7, <2>2, HeartbeatReads DEF Beats
  <2>3. CASE \/ ReplyDiscarded(s) \/ ReplyActedOn(s) \/ Recovered(s)
             \/ \E r \in Room : Registers(s, r) \/ PassedOver(s, r) \/ Confirms(s, r) \/ Unconfirmed(s, r)
    BY <1>1, <1>7, <2>3, ReplyReads
  <2>4. QED
    BY <1>12, <2>1, <2>2, <2>3 DEF BeatGoesOn
<1>13. ASSUME NEW s \in Server, StopBegins(s) PROVE ReadsInv'
  BY <1>1, <1>5, <1>13 DEF StopBegins
<1>14. ASSUME NEW s \in Server, LeadStarts(s) PROVE ReadsInv'
  BY <1>1, <1>5, <1>14 DEF LeadStarts, At
<1>15. ASSUME NEW s \in Server, BeatStarts(s) PROVE ReadsInv'
  <2>1. /\ \A d \in Caller : d # Beat(s) => call'[d] = call[d]
        /\ call'[Beat(s)].at = "multi" /\ call'[Beat(s)].seen = call[Beat(s)].seen
    BY <1>1, <1>15, Callers DEF BeatStarts, At, Calls
  <2>2. BeatInv(s)'
    BY <1>1, <2>1, BeatMoves DEF BeatInv
  <2>3. QED
    BY <1>7, <2>1, <2>2
<1>16. ASSUME NEW s \in Server, \/ Starts(s) \/ Ages(s)
                                \/ \E r \in Room : Creates(r, s) \/ BecomesReady(s, r)
       PROVE  ReadsInv'
  BY <1>6, <1>16 DEF Starts, Ages, Creates, BecomesReady, calls
<1>17. ASSUME NEW r \in Room, Destroys(r) \/ Removes(Sdk, r) \/ RemovalFails(Sdk, r) \/ Lapses(r)
       PROVE  ReadsInv'
  BY <1>6, <1>17 DEF Destroys, Removes, RemovalStep, RemovalFails, Lapses, calls
<1>18. ASSUME NEW r \in Room, Tags(r) PROVE ReadsInv'
  <2>1. home'[r] # NoServer
    BY <1>1, <1>18 DEF Tags, Alive, StoreInv, HomesStay
  <2>2. /\ \A d \in Caller : d # Sdk => call'[d] = call[d]
        /\ call'[Sdk].todo = {r}
    BY <1>1, <1>2, <1>18 DEF Tags, Quiet
  <2>3. \A s \in Server : call'[Beat(s)] = call[Beat(s)]
    BY <2>2, Callers
  <2>4. SdkInv'
    BY <2>1, <2>2 DEF SdkInv
  <2>5. QED
    BY <1>3, <2>3, <2>4 DEF ReadsInv
<1>19. ASSUME NEW r \in Room, Tagged(r) PROVE ReadsInv'
  <2>1. \A d \in Caller : call'[d] \in {call[d], Quiet}
    BY <1>1, <1>19 DEF Tagged
  <2>2. QED
    BY <1>8, <2>1
<1>20. CASE LockExpires \/ UNCHANGED vars
  BY <1>6, <1>20 DEF LockExpires, vars, calls
<1>21. QED
  BY <1>9, <1>10, <1>11, <1>12, <1>13, <1>14, <1>15, <1>16, <1>17, <1>18, <1>19, <1>20 DEF Next

-----------------------------------------------------------------------------

\* The invariant of the fleet: what every call has read is of rooms that once had the server it
\* is about, so that no command, however late, gives a room to another server.
THEOREM FleetInvariant == Spec => []Inv
<1>1. ASSUME Inv, [Next]_vars PROVE Inv'
  BY <1>1, StoreStays, ProcessStays, CallStays, ReadsStay DEF Inv
<1>2. QED
  BY <1>1, InitInv, PTL DEF Spec

\* Every variable keeps its type; in particular a hash is of a server that once had the room,
\* an index and a process table hold rooms of their own server, and a server that is down has
\* no rooms and does not lead.
THEOREM FleetTypeCorrect == Spec => []TypeOK
<1>1. Inv => TypeOK
  <2> SUFFICES ASSUME Inv PROVE TypeOK
    OBVIOUS
  <2>1. \A c \in Caller : /\ call[c].at \in Steps
                          /\ call[c].ids \subseteq Server
                          /\ {call[c].todo, call[c].seen} \subseteq SUBSET Room
                          /\ call[c].gone \subseteq Room \cup Server
                          /\ call[c].who \in Server \cup {NoServer}
    BY CallTyped DEF Inv, Calls
  <2>2. ready \subseteq UNION {local[s] : s \in Server}
    BY DEF Inv, ProcessInv
  <2>3. QED
    BY <2>1, <2>2 DEF Inv, StoreInv, ProcessInv, CallInv, Statuses, TypeOK
<1>2. QED
  BY <1>1, FleetInvariant, PTL

\* Redis, called command by command by any number of servers that come and go, fail and
\* elect each other, behaves as the memory driver.
THEOREM RedisImplementsMemory == Spec => ActsAsMemoryDriver
<1>1. Init => Memory!Init
  <2> SUFFICES ASSUME Init PROVE Memory!Init
    OBVIOUS
  <2>1. \A r \in Room : ~KnownTo(r)
    BY DEF Init, RedisInit, KnownTo, Alive
  <2>2. QED
    BY <2>1 DEF Init, RedisInit, Memory!Init, Status, OwnedBy
<1>2. QED
  BY <1>1, StepMaps, FleetInvariant, PTL DEF Spec, ActsAsMemoryDriver, Memory!Spec

=============================================================================
