------------------------ MODULE ControlPlane_proofs ------------------------
(***************************************************************************)
(* Proofs about ControlPlane, for every set of rooms and overlapping ticks *)
(* and every bound on faults.                                              *)
(***************************************************************************)
EXTENDS ControlPlane, TLAPS

\* Abbreviates the variable groups wherever UNCHANGED has to be expanded.
USE DEF vars, driver, server, answer, recover, ticks, world, sdk, marks, bounds,
        Kill, Stalled, DriverForgets

-----------------------------------------------------------------------------
(* Type correctness.                                                       *)

\* The variables that the synchronous stretches of heartbeatTick write, and the rest.
TypeRun ==
  /\ proc \in [Room -> {"none", "starting", "ready"}]
  /\ spoken \subseteq {r \in Room : proc[r] # "none"}
  /\ {r \in Room : proc[r] = "ready"} \subseteq spoken
  /\ attempted \subseteq Room
  /\ killed \subseteq Room
  /\ lost \subseteq Room
  /\ previously \in BOOLEAN
  /\ calls \subseteq Kinds \X Room
  /\ current \in Tick \cup {NoTick}
  /\ pc \in [Tick -> {"idle", "asked", "answered", "register", "confirm"}]
  /\ registered \in [Tick -> BOOLEAN]
  /\ desired \in [Tick -> [Room -> Status]]
  /\ fresh \in [Tick -> SUBSET Room]
  /\ visiting \in [Tick -> Room \cup {NoRoom}]
  /\ visited \in [Tick -> SUBSET Room]
  /\ reasserted \in [Tick -> SUBSET Room]
  /\ \A t \in Tick : visiting[t] = NoRoom <=> pc[t] \notin {"register", "confirm"}
  /\ running \subseteq Room
  /\ signalled \subseteq Room
  /\ quit \subseteq Room
  /\ dismissed \subseteq Room
  /\ threw \subseteq Room
  /\ spawns \in [Room -> Nat]

TypeRest ==
  /\ serverRec \in BOOLEAN
  /\ rec \in [Room -> Status]
  /\ pushes \subseteq Room
  /\ phase \in {"up", "stopping", "stopped", "failed"}
  /\ created \subseteq Room
  /\ serving \subseteq Room
  /\ unsaved \subseteq Room
  /\ restored \subseteq Room
  /\ reaps \in Nat
  /\ mishaps \in Nat
  /\ timeouts \in Nat

LEMMA TypeParts == TypeOK <=> TypeRun /\ TypeRest
BY DEF TypeOK, TypeRun, TypeRest

LEMMA NothingDesiredType == NothingDesired \in [Room -> Status]
BY DEF NothingDesired, Status

\* Spawning and the table of processes keep their types.
LEMMA SpawnType ==
  ASSUME TypeRun, NEW W \in SUBSET Room, NEW T, Spawn(W, T)
  PROVE  /\ running' \subseteq Room
         /\ threw' \subseteq Room
         /\ spawns' \in [Room -> Nat]
BY DEF TypeRun, Spawn

LEMMA FailType ==
  ASSUME NEW S \in SUBSET Room
  PROVE  Fail(S) \subseteq Kinds \X Room
BY DEF Fail, Kinds

\* A run that ends leaves its slot as an idle one.
LEMMA RunEndsType ==
  ASSUME TypeRun, NEW t \in Tick, RunEnds(t)
  PROVE  /\ current' \in Tick \cup {NoTick}
         /\ pc' \in [Tick -> {"idle", "asked", "answered", "register", "confirm"}]
         /\ registered' \in [Tick -> BOOLEAN]
         /\ desired' \in [Tick -> [Room -> Status]]
         /\ visiting' \in [Tick -> Room \cup {NoRoom}]
         /\ visited' \in [Tick -> SUBSET Room]
         /\ reasserted' \in [Tick -> SUBSET Room]
         /\ \A u \in Tick : visiting'[u] = NoRoom <=> pc'[u] \notin {"register", "confirm"}
BY NothingDesiredType DEF TypeRun, RunEnds

LEMMA TidyType ==
  ASSUME TypeRun, NEW t \in Tick, NEW S \in SUBSET spoken, NEW B, Tidy(t, S, B)
  PROVE  TypeRun'
<1>1. PICK D, W, T, G, F :
        /\ TidyWith(t, S, D, W, T, G, F)
        /\ D \subseteq Room /\ T \subseteq W /\ G \subseteq Room /\ F \subseteq attempted
        /\ W \subseteq {r \in Room : proc[r] = "none"}
  <2>1. /\ Respawn(t, S) \subseteq {r \in Room : proc[r] = "none"}
        /\ Unwanted(t, S, B) \subseteq Room
        /\ Missing(t, S) \subseteq Room
        /\ Forgettable(t) \subseteq attempted
    BY DEF Respawn, Absent, Spawnable, Unwanted, Processes, Missing, Forgettable
  <2>2. QED
    BY <2>1 DEF Tidy
<1>2. S \subseteq Room /\ W \subseteq Room /\ Absent(t, S) \subseteq Room
  BY <1>1 DEF TypeRun, Absent
<1>3. /\ running' \subseteq Room
      /\ threw' \subseteq Room
      /\ spawns' \in [Room -> Nat]
  BY <1>1, <1>2, SpawnType DEF TidyWith
<1>4. calls' \subseteq Kinds \X Room
  <2>1. Fail(S \cup G \cup T) \subseteq Kinds \X Room
    BY <1>1, <1>2, FailType
  <2>2. QED
    BY <1>1, <2>1 DEF TypeRun, TidyWith
<1>5. /\ proc' \in [Room -> {"none", "starting", "ready"}]
      /\ spoken' \subseteq {r \in Room : proc'[r] # "none"}
      /\ {r \in Room : proc'[r] = "ready"} \subseteq spoken'
  BY <1>1, <1>2 DEF TypeRun, Entries, TidyWith
<1>6. fresh' \in [Tick -> SUBSET Room]
  BY <1>1, <1>2 DEF TypeRun, Remembered, TidyWith
<1>7. /\ killed' \subseteq Room
      /\ signalled' \subseteq Room
      /\ lost' \subseteq Room
      /\ attempted' \subseteq Room
      /\ dismissed' \subseteq Room
      /\ previously' \in BOOLEAN
      /\ quit' \subseteq Room
  BY <1>1, <1>2 DEF TypeRun, TidyWith
<1>8. RunEnds(t)
  BY <1>1 DEF TidyWith
<1>9. QED
  BY <1>3, <1>4, <1>5, <1>6, <1>7, <1>8, RunEndsType DEF TypeRun

LEMMA RecoverType ==
  ASSUME TypeRun, NEW t \in Tick, NEW S \in SUBSET spoken, NEW B \in SUBSET Room,
         Recover(t, S, B)
  PROVE  TypeRun'
<1>1. PICK r \in Processes, passed \in SUBSET Processes : Visit(t, S, B, r, passed)
  BY DEF Recover
<1>2. r \in Room /\ passed \subseteq Room /\ S \subseteq Room /\ r # NoRoom
  BY <1>1, ControlAssumption DEF TypeRun, Processes
<1>3. Fail(S) \subseteq Kinds \X Room
  BY <1>2, FailType
<1>4. /\ proc' \in [Room -> {"none", "starting", "ready"}]
      /\ spoken' \subseteq {x \in Room : proc'[x] # "none"}
      /\ {x \in Room : proc'[x] = "ready"} \subseteq spoken'
  BY <1>1, <1>2 DEF TypeRun, Entries, Visit
<1>5. /\ visited' \in [Tick -> SUBSET Room]
      /\ visiting' \in [Tick -> Room \cup {NoRoom}]
      /\ pc' \in [Tick -> {"idle", "asked", "answered", "register", "confirm"}]
      /\ reasserted' \in [Tick -> SUBSET Room]
      /\ \A u \in Tick : visiting'[u] = NoRoom <=> pc'[u] \notin {"register", "confirm"}
  BY <1>1, <1>2 DEF TypeRun, Visit
<1>6. QED
  BY <1>1, <1>2, <1>3, <1>4, <1>5 DEF TypeRun, Visit

LEMMA OnwardType ==
  ASSUME TypeRun, NEW t \in Tick, NEW S \in SUBSET spoken, NEW B \in SUBSET Room,
         Onward(t, S, B)
  PROVE  TypeRun'
BY TidyType, RecoverType DEF Onward

LEMMA InitType == Init => TypeOK
<1> SUFFICES ASSUME Init PROVE TypeRun /\ TypeRest
  BY TypeParts
<1>1. QED
  BY ControlAssumption, NothingDesiredType DEF Init, TypeRun, TypeRest, NothingDesired

\* What the driver, the sdk and the fleet do.
LEMMA EnvironmentType ==
  ASSUME TypeRun, TypeRest, NEW r \in Room,
         SdkCreates(r) \/ SdkDestroys(r) \/ Expires(r) \/ PushLost(r)
  PROVE  TypeRun' /\ TypeRest'
<1>1. CASE SdkCreates(r)
  BY <1>1 DEF TypeRun, TypeRest, SdkCreates, Status
<1>2. CASE SdkDestroys(r)
  BY <1>2 DEF TypeRun, TypeRest, SdkDestroys, Status
<1>3. CASE Expires(r)
  BY <1>3 DEF TypeRun, TypeRest, Expires, Status
<1>4. CASE PushLost(r)
  BY <1>4 DEF TypeRun, TypeRest, PushLost, Mishap
<1>5. QED
  BY <1>1, <1>2, <1>3, <1>4

LEMMA PushType ==
  ASSUME TypeRun, TypeRest, NEW r \in Room, PushLands(r)
  PROVE  TypeRun' /\ TypeRest'
<1> DEFINE W == IF Spawnable(r) THEN {r} ELSE {}
<1>1. PICK T \in SUBSET W :
        /\ Spawn(W, T)
        /\ proc' = Entries({}, W)
        /\ attempted' = attempted \cup W
        /\ fresh' = Remembered(W)
        /\ calls' = calls \cup Fail(T)
        /\ dismissed' = dismissed \cup T
  BY DEF PushLands
<1>2. W \subseteq {x \in Room : proc[x] = "none"}
  BY DEF Spawnable
<1>3. /\ running' \subseteq Room
      /\ threw' \subseteq Room
      /\ spawns' \in [Room -> Nat]
  BY <1>1, <1>2, SpawnType
<1>4. /\ proc' \in [Room -> {"none", "starting", "ready"}]
      /\ spoken \subseteq {x \in Room : proc'[x] # "none"}
      /\ {x \in Room : proc'[x] = "ready"} \subseteq spoken
  BY <1>1, <1>2 DEF TypeRun, Entries
<1>5. fresh' \in [Tick -> SUBSET Room]
  BY <1>1, <1>2 DEF TypeRun, Remembered
<1>6. calls' \subseteq Kinds \X Room
  <2>1. Fail(T) \subseteq Kinds \X Room
    BY <1>1, <1>2, FailType
  <2>2. QED
    BY <1>1, <2>1 DEF TypeRun
<1>7. attempted' \subseteq Room /\ dismissed' \subseteq Room
  BY <1>1, <1>2 DEF TypeRun
<1>8. QED
  BY <1>3, <1>4, <1>5, <1>6, <1>7 DEF TypeRun, TypeRest, PushLands

\* What room processes do, and the server at once.
LEMMA RoomType ==
  ASSUME TypeRun, TypeRest, NEW r \in Room, RoomActs(r) \/ StartupTimesOut(r)
  PROVE  TypeRun' /\ TypeRest'
<1>1. CASE RoomSpeaks(r)
  BY <1>1 DEF TypeRun, TypeRest, RoomSpeaks
<1>2. CASE RoomReady(r)
  BY <1>2 DEF TypeRun, TypeRest, RoomReady, Kinds
<1>3. CASE RoomQuits(r)
  BY <1>3 DEF TypeRun, TypeRest, RoomQuits, Entries, Mishap, Kinds
<1>4. CASE RoomExits(r)
  <2>1. calls' \subseteq Kinds \X Room /\ dismissed' \subseteq Room
    BY <1>4, FailType DEF TypeRun, RoomExits
  <2>2. mishaps' \in Nat
    BY <1>4 DEF TypeRest, RoomExits, Mishap
  <2>3. /\ proc' \in [Room -> {"none", "starting", "ready"}]
        /\ spoken' \subseteq {x \in Room : proc'[x] # "none"}
        /\ {x \in Room : proc'[x] = "ready"} \subseteq spoken'
    BY <1>4 DEF TypeRun, RoomExits, Entries
  <2>4. QED
    BY <1>4, <2>1, <2>2, <2>3 DEF TypeRun, TypeRest, RoomExits
<1>5. CASE StartupTimesOut(r)
  <2>1. calls' \subseteq Kinds \X Room
    BY <1>5, FailType DEF TypeRun, StartupTimesOut
  <2>2. /\ proc' \in [Room -> {"none", "starting", "ready"}]
        /\ spoken \subseteq {x \in Room : proc'[x] # "none"}
        /\ {x \in Room : proc'[x] = "ready"} \subseteq spoken
    BY <1>5 DEF TypeRun, StartupTimesOut, Entries
  <2>3. signalled' \subseteq Room /\ dismissed' \subseteq Room /\ mishaps' \in Nat
    BY <1>5 DEF TypeRun, TypeRest, StartupTimesOut, StartupKill, Mishap
  <2>4. QED
    BY <1>5, <2>1, <2>2, <2>3 DEF TypeRun, TypeRest, StartupTimesOut
<1>6. QED
  BY <1>1, <1>2, <1>3, <1>4, <1>5 DEF RoomActs

LEMMA MarkReadyType ==
  ASSUME TypeRest, NEW r \in Room, MarkReady(r)
  PROVE  rec' \in [Room -> Status]
BY DEF TypeRest, MarkReady, Status

LEMMA CallType ==
  ASSUME TypeRun, TypeRest, NEW r \in Room, CallSettles(r)
  PROVE  TypeRun' /\ TypeRest'
<1>1. CASE ReadyLands(r)
  <2>1. killed' \subseteq Room /\ signalled' \subseteq Room /\ serving' \subseteq Room
    BY <1>1 DEF TypeRun, TypeRest, ReadyLands
  <2>2. QED
    BY <1>1, <2>1, MarkReadyType DEF TypeRun, TypeRest, ReadyLands
<1>2. CASE RemovalLands(r)
  BY <1>2 DEF TypeRun, TypeRest, RemovalLands, Status
<1>3. CASE CallFails(r)
  BY <1>3 DEF TypeRun, TypeRest, CallFails, Mishap
<1>4. QED
  BY <1>1, <1>2, <1>3 DEF CallSettles

\* The steps of heartbeatTick.
LEMMA TickType ==
  ASSUME TypeRun, TypeRest, NEW t \in Tick, TickStarts(t) \/ RunGoesOn(t)
  PROVE  TypeRun' /\ TypeRest'
<1>1. CASE TickStarts(t)
  BY <1>1 DEF TypeRun, TypeRest, TickStarts
<1>2. CASE HeartbeatLands(t)
  BY <1>2 DEF TypeRun, TypeRest, HeartbeatLands
<1>3. CASE HeartbeatFails(t)
  BY <1>3, RunEndsType DEF TypeRun, TypeRest, HeartbeatFails, Mishap
<1>4. CASE HeartbeatReturns(t)
  <2>1. PICK S \in SUBSET spoken :
          /\ IF S = {} THEN UNCHANGED mishaps ELSE Mishap
          /\ Onward(t, S, {}) \/ Tidy(t, S, {})
    BY <1>4 DEF HeartbeatReturns
  <2>2. TypeRun'
    BY <2>1, OnwardType, TidyType
  <2>3. mishaps' \in Nat
    BY <2>1 DEF TypeRest, Mishap
  <2>4. QED
    BY <1>4, <2>2, <2>3 DEF TypeRest, HeartbeatReturns
<1>5. CASE HeartbeatDiscarded(t)
  BY <1>5, RunEndsType DEF TypeRun, TypeRest, HeartbeatDiscarded
<1>6. CASE RegisterLands(t)
  <2>1. visiting[t] \in Room
    BY <1>6 DEF TypeRun, RegisterLands
  <2>2. QED
    BY <1>6, <2>1 DEF TypeRun, TypeRest, RegisterLands, Registered, Status
<1>7. CASE RegisterFails(t)
  <2>1. visiting[t] \in Room /\ reasserted[t] \subseteq Room
    BY <1>7 DEF TypeRun, RegisterFails
  <2>2. TypeRun'
    BY <1>7, <2>1, OnwardType DEF RegisterFails
  <2>3. QED
    BY <1>7, <2>1, <2>2 DEF TypeRest, RegisterFails, Registered, Mishap, Status
<1>8. CASE ConfirmLands(t)
  <2>1. visiting[t] \in Room /\ reasserted[t] \subseteq Room
    BY <1>8 DEF TypeRun, ConfirmLands
  <2>2. TypeRun'
    BY <1>8, <2>1, OnwardType DEF ConfirmLands
  <2>3. QED
    BY <1>8, <2>1, <2>2, MarkReadyType DEF TypeRest, ConfirmLands
<1>9. CASE ConfirmFails(t)
  <2>1. visiting[t] \in Room /\ reasserted[t] \subseteq Room
    BY <1>9 DEF TypeRun, ConfirmFails
  <2>2. TypeRun'
    BY <1>9, <2>1, OnwardType DEF ConfirmFails
  <2>3. QED
    BY <1>9, <2>1, <2>2, MarkReadyType DEF TypeRest, ConfirmFails, Mishap
<1>10. QED
  BY <1>1, <1>2, <1>3, <1>4, <1>5, <1>6, <1>7, <1>8, <1>9 DEF RunGoesOn

LEMMA StopType ==
  ASSUME TypeRun, TypeRest, Stops \/ TickTimesOut \/ Reap
  PROVE  TypeRun' /\ TypeRest'
<1>1. CASE StopBegins
  BY <1>1 DEF TypeRun, TypeRest, StopBegins
<1>2. CASE ServerUnregistered
  <2>1. TypeRun'
    BY <1>2 DEF TypeRun, TypeRest, ServerUnregistered, Processes
  <2>2. QED
    BY <1>2, <2>1, NothingDesiredType DEF TypeRest, ServerUnregistered
<1>3. CASE StopFails
  BY <1>3 DEF TypeRun, TypeRest, StopFails, Mishap
<1>4. CASE TickTimesOut
  BY <1>4 DEF TypeRun, TypeRest, TickTimesOut
<1>5. CASE Reap
  <2>1. TypeRun'
    BY <1>5 DEF TypeRun, Reap
  <2>2. /\ rec' \in [Room -> Status]
        /\ reaps' \in Nat
        /\ unsaved' \subseteq Room
    BY <1>5, NothingDesiredType DEF TypeRest, Reap
  <2>3. QED
    BY <1>5, <2>1, <2>2 DEF TypeRest, Reap
<1>6. QED
  BY <1>1, <1>2, <1>3, <1>4, <1>5 DEF Stops

LEMMA NextType == TypeOK /\ [Next]_vars => TypeOK'
<1> SUFFICES ASSUME TypeRun, TypeRest, [Next]_vars PROVE TypeRun' /\ TypeRest'
  BY TypeParts, PTL
<1>1. CASE UNCHANGED vars
  BY <1>1 DEF TypeRun, TypeRest
<1>2. CASE Next
  <2>1. CASE \E r \in Room : \/ SdkActs(r) \/ Pushed(r) \/ RoomActs(r)
                             \/ StartupTimesOut(r) \/ CallSettles(r)
    BY <2>1, EnvironmentType, PushType, RoomType, CallType DEF SdkActs, Pushed
  <2>2. CASE \E t \in Tick : TickStarts(t) \/ RunGoesOn(t)
    BY <2>2, TickType
  <2>3. CASE Stops \/ TickTimesOut \/ Reap
    BY <2>3, StopType
  <2>4. QED
    BY <1>2, <2>1, <2>2, <2>3 DEF Next
<1>3. QED
  BY <1>1, <1>2

\* Every variable of the control plane keeps its type: the tables of server.ts agree on
\* which rooms have spoken and which are ready, and a run visits a room exactly while a
\* command of its recovery is under way.
THEOREM ControlTypeCorrect == Spec => []TypeOK
BY InitType, NextType, PTL DEF Spec

-----------------------------------------------------------------------------
(* At most one spawn per room.                                             *)

\* A room the sdk has not made yet has left no trace.
Unborn(r) ==
  /\ rec[r] = "none" /\ proc[r] = "none" /\ spawns[r] = 0
  /\ r \notin pushes /\ r \notin attempted
  /\ \A t \in Tick : desired[t][r] = "none" /\ visiting[t] # r

KnownRooms == \A r \in Room \ created : Unborn(r)

\* A run that has not heard from the driver yet desires nothing.
NothingHeard == \A t \in Tick : pc[t] \in {"idle", "asked"} => desired[t] = NothingDesired

\* A room that was attempted before a run asked, and that the run was told nothing of, has
\* lost its record for good.
Heard(t) == pc[t] \in {"answered", "register", "confirm"}

SnapshotHolds ==
  \A t \in Tick : \A r \in attempted \ (fresh[t] \cup restored) :
    Heard(t) /\ desired[t][r] = "none" => rec[r] = "none"

\* A forgotten attempt: neither a push, nor the driver, nor the live run offers the room.
ForgottenForGood ==
  \A r \in Room \ (attempted \cup restored) : spawns[r] > 0 =>
    /\ r \notin pushes
    /\ rec[r] = "none"
    /\ current # NoTick => desired[current][r] = "none"

OnceInv == KnownRooms /\ NothingHeard /\ SnapshotHolds /\ ForgottenForGood /\ SpawnedAtMostOnce

LEMMA InitOnce == Init => OnceInv
BY ControlAssumption
   DEF Init, OnceInv, KnownRooms, Unborn, NothingHeard, NothingDesired, SnapshotHolds, Heard,
       ForgottenForGood, SpawnedAtMostOnce

\* The driver gains records and assignments only by the recovery, for rooms that exist.
Store ==
  /\ created' = created
  /\ restored \subseteq restored'
  /\ \A r \in Room :
       (rec[r] = "none" /\ rec'[r] # "none") \/ r \in pushes' \ pushes
         => r \in restored' /\ r \in created

\* Steps that spawn, forget, ask and visit nothing.
Calm ==
  /\ UNCHANGED <<attempted, spawns, desired, pc, fresh, visiting>>
  /\ current' \in {current, NoTick}
  /\ \A r \in Room : proc'[r] # "none" => proc[r] # "none"

\* A run of heartbeatTick acts, from where it has heard from the driver.
Acts(t) ==
  /\ Heard(t)
  /\ \E S \in SUBSET spoken, B \in SUBSET Room : Tidy(t, S, B) \/ Recover(t, S, B)

\* A run gives up.
Ends(t) == RunEnds(t) /\ fresh' = [fresh EXCEPT ![t] = {}] /\ UNCHANGED <<attempted, spawns, proc>>

LEMMA StoreSteps ==
  ASSUME TypeRun, TypeRest, KnownRooms, Next, ~(\E r \in Room : SdkCreates(r))
  PROVE  Store
<1>1. ASSUME NEW r \in Room, MarkReady(r), UNCHANGED <<created, pushes, restored>>
      PROVE  Store
  BY <1>1 DEF TypeRest, MarkReady, Store
<1>2. ASSUME NEW t \in Tick, pc[t] = "register", Registered(visiting[t]), created' = created
      PROVE  Store
  <2>1. visiting[t] \in created
    BY <1>2 DEF TypeRun, KnownRooms, Unborn
  <2>2. QED
    BY <1>2, <2>1 DEF TypeRest, Registered, Store
<1>3. ASSUME NEW r \in Room, SdkActs(r) \/ Pushed(r) \/ RoomActs(r) \/ StartupTimesOut(r)
      PROVE  Store
  BY <1>3 DEF TypeRest, SdkActs, SdkDestroys, Expires, Pushed, PushLands, PushLost, RoomActs,
              RoomSpeaks, RoomReady, RoomQuits, RoomExits, StartupTimesOut, Store
<1>4. ASSUME NEW r \in Room, CallSettles(r) PROVE Store
  BY <1>1, <1>4 DEF TypeRest, CallSettles, ReadyLands, RemovalLands, CallFails, Store
<1>5. ASSUME NEW t \in Tick, TickStarts(t) \/ RunGoesOn(t) PROVE Store
  <2>1. CASE RegisterLands(t) \/ RegisterFails(t)
    BY <1>2, <2>1 DEF RegisterLands, RegisterFails, Store
  <2>2. CASE ConfirmLands(t) \/ ConfirmFails(t)
    <3>1. visiting[t] \in Room
      BY <2>2 DEF TypeRun, ConfirmLands, ConfirmFails
    <3>2. QED
      BY <1>1, <2>2, <3>1 DEF ConfirmLands, ConfirmFails, Store
  <2>3. QED
    BY <1>5, <2>1, <2>2 DEF TickStarts, RunGoesOn, HeartbeatLands, HeartbeatFails,
                            HeartbeatReturns, HeartbeatDiscarded, Store
<1>6. CASE Stops \/ TickTimesOut \/ Reap
  BY <1>6 DEF TypeRest, Stops, StopBegins, ServerUnregistered, StopFails, TickTimesOut, Reap,
              NothingDesired, Store
<1>7. QED
  BY <1>3, <1>4, <1>5, <1>6 DEF Next

LEMMA RunSteps ==
  ASSUME TypeRun, Next
  PROVE  \/ Calm
         \/ \E r \in Room : PushLands(r)
         \/ \E t \in Tick : \/ TickStarts(t) \/ HeartbeatLands(t) \/ RegisterLands(t)
                            \/ Acts(t) \/ Ends(t)
<1>1. ASSUME NEW r \in Room, SdkActs(r) \/ PushLost(r) \/ CallSettles(r) PROVE Calm
  BY <1>1 DEF SdkActs, SdkCreates, SdkDestroys, Expires, PushLost, CallSettles, ReadyLands,
              RemovalLands, CallFails, Calm
<1>2. ASSUME NEW r \in Room, RoomActs(r) \/ StartupTimesOut(r) PROVE Calm
  BY <1>2 DEF TypeRun, RoomActs, RoomSpeaks, RoomReady, RoomQuits, RoomExits,
              StartupTimesOut, Entries, Calm
<1>3. ASSUME NEW t \in Tick, RunGoesOn(t)
      PROVE  HeartbeatLands(t) \/ RegisterLands(t) \/ Acts(t) \/ Ends(t)
  <2>1. CASE HeartbeatFails(t) \/ HeartbeatDiscarded(t)
    BY <2>1 DEF HeartbeatFails, HeartbeatDiscarded, Ends
  <2>2. CASE HeartbeatReturns(t)
    <3>1. \E S \in SUBSET spoken : Tidy(t, S, {}) \/ Recover(t, S, {})
      BY <2>2 DEF HeartbeatReturns, Onward
    <3>2. QED
      BY <2>2, <3>1 DEF HeartbeatReturns, Acts, Heard
  <2>3. CASE RegisterFails(t) \/ ConfirmLands(t) \/ ConfirmFails(t)
    <3>1. PICK B \in SUBSET Room : Onward(t, {}, B)
      BY <2>3 DEF TypeRun, RegisterFails, ConfirmLands, ConfirmFails
    <3>2. QED
      BY <2>3, <3>1 DEF RegisterFails, ConfirmLands, ConfirmFails, Onward, Acts, Heard
  <2>4. QED
    BY <1>3, <2>1, <2>2, <2>3 DEF RunGoesOn
<1>4. CASE Stops \/ TickTimesOut \/ Reap
  BY <1>4 DEF Stops, StopBegins, ServerUnregistered, StopFails, TickTimesOut, Reap, Calm
<1>5. QED
  BY <1>1, <1>2, <1>3, <1>4 DEF Next, Pushed

\* What a run that acts may do to the variables of the invariant.
LEMMA ActsSteps ==
  ASSUME TypeRun, NEW t \in Tick, Acts(t)
  PROVE  \/ \E S \in SUBSET spoken, W \in SUBSET Room, F \in SUBSET Forgettable(t) :
              /\ \A r \in W : desired[t][r] = "requested" /\ Spawnable(r) /\ current = t
              /\ F # {} => current = t
              /\ attempted' = (attempted \ F) \cup W
              /\ fresh' = [Remembered(W) EXCEPT ![t] = {}]
              /\ spawns' = [r \in Room |-> IF r \in W THEN spawns[r] + 1 ELSE spawns[r]]
              /\ proc' = Entries(S, W)
              /\ RunEnds(t)
         \/ \E S \in SUBSET spoken, r \in Processes :
              /\ UNCHANGED <<attempted, spawns, fresh, current, desired>>
              /\ proc' = Entries(S, {})
              /\ pc' = [pc EXCEPT ![t] = "register"]
              /\ visiting' = [visiting EXCEPT ![t] = r]
<1>1. PICK S \in SUBSET spoken, B \in SUBSET Room : Tidy(t, S, B) \/ Recover(t, S, B)
  BY DEF Acts
<1>2. CASE Tidy(t, S, B)
  <2>1. PICK T \in SUBSET Respawn(t, S), G \in SUBSET (Missing(t, S) \cap lost),
             F \in SUBSET Forgettable(t) :
          /\ F # {} => current = t
          /\ TidyWith(t, S, Unwanted(t, S, B), Respawn(t, S), T, G, F)
    BY <1>2 DEF Tidy
  <2>2. /\ Respawn(t, S) \in SUBSET Room
        /\ \A r \in Respawn(t, S) :
             desired[t][r] = "requested" /\ Spawnable(r) /\ current = t
    BY DEF Respawn, Absent
  <2>3. QED
    BY <2>1, <2>2 DEF TidyWith, Spawn
<1>3. CASE Recover(t, S, B)
  <2>1. PICK r \in Processes, passed \in SUBSET Processes : Visit(t, S, B, r, passed)
    BY <1>3 DEF Recover
  <2>2. QED
    BY <2>1 DEF Visit
<1>4. QED
  BY <1>1, <1>2, <1>3

\* The sdk makes a room.
LEMMA CreateOnce ==
  ASSUME TypeRun, TypeRest, OnceInv, NEW r \in Room, SdkCreates(r)
  PROVE  OnceInv'
BY DEF TypeRun, TypeRest, OnceInv, KnownRooms, Unborn, NothingHeard, SnapshotHolds, Heard,
       ForgottenForGood, SpawnedAtMostOnce, SdkCreates

LEMMA CalmOnce ==
  ASSUME TypeRun, TypeRest, OnceInv, Store, Calm
  PROVE  OnceInv'
<1>1. KnownRooms'
  BY DEF TypeRest, OnceInv, KnownRooms, Unborn, Store, Calm
<1>2. NothingHeard'
  BY DEF OnceInv, NothingHeard, NothingDesired, Calm
<1>3. SnapshotHolds'
  BY DEF TypeRun, OnceInv, SnapshotHolds, Heard, Store, Calm
<1>4. ForgottenForGood'
  BY DEF OnceInv, ForgottenForGood, Store, Calm
<1>5. SpawnedAtMostOnce'
  BY DEF OnceInv, SpawnedAtMostOnce, Store, Calm
<1>6. QED
  BY <1>1, <1>2, <1>3, <1>4, <1>5 DEF OnceInv

LEMMA PushOnce ==
  ASSUME TypeRun, TypeRest, OnceInv, Store, NEW r \in Room, PushLands(r)
  PROVE  OnceInv'
<1> DEFINE W == IF Spawnable(r) THEN {r} ELSE {}
<1>1. /\ r \in pushes
      /\ spawns' = [x \in Room |-> IF x \in W THEN spawns[x] + 1 ELSE spawns[x]]
      /\ proc' = Entries({}, W)
      /\ attempted' = attempted \cup W
      /\ fresh' = Remembered(W)
      /\ pushes' = pushes \ {r}
      /\ UNCHANGED <<rec, created, restored, desired, visiting, pc, current>>
  BY DEF PushLands, Spawn
<1>2. r \in created
  BY <1>1 DEF OnceInv, KnownRooms, Unborn
<1>3. KnownRooms'
  BY <1>1, <1>2 DEF OnceInv, KnownRooms, Unborn, Entries
<1>4. NothingHeard'
  BY <1>1 DEF OnceInv, NothingHeard, NothingDesired
<1>5. SnapshotHolds'
  BY <1>1 DEF TypeRun, OnceInv, SnapshotHolds, Heard, Remembered
<1>6. ForgottenForGood'
  BY <1>1 DEF TypeRun, OnceInv, ForgottenForGood
<1>7. SpawnedAtMostOnce'
  <2>1. r \in W /\ r \notin restored => spawns[r] = 0
    BY <1>1 DEF TypeRun, OnceInv, ForgottenForGood, Spawnable
  <2>2. QED
    BY <1>1, <2>1 DEF TypeRun, OnceInv, SpawnedAtMostOnce
<1>8. QED
  BY <1>3, <1>4, <1>5, <1>6, <1>7 DEF OnceInv

\* A run asks, hears, registers a room again or gives up.
LEMMA SlotOnce ==
  ASSUME TypeRun, TypeRest, OnceInv, Store, NEW t \in Tick,
         TickStarts(t) \/ HeartbeatLands(t) \/ RegisterLands(t) \/ Ends(t)
  PROVE  OnceInv'
<1>1. /\ UNCHANGED <<attempted, spawns, proc>>
      /\ \A u \in Tick : fresh'[u] # fresh[u] => pc'[u] = "idle"
      /\ \A u \in Tick : visiting'[u] \in {visiting[u], NoRoom}
  BY DEF TypeRun, TickStarts, HeartbeatLands, RegisterLands, Ends, RunEnds
<1>2. \A u \in Tick : desired'[u] \in {desired[u], NothingDesired, rec}
  BY DEF TypeRun, TickStarts, HeartbeatLands, RegisterLands, Ends, RunEnds
<1>3. KnownRooms'
  BY <1>1, <1>2, ControlAssumption
  DEF TypeRest, OnceInv, KnownRooms, Unborn, Store, NothingDesired
<1>4. NothingHeard'
  BY DEF TypeRun, OnceInv, NothingHeard, TickStarts, HeartbeatLands, RegisterLands, Ends,
         RunEnds
<1>5. SnapshotHolds'
  <2>1. CASE HeartbeatLands(t)
    BY <2>1 DEF TypeRun, OnceInv, SnapshotHolds, Heard, HeartbeatLands
  <2>2. CASE TickStarts(t) \/ RegisterLands(t) \/ Ends(t)
    <3>1. \A u \in Tick : Heard(u)' =>
            Heard(u) /\ desired'[u] = desired[u] /\ fresh'[u] = fresh[u]
      BY <2>2 DEF TypeRun, TickStarts, RegisterLands, Ends, RunEnds, Heard
    <3>2. QED
      BY <1>1, <3>1 DEF TypeRun, OnceInv, SnapshotHolds, Store
  <2>3. QED
    BY <2>1, <2>2
<1>6. ForgottenForGood'
  <2>1. /\ current' # NoTick
        => \/ current' = t /\ desired'[t] = NothingDesired
           \/ current' = current /\ desired'[current] \in {desired[current], NothingDesired, rec}
    BY <1>2 DEF TypeRun, OnceInv, NothingHeard, TickStarts, HeartbeatLands, RegisterLands,
                Ends, RunEnds
  <2>2. QED
    BY <1>1, <2>1 DEF OnceInv, ForgottenForGood, Store, NothingDesired
<1>7. SpawnedAtMostOnce'
  BY <1>1 DEF OnceInv, SpawnedAtMostOnce, Store
<1>8. QED
  BY <1>3, <1>4, <1>5, <1>6, <1>7 DEF OnceInv

LEMMA SpawnsAreCounted == TypeRun => \A r \in Room : spawns[r] \in Nat
BY DEF TypeRun

\* The rest of a run: what it spawns was never attempted, what it forgets is gone.
LEMMA TidyOnce ==
  ASSUME TypeRun, TypeRest, OnceInv, Store, NEW t \in Tick, Heard(t),
         NEW S \in SUBSET spoken, NEW W \in SUBSET Room, NEW F \in SUBSET Forgettable(t),
         \A r \in W : desired[t][r] = "requested" /\ Spawnable(r) /\ current = t,
         F # {} => current = t,
         attempted' = (attempted \ F) \cup W,
         fresh' = [Remembered(W) EXCEPT ![t] = {}],
         spawns' = [r \in Room |-> IF r \in W THEN spawns[r] + 1 ELSE spawns[r]],
         proc' = Entries(S, W),
         RunEnds(t)
  PROVE  OnceInv'
<1>1. W \subseteq created
  BY DEF OnceInv, KnownRooms, Unborn
<1>2. \A r \in W \ restored : spawns[r] = 0
  <2> SUFFICES ASSUME NEW r \in W \ restored PROVE ~(spawns[r] > 0)
    BY SpawnsAreCounted
  <2>1. r \notin attempted /\ desired[current][r] = "requested" /\ current # NoTick
    BY ControlAssumption DEF Spawnable
  <2>2. QED
    BY <2>1 DEF OnceInv, ForgottenForGood
<1>3. \A r \in F \ restored : r \notin pushes /\ rec[r] = "none"
  BY DEF OnceInv, SnapshotHolds, Forgettable
<1>4. /\ \A u \in Tick : u # t => pc'[u] = pc[u] /\ desired'[u] = desired[u]
      /\ pc'[t] = "idle" /\ desired'[t] = NothingDesired
      /\ \A u \in Tick : visiting'[u] \in {visiting[u], NoRoom}
      /\ current' = IF current = t THEN NoTick ELSE current
  BY DEF TypeRun, RunEnds
<1>5. KnownRooms'
  BY <1>1, <1>4, ControlAssumption
  DEF TypeRest, OnceInv, KnownRooms, Unborn, Store, NothingDesired, Entries
<1>6. NothingHeard'
  BY <1>4 DEF OnceInv, NothingHeard
<1>7. SnapshotHolds'
  <2>1. \A u \in Tick : Heard(u)' =>
          Heard(u) /\ desired'[u] = desired[u] /\ fresh'[u] = fresh[u] \cup W
    BY <1>4 DEF TypeRun, Heard, Remembered
  <2>2. QED
    BY <2>1 DEF TypeRun, OnceInv, SnapshotHolds, Store
<1>8. ForgottenForGood'
  <2>1. ASSUME NEW r \in Room \ (attempted' \cup restored'), spawns'[r] > 0
        PROVE  r \notin pushes /\ rec[r] = "none"
    <3>1. CASE r \in F
      BY <1>3, <2>1, <3>1 DEF Store
    <3>2. CASE r \notin F
      BY <2>1, <3>2 DEF OnceInv, ForgottenForGood, Store
    <3>3. QED
      BY <3>1, <3>2
  <2>2. ASSUME NEW r \in Room \ (attempted' \cup restored'), spawns'[r] > 0, current' # NoTick
        PROVE  desired'[current'][r] = "none"
    BY <1>4, <2>2 DEF TypeRun, OnceInv, ForgottenForGood, Store
  <2>3. QED
    BY <2>1, <2>2 DEF ForgottenForGood, Store
<1>9. SpawnedAtMostOnce'
  BY <1>2 DEF TypeRun, OnceInv, SpawnedAtMostOnce, Store
<1>10. QED
  BY <1>5, <1>6, <1>7, <1>8, <1>9 DEF OnceInv

LEMMA VisitOnce ==
  ASSUME TypeRun, TypeRest, OnceInv, Store, NEW t \in Tick, Heard(t),
         NEW S \in SUBSET spoken, NEW r \in Processes,
         UNCHANGED <<attempted, spawns, fresh, current, desired>>,
         proc' = Entries(S, {}),
         pc' = [pc EXCEPT ![t] = "register"],
         visiting' = [visiting EXCEPT ![t] = r]
  PROVE  OnceInv'
<1>1. r \in created /\ r \in Room
  BY DEF OnceInv, KnownRooms, Unborn, Processes
<1>2. KnownRooms'
  BY <1>1 DEF TypeRun, TypeRest, OnceInv, KnownRooms, Unborn, Store, Entries
<1>3. NothingHeard' /\ SpawnedAtMostOnce'
  BY DEF TypeRun, OnceInv, NothingHeard, NothingDesired, SpawnedAtMostOnce, Store
<1>4. SnapshotHolds'
  BY DEF TypeRun, OnceInv, SnapshotHolds, Heard, Store
<1>5. ForgottenForGood'
  BY DEF OnceInv, ForgottenForGood, Store
<1>6. QED
  BY <1>2, <1>3, <1>4, <1>5 DEF OnceInv

LEMMA NextOnce == TypeOK /\ OnceInv /\ [Next]_vars => OnceInv'
<1> SUFFICES ASSUME TypeRun, TypeRest, OnceInv, [Next]_vars PROVE OnceInv'
  BY TypeParts
<1>1. CASE UNCHANGED vars
  BY <1>1 DEF OnceInv, KnownRooms, Unborn, NothingHeard, NothingDesired, SnapshotHolds, Heard,
              ForgottenForGood, SpawnedAtMostOnce
<1>2. CASE Next /\ \E r \in Room : SdkCreates(r)
  BY <1>2, CreateOnce
<1>3. CASE Next /\ ~(\E r \in Room : SdkCreates(r))
  <2>1. Store
    BY <1>3, StoreSteps DEF OnceInv
  <2>2. ASSUME NEW t \in Tick, Acts(t) PROVE OnceInv'
    <3>1. Heard(t)
      BY <2>2 DEF Acts
    <3>2. QED
      BY <2>1, <2>2, <3>1, ActsSteps, TidyOnce, VisitOnce
  <2>3. QED
    BY <1>3, <2>1, <2>2, RunSteps, CalmOnce, PushOnce, SlotOnce
<1>4. QED
  BY <1>1, <1>2, <1>3

\* A room is spawned at most once, whatever pushes, heartbeats, late answers and forgotten
\* attempts come together, unless a reap recovery registered it again.
THEOREM SpawnOnce == Spec => []SpawnedAtMostOnce
<1>1. TypeOK /\ OnceInv => SpawnedAtMostOnce
  BY DEF OnceInv
<1>2. QED
  BY <1>1, InitType, NextType, InitOnce, NextOnce, PTL DEF Spec

-----------------------------------------------------------------------------
(* Every running room is in the table of processes, or on its way out.     *)

LEMMA TidyForgetsNone ==
  ASSUME TypeRun, NoProcessIsForgotten, NEW t \in Tick, NEW S \in SUBSET spoken, NEW B,
         Tidy(t, S, B), phase' = phase
  PROVE  NoProcessIsForgotten'
<1>1. PICK D, T, G, F : TidyWith(t, S, D, Respawn(t, S), T, G, F)
  BY DEF Tidy
<1>2. /\ Respawn(t, S) # {} => phase = "up"
      /\ Respawn(t, S) \subseteq Room
  BY DEF Respawn, Absent, Spawnable
<1>3. \A r \in Room : proc'[r] = IF r \in S THEN "none"
                                ELSE IF r \in Respawn(t, S) THEN "starting" ELSE proc[r]
  BY <1>1 DEF TidyWith, Entries
<1>4. /\ running' \subseteq running \cup (Respawn(t, S) \ S)
      /\ signalled \cup (running \cap S) \subseteq signalled'
      /\ quit' = quit
  <2>1. Respawn(t, S) \cap S = {}
    BY DEF TypeRun, Respawn, Spawnable
  <2>2. QED
    BY <1>1, <2>1 DEF TidyWith, Spawn
<1>5. QED
  BY <1>2, <1>3, <1>4 DEF TypeRun, NoProcessIsForgotten, Processes

LEMMA RecoverForgetsNone ==
  ASSUME TypeRun, NoProcessIsForgotten, NEW t \in Tick, NEW S \in SUBSET spoken, NEW B,
         Recover(t, S, B), phase' = phase
  PROVE  NoProcessIsForgotten'
<1>1. PICK r, passed : Visit(t, S, B, r, passed)
  BY DEF Recover
<1>2. QED
  BY <1>1 DEF TypeRun, NoProcessIsForgotten, Processes, Visit, Entries

LEMMA NextForgetsNone == TypeOK /\ NoProcessIsForgotten /\ [Next]_vars => NoProcessIsForgotten'
<1> SUFFICES ASSUME TypeRun, TypeRest, NoProcessIsForgotten, [Next]_vars
             PROVE  NoProcessIsForgotten'
  BY TypeParts
<1>1. ASSUME UNCHANGED <<running, signalled, quit, proc, phase>> PROVE NoProcessIsForgotten'
  BY <1>1 DEF NoProcessIsForgotten, Processes
<1>2. ASSUME NEW r \in Room, SdkActs(r) \/ PushLost(r) \/ RoomSpeaks(r)
      PROVE  NoProcessIsForgotten'
  BY <1>1, <1>2 DEF SdkActs, SdkCreates, SdkDestroys, Expires, PushLost, RoomSpeaks
<1>3. ASSUME NEW r \in Room, PushLands(r) PROVE NoProcessIsForgotten'
  <2>1. PICK W \in SUBSET Room :
          /\ W # {} => phase = "up"
          /\ proc' = Entries({}, W)
          /\ running' \subseteq running \cup W
          /\ UNCHANGED <<signalled, quit, phase>>
    BY <1>3 DEF PushLands, Spawnable, Spawn
  <2>2. QED
    BY <2>1 DEF TypeRun, NoProcessIsForgotten, Processes, Entries
<1>4. ASSUME NEW r \in Room, RoomReady(r) PROVE NoProcessIsForgotten'
  BY <1>4 DEF TypeRun, NoProcessIsForgotten, Processes, RoomReady
<1>5. ASSUME NEW r \in Room, RoomQuits(r) PROVE NoProcessIsForgotten'
  BY <1>5 DEF TypeRun, NoProcessIsForgotten, Processes, RoomQuits, Entries
<1>6. ASSUME NEW r \in Room, RoomExits(r) PROVE NoProcessIsForgotten'
  BY <1>6 DEF TypeRun, NoProcessIsForgotten, Processes, RoomExits, Entries
<1>7. ASSUME NEW r \in Room, StartupTimesOut(r) PROVE NoProcessIsForgotten'
  BY <1>7 DEF TypeRun, NoProcessIsForgotten, Processes, StartupTimesOut, StartupKill, Entries
<1>8. ASSUME NEW r \in Room, CallSettles(r) PROVE NoProcessIsForgotten'
  <2>1. CASE ReadyLands(r)
    BY <2>1 DEF NoProcessIsForgotten, Processes, ReadyLands
  <2>2. CASE RemovalLands(r) \/ CallFails(r)
    BY <1>1, <2>2 DEF RemovalLands, CallFails
  <2>3. QED
    BY <1>8, <2>1, <2>2 DEF CallSettles
<1>9. ASSUME NEW t \in Tick, TickStarts(t) \/ RunGoesOn(t) PROVE NoProcessIsForgotten'
  <2>1. CASE HeartbeatReturns(t) \/ RegisterFails(t) \/ ConfirmLands(t) \/ ConfirmFails(t)
    <3>1. /\ phase' = phase
          /\ \E S \in SUBSET spoken : \E B : Tidy(t, S, B) \/ Recover(t, S, B)
      BY <2>1 DEF HeartbeatReturns, RegisterFails, ConfirmLands, ConfirmFails, Onward
    <3>2. QED
      BY <3>1, TidyForgetsNone, RecoverForgetsNone
  <2>2. CASE ~(HeartbeatReturns(t) \/ RegisterFails(t) \/ ConfirmLands(t) \/ ConfirmFails(t))
    BY <1>1, <1>9, <2>2 DEF TickStarts, RunGoesOn, HeartbeatLands, HeartbeatFails,
                            HeartbeatDiscarded, RegisterLands
  <2>3. QED
    BY <2>1, <2>2
<1>10. CASE ServerUnregistered
  BY <1>10 DEF NoProcessIsForgotten, ServerUnregistered
<1>11. CASE StopBegins \/ StopFails
  BY <1>11 DEF NoProcessIsForgotten, Processes, StopBegins, StopFails
<1>12. CASE TickTimesOut \/ Reap \/ UNCHANGED vars
  BY <1>1, <1>12 DEF TickTimesOut, Reap
<1>13. QED
  BY <1>2, <1>3, <1>4, <1>5, <1>6, <1>7, <1>8, <1>9, <1>10, <1>11, <1>12
  DEF Next, RoomActs, Pushed, Stops

\* The server never loses sight of a running room it has not killed, through spawn failures,
\* startup timeouts, stalls, sweeps, recoveries and stop.
THEOREM ForgetsNoProcess == Spec => []NoProcessIsForgotten
<1>1. Init => NoProcessIsForgotten
  BY DEF Init, NoProcessIsForgotten
<1>2. QED
  BY <1>1, InitType, NextType, NextForgetsNone, PTL DEF Spec

-----------------------------------------------------------------------------
(* Removed records.                                                        *)

\* No late ready, failure, heartbeat or push revives a record: only the recovery of a
\* reaped server does, for the room it is registering.
THEOREM RevivedOnlyByRecovery == Spec => RemovedStaysRemoved
<1> DEFINE A == \A r \in created :
                  rec[r] = "none" /\ rec'[r] # "none" =>
                    \E t \in Tick : pc[t] = "register" /\ visiting[t] = r
<1>1. ASSUME TypeRun, TypeRest, [Next]_vars PROVE [A]_vars
  <2>1. ASSUME NEW r \in Room, MarkReady(r) PROVE A
    BY <1>1, <2>1 DEF TypeRest, MarkReady
  <2>2. ASSUME NEW t \in Tick, pc[t] = "register", Registered(visiting[t]) PROVE A
    BY <1>1, <2>2 DEF TypeRun, TypeRest, Registered
  <2>3. CASE rec' = rec \/ rec' = NothingDesired
    BY <1>1, <2>3 DEF TypeRest, NothingDesired
  <2>4. ASSUME NEW r \in Room, SdkActs(r) \/ CallSettles(r) PROVE A
    BY <1>1, <2>1, <2>3, <2>4
    DEF TypeRest, SdkActs, SdkCreates, SdkDestroys, Expires, CallSettles, ReadyLands,
        RemovalLands, CallFails
  <2>5. ASSUME NEW r \in Room, Pushed(r) \/ RoomActs(r) \/ StartupTimesOut(r) PROVE A
    BY <2>3, <2>5 DEF Pushed, PushLands, PushLost, RoomActs, RoomSpeaks, RoomReady, RoomQuits,
                      RoomExits, StartupTimesOut
  <2>6. ASSUME NEW t \in Tick, TickStarts(t) \/ RunGoesOn(t) PROVE A
    <3>1. pc[t] = "confirm" => visiting[t] \in Room
      BY <1>1 DEF TypeRun
    <3>2. QED
      BY <2>1, <2>2, <2>3, <2>6, <3>1
      DEF TickStarts, RunGoesOn, HeartbeatLands, HeartbeatFails, HeartbeatReturns,
          HeartbeatDiscarded, RegisterLands, RegisterFails, ConfirmLands, ConfirmFails
  <2>7. CASE Stops \/ TickTimesOut \/ Reap
    BY <2>3, <2>7 DEF Stops, StopBegins, ServerUnregistered, StopFails, TickTimesOut, Reap
  <2>8. QED
    BY <1>1, <2>4, <2>5, <2>6, <2>7 DEF Next
<1>2. TypeOK /\ [Next]_vars => [A]_vars
  BY <1>1, TypeParts
<1>3. QED
  BY <1>2, InitType, NextType, PTL DEF Spec, RemovedStaysRemoved

-----------------------------------------------------------------------------
(* No room is destroyed, and no published room lost, without a reason.     *)

\* What takes a room's protection away: it was given up, or lost in a reap.
Excused == dismissed \cup unsaved

RemovalsAreMeant ==
  \A r \in Room : <<"failure", r>> \in calls \/ <<"unregister", r>> \in calls => r \in dismissed

NoServerNoRooms == ~serverRec => rec = NothingDesired

\* A recovery belongs to a run that had to register the server again, after the first time.
RunsInOrder ==
  \A t \in Tick :
    /\ registered[t] => Heard(t)
    /\ pc[t] \in {"register", "confirm"} => registered[t] /\ previously
    /\ pc[t] \notin {"register", "confirm"} => visited[t] = {}

AlwaysInv == RemovalsAreMeant /\ NoServerNoRooms /\ RunsInOrder

\* The run that registered the server is the live one, and was told of no room.
OnlyLiveRegisters ==
  \A t \in Tick : registered[t] => current = t /\ desired[t] = NothingDesired

KilledForAReason == killed \subseteq Excused

\* A room the driver has published, or is told to publish, has a ready process; and a record,
\* unless a reap took it after it was published.
ServedAreReady    == \A r \in serving \ Excused : proc[r] = "ready"
NoRecordIfServing == \A r \in created \ Excused : rec[r] = "none" => r \in serving
ReportsFindRecord ==
  \A r \in Room \ Excused : <<"ready", r>> \in calls => rec[r] # "none" /\ proc[r] = "ready"

\* Before the first tick is through, only the run under way has registered the server.
FirstTime ==
  ~previously /\ (\A t \in Tick : ~registered[t]) => ~serverRec /\ serving = {}

PublishedOrRecovering ==
  \A r \in serving \ Excused :
    rec[r] = "running" \/ ~serverRec \/ \E t \in Tick : registered[t]

\* What a recovery has not restored it has still to visit, or visits now.
StillToVisit ==
  \A t \in Tick : registered[t] /\ serverRec =>
    \A r \in serving \ Excused :
      rec[r] # "running" => previously /\ (r \notin visited[t] \/ visiting[t] = r)

\* A room older than the live run's request that the run was not told of waits for a recovery.
OldAndUntold ==
  current # NoTick => \A r \in Room \ (Excused \cup fresh[current]) :
    proc[r] # "none" /\ Heard(current) /\ desired[current][r] = "none" =>
      registered[current] /\ previously /\ r \in serving

\* A recovery has restored, excused or taken for younger what it has visited.
VisitedAreSafe ==
  \A t \in Tick : registered[t] =>
    visited[t] \subseteq reasserted[t] \cup {visiting[t]} \cup Excused \cup fresh[t]

\* The room it visits is ready, and what it registered is there to be confirmed.
VisitIsMeant ==
  \A t \in Tick : registered[t] /\ visiting[t] \in Room \ Excused =>
    /\ proc[visiting[t]] = "ready"
    /\ pc[t] = "confirm" /\ serverRec => rec[visiting[t]] # "none"

LiveInv ==
  /\ OnlyLiveRegisters /\ KilledForAReason
  /\ ServedAreReady /\ NoRecordIfServing /\ ReportsFindRecord
  /\ FirstTime /\ PublishedOrRecovering
  /\ StillToVisit /\ OldAndUntold /\ VisitedAreSafe /\ VisitIsMeant

\* A reap whose recovery is cut short excuses every room.
KeptInv == phase = "up" /\ unsaved # Room => LiveInv

LEMMA InitKept == Init => AlwaysInv /\ KeptInv
BY ControlAssumption
   DEF Init, AlwaysInv, RemovalsAreMeant, NoServerNoRooms, RunsInOrder, Heard, KeptInv, LiveInv,
       OnlyLiveRegisters, KilledForAReason, ServedAreReady, NoRecordIfServing,
       ReportsFindRecord, FirstTime, PublishedOrRecovering, StillToVisit, OldAndUntold,
       VisitedAreSafe, VisitIsMeant, Excused

\* What the failures of Tidy and Visit add.
LEMMA FailMembers ==
  ASSUME NEW S, NEW r
  PROVE  /\ <<"failure", r>> \in Fail(S) <=> r \in S
         /\ <<"unregister", r>> \notin Fail(S)
         /\ <<"ready", r>> \notin Fail(S)
BY DEF Fail

LEMMA RunEndsSlot ==
  ASSUME TypeRun, NEW t \in Tick, RunEnds(t)
  PROVE  /\ \A u \in Tick \ {t} : /\ pc'[u] = pc[u]
                                  /\ registered'[u] = registered[u]
                                  /\ desired'[u] = desired[u]
                                  /\ visiting'[u] = visiting[u]
                                  /\ visited'[u] = visited[u]
                                  /\ reasserted'[u] = reasserted[u]
         /\ pc'[t] = "idle" /\ ~registered'[t] /\ visited'[t] = {} /\ visiting'[t] = NoRoom
         /\ current' = IF current = t THEN NoTick ELSE current
BY DEF TypeRun, RunEnds

-----------------------------------------------------------------------------
(* Removals, records and the order of a run.                               *)

LEMMA TidyAlways ==
  ASSUME TypeRun, RemovalsAreMeant, RunsInOrder, NEW t \in Tick, NEW S \in SUBSET spoken,
         NEW B, Tidy(t, S, B)
  PROVE  RemovalsAreMeant' /\ RunsInOrder'
<1>1. PICK D, T, G, F : TidyWith(t, S, D, Respawn(t, S), T, G, F)
  BY DEF Tidy
<1>2. RemovalsAreMeant'
  <2>1. calls' = calls \cup Fail(S \cup G \cup T) /\ dismissed' = dismissed \cup S \cup G \cup T
    BY <1>1 DEF TidyWith
  <2>2. QED
    BY <2>1, FailMembers DEF RemovalsAreMeant
<1>3. RunsInOrder'
  <2>1. RunEnds(t) /\ previously'
    BY <1>1 DEF TidyWith
  <2>2. QED
    BY <2>1, RunEndsSlot DEF RunsInOrder, Heard
<1>4. QED
  BY <1>2, <1>3

LEMMA RecoverAlways ==
  ASSUME TypeRun, RemovalsAreMeant, RunsInOrder, NEW t \in Tick, NEW S \in SUBSET spoken,
         NEW B, Recover(t, S, B), registered[t], previously
  PROVE  RemovalsAreMeant' /\ RunsInOrder'
<1>1. PICK r, passed : Visit(t, S, B, r, passed)
  BY DEF Recover
<1>2. RemovalsAreMeant'
  <2>1. calls' = calls \cup Fail(S) /\ dismissed' = dismissed \cup S
    BY <1>1 DEF Visit
  <2>2. QED
    BY <2>1, FailMembers DEF RemovalsAreMeant
<1>3. RunsInOrder'
  BY <1>1 DEF TypeRun, RunsInOrder, Heard, Visit
<1>4. QED
  BY <1>2, <1>3

\* A run of heartbeatTick goes on from where it has heard from the driver.
LEMMA OnwardAlways ==
  ASSUME TypeRun, RemovalsAreMeant, RunsInOrder, NEW t \in Tick,
         HeartbeatReturns(t) \/ RegisterFails(t) \/ ConfirmLands(t) \/ ConfirmFails(t)
  PROVE  RemovalsAreMeant' /\ RunsInOrder'
<1>1. PICK B : \E S \in SUBSET spoken :
        Tidy(t, S, B) \/ (Recover(t, S, B) /\ registered[t] /\ previously)
  BY DEF HeartbeatReturns, RegisterFails, ConfirmLands, ConfirmFails, Onward, Reaped, RunsInOrder
<1>2. PICK S \in SUBSET spoken :
        Tidy(t, S, B) \/ (Recover(t, S, B) /\ registered[t] /\ previously)
  BY <1>1
<1>3. QED
  BY <1>2, TidyAlways, RecoverAlways

LEMMA NextMeant == TypeOK /\ RemovalsAreMeant /\ RunsInOrder /\ [Next]_vars
                     => RemovalsAreMeant' /\ RunsInOrder'
<1> SUFFICES ASSUME TypeRun, TypeRest, RemovalsAreMeant, RunsInOrder, [Next]_vars
             PROVE  RemovalsAreMeant' /\ RunsInOrder'
  BY TypeParts
<1>1. ASSUME UNCHANGED <<registered, pc, previously, visited>> PROVE RunsInOrder'
  BY <1>1 DEF RunsInOrder, Heard
<1>2. ASSUME calls' \subseteq calls, dismissed \subseteq dismissed' PROVE RemovalsAreMeant'
  BY <1>2 DEF RemovalsAreMeant
<1>3. ASSUME NEW r \in Room, SdkActs(r) \/ Pushed(r) \/ RoomActs(r) \/ StartupTimesOut(r) \/ CallSettles(r)
      PROVE  RunsInOrder'
  BY <1>1, <1>3 DEF SdkActs, SdkCreates, SdkDestroys, Expires, Pushed, PushLands, PushLost,
     RoomActs, RoomSpeaks, RoomReady, RoomQuits, RoomExits, StartupTimesOut, CallSettles,
     ReadyLands, RemovalLands, CallFails
<1>4. ASSUME NEW r \in Room, SdkActs(r) \/ PushLost(r) \/ RoomSpeaks(r) \/ CallSettles(r)
      PROVE  RemovalsAreMeant'
  BY <1>2, <1>4 DEF SdkActs, SdkCreates, SdkDestroys, Expires, PushLost, RoomSpeaks, CallSettles,
     ReadyLands, RemovalLands, CallFails
<1>5. ASSUME NEW r \in Room, PushLands(r) \/ RoomReady(r) \/ RoomQuits(r) \/ RoomExits(r) \/ StartupTimesOut(r)
      PROVE  RemovalsAreMeant'
  <2>1. CASE PushLands(r)
    <3>1. PICK T : calls' = calls \cup Fail(T) /\ dismissed' = dismissed \cup T
      BY <2>1 DEF PushLands
    <3>2. QED
      BY <3>1, FailMembers DEF RemovalsAreMeant
  <2>2. CASE RoomReady(r)
    BY <2>2 DEF RemovalsAreMeant, RoomReady
  <2>3. CASE RoomQuits(r)
    BY <2>3 DEF RemovalsAreMeant, RoomQuits
  <2>4. CASE RoomExits(r) \/ StartupTimesOut(r)
    <3>1. \/ calls' = calls \cup Fail({r}) /\ dismissed' = dismissed \cup {r}
          \/ UNCHANGED <<calls, dismissed>>
      BY <2>4 DEF RoomExits, StartupTimesOut
    <3>2. QED
      BY <3>1, FailMembers DEF RemovalsAreMeant
  <2>5. QED
    BY <1>5, <2>1, <2>2, <2>3, <2>4
<1>6. ASSUME NEW t \in Tick, TickStarts(t) \/ RunGoesOn(t)
      PROVE  RemovalsAreMeant' /\ RunsInOrder'
  <2>1. CASE TickStarts(t)
    BY <1>2, <2>1 DEF TypeRun, RunsInOrder, Heard, TickStarts
  <2>2. CASE HeartbeatLands(t)
    BY <1>2, <2>2 DEF TypeRun, RunsInOrder, Heard, HeartbeatLands
  <2>3. CASE HeartbeatFails(t) \/ HeartbeatDiscarded(t)
    <3>1. RunEnds(t) /\ UNCHANGED <<calls, dismissed, previously>>
      BY <2>3 DEF HeartbeatFails, HeartbeatDiscarded
    <3>2. QED
      BY <1>2, <3>1, RunEndsSlot DEF RunsInOrder, Heard
  <2>4. CASE RegisterLands(t)
    BY <1>2, <2>4 DEF TypeRun, RunsInOrder, Heard, RegisterLands
  <2>5. CASE HeartbeatReturns(t) \/ RegisterFails(t) \/ ConfirmLands(t) \/ ConfirmFails(t)
    BY <2>5, OnwardAlways
  <2>6. QED
    BY <1>6, <2>1, <2>2, <2>3, <2>4, <2>5 DEF RunGoesOn
<1>7. CASE Stops \/ TickTimesOut \/ Reap \/ UNCHANGED vars
  BY <1>1, <1>2, <1>7 DEF Stops, StopBegins, ServerUnregistered, StopFails, TickTimesOut, Reap
<1>8. QED
  BY <1>3, <1>4, <1>5, <1>6, <1>7 DEF Next, Pushed, RoomActs

LEMMA NextNoRooms == TypeOK /\ NoServerNoRooms /\ [Next]_vars => NoServerNoRooms'
<1> SUFFICES ASSUME TypeRun, TypeRest, NoServerNoRooms, [Next]_vars PROVE NoServerNoRooms'
  BY TypeParts
<1>1. ASSUME serverRec' \/ UNCHANGED <<serverRec, rec>> \/ rec' = NothingDesired
      PROVE  NoServerNoRooms'
  BY <1>1 DEF NoServerNoRooms, NothingDesired
<1>2. ASSUME NEW r \in Room, MarkReady(r), UNCHANGED serverRec PROVE NoServerNoRooms'
  BY <1>1, <1>2 DEF TypeRest, NoServerNoRooms, NothingDesired, MarkReady
<1>3. ASSUME NEW r \in Room, rec' = [rec EXCEPT ![r] = "none"], UNCHANGED serverRec
      PROVE  NoServerNoRooms'
  BY <1>1, <1>3 DEF TypeRest, NoServerNoRooms, NothingDesired
<1>4. ASSUME NEW r \in Room, SdkActs(r) \/ Pushed(r) \/ RoomActs(r) \/ StartupTimesOut(r)
      PROVE  NoServerNoRooms'
  BY <1>1, <1>3, <1>4 DEF SdkActs, SdkCreates, SdkDestroys, Expires, Pushed, PushLands, PushLost,
     RoomActs, RoomSpeaks, RoomReady, RoomQuits, RoomExits, StartupTimesOut
<1>5. ASSUME NEW r \in Room, CallSettles(r) PROVE NoServerNoRooms'
  BY <1>1, <1>2, <1>3, <1>5 DEF CallSettles, ReadyLands, RemovalLands, CallFails
<1>6. ASSUME NEW t \in Tick, TickStarts(t) \/ RunGoesOn(t) PROVE NoServerNoRooms'
  <2>1. CASE RegisterFails(t)
    BY <1>1, <2>1 DEF RegisterFails
  <2>2. CASE ConfirmLands(t) \/ ConfirmFails(t)
    <3>1. visiting[t] \in Room
      BY <2>2 DEF TypeRun, ConfirmLands, ConfirmFails
    <3>2. QED
      BY <1>1, <1>2, <2>2, <3>1 DEF ConfirmLands, ConfirmFails
  <2>3. QED
    BY <1>1, <1>6, <2>1, <2>2 DEF TickStarts, RunGoesOn, HeartbeatLands, HeartbeatFails,
                                  HeartbeatReturns, HeartbeatDiscarded, RegisterLands
<1>7. CASE Stops \/ TickTimesOut \/ Reap \/ UNCHANGED vars
  BY <1>1, <1>7 DEF Stops, StopBegins, ServerUnregistered, StopFails, TickTimesOut, Reap
<1>8. QED
  BY <1>4, <1>5, <1>6, <1>7 DEF Next

LEMMA NextAlways == TypeOK /\ AlwaysInv /\ [Next]_vars => AlwaysInv'
BY NextMeant, NextNoRooms DEF AlwaysInv

-----------------------------------------------------------------------------
(* Steps around the runs of heartbeatTick.                                 *)

\* What a room that is not excused has, it keeps.
Keeps(r) ==
  /\ proc[r] = "ready" => proc'[r] = "ready"
  /\ rec[r] # "none" => rec'[r] # "none"
  /\ rec[r] = "none" /\ rec'[r] = "none" /\ r \in created' => r \in created
  /\ rec[r] = "running" => rec'[r] = "running"
  /\ r \in serving' => r \in serving \/ (proc'[r] = "ready" /\ rec'[r] = "running")
  /\ <<"ready", r>> \in calls' =>
       <<"ready", r>> \in calls \/ (proc'[r] = "ready" /\ rec'[r] # "none")
  /\ \A t \in Tick : Heard(t) /\ proc'[r] # "none" => proc[r] # "none" \/ r \in fresh'[t]

\* Steps of the sdk, the rooms and the commands in the background: no run moves.
Around ==
  /\ UNCHANGED <<phase, current, pc, registered, desired, visited, visiting, reasserted,
                 previously, serverRec>>
  /\ dismissed \subseteq dismissed' /\ unsaved' = unsaved
  /\ serving \subseteq serving'
  /\ \A r \in serving' \ serving : rec[r] # "none"
  /\ killed' \subseteq killed \cup Excused'
  /\ \A t \in Tick : Heard(t) => fresh[t] \subseteq fresh'[t]
  /\ \A r \in Room \ Excused' : Keeps(r)

LEMMA AroundKeeps ==
  ASSUME TypeRun, TypeRest, AlwaysInv, LiveInv, Around, TypeRest'
  PROVE  LiveInv'
<1>1. /\ Excused \subseteq Excused' /\ serving' \subseteq Room /\ created' \subseteq Room
      /\ serving \subseteq serving'
  BY DEF Around, Excused, TypeRest
<1>2. /\ UNCHANGED <<phase, current, pc, registered, desired, visited, visiting, reasserted,
                     previously, serverRec>>
      /\ \A t \in Tick : Heard(t)' <=> Heard(t)
      /\ \A t \in Tick : Heard(t) => fresh[t] \subseteq fresh'[t]
  BY DEF Around, Heard
<1>3. \A r \in Room \ Excused' : Keeps(r)
  BY DEF Around
<1>4. OnlyLiveRegisters' /\ KilledForAReason'
  BY <1>1 DEF LiveInv, OnlyLiveRegisters, KilledForAReason, NothingDesired, Around
<1>5. ServedAreReady'
  BY <1>1, <1>3 DEF LiveInv, ServedAreReady, Keeps
<1>6. NoRecordIfServing'
  BY <1>1, <1>3 DEF LiveInv, NoRecordIfServing, Keeps
<1>7. ReportsFindRecord'
  BY <1>1, <1>3 DEF LiveInv, ReportsFindRecord, Keeps
<1>8. FirstTime'
  <2>1. ~serverRec => serving' = serving
    BY <1>1 DEF AlwaysInv, NoServerNoRooms, NothingDesired, Around
  <2>2. QED
    BY <1>2, <2>1 DEF LiveInv, FirstTime
<1>9. PublishedOrRecovering'
  BY <1>1, <1>2, <1>3 DEF LiveInv, PublishedOrRecovering, Keeps
<1>10. StillToVisit'
  BY <1>1, <1>2, <1>3 DEF LiveInv, StillToVisit, Keeps
<1>11. OldAndUntold'
  <2> SUFFICES ASSUME current # NoTick, NEW r \in Room \ (Excused' \cup fresh'[current]),
                      proc'[r] # "none", Heard(current), desired[current][r] = "none"
               PROVE  registered[current] /\ previously /\ r \in serving
    BY <1>1, <1>2 DEF OldAndUntold, Heard
  <2>1. current \in Tick
    BY DEF TypeRun
  <2>2. proc[r] # "none" /\ r \notin fresh[current] /\ r \notin Excused
    BY <1>1, <1>2, <1>3, <2>1 DEF Keeps
  <2>3. QED
    BY <2>1, <2>2 DEF LiveInv, OldAndUntold
<1>12. VisitedAreSafe'
  <2> SUFFICES ASSUME NEW t \in Tick, registered[t]
               PROVE  visited[t] \subseteq reasserted[t] \cup {visiting[t]} \cup Excused' \cup fresh'[t]
    BY <1>2 DEF VisitedAreSafe
  <2>1. fresh[t] \subseteq fresh'[t]
    BY <1>2 DEF AlwaysInv, RunsInOrder
  <2>2. QED
    BY <1>1, <2>1 DEF LiveInv, VisitedAreSafe
<1>13. VisitIsMeant'
  BY <1>1, <1>2, <1>3 DEF LiveInv, VisitIsMeant, Keeps
<1>14. QED
  BY <1>4, <1>5, <1>6, <1>7, <1>8, <1>9, <1>10, <1>11, <1>12, <1>13 DEF LiveInv

LEMMA SdkAround ==
  ASSUME TypeRun, TypeRest, KnownRooms, NEW r \in Room, SdkActs(r) \/ PushLost(r)
  PROVE  Around
<1>1. /\ UNCHANGED <<phase, current, pc, registered, desired, visited, visiting, reasserted,
                     previously, serverRec, unsaved, serving, killed, fresh, proc, calls>>
      /\ dismissed \subseteq dismissed'
  BY DEF SdkActs, SdkCreates, SdkDestroys, Expires, PushLost
<1>2. ASSUME NEW x \in Room \ Excused' PROVE Keeps(x)
  <2>1. \/ rec'[x] = rec[x] /\ (x \in created' => x \in created)
        \/ rec[x] = "none" /\ rec'[x] = "requested"
    BY <1>2 DEF TypeRest, KnownRooms, Unborn, SdkActs, SdkCreates, SdkDestroys, Expires, PushLost, Excused
  <2>2. QED
    BY <1>1, <2>1 DEF Keeps
<1>3. QED
  BY <1>1, <1>2 DEF Around

LEMMA PushAround ==
  ASSUME TypeRun, TypeRest, NEW r \in Room, PushLands(r)
  PROVE  Around
<1>1. PICK W \in SUBSET Room, T \in SUBSET Room :
        /\ \A x \in W : proc[x] = "none"
        /\ proc' = Entries({}, W)
        /\ fresh' = Remembered(W)
        /\ calls' = calls \cup Fail(T)
        /\ dismissed' = dismissed \cup T
  BY DEF PushLands, Spawnable
<1>2. UNCHANGED <<phase, current, pc, registered, desired, visited, visiting, reasserted,
                  previously, serverRec, unsaved, serving, killed, rec, created>>
  BY DEF PushLands
<1>3. \A t \in Tick : Heard(t) => fresh'[t] = fresh[t] \cup W
  BY <1>1 DEF Heard, Remembered
<1>4. \A x \in Room : proc'[x] = IF x \in W THEN "starting" ELSE proc[x]
  BY <1>1 DEF Entries
<1>5. \A x \in Room : Keeps(x)
  BY <1>1, <1>2, <1>3, <1>4, FailMembers, ZenonT(30) DEF Keeps
<1>6. QED
  BY <1>1, <1>2, <1>3, <1>5 DEF Around

LEMMA RoomAround ==
  ASSUME TypeRun, TypeRest, KnownRooms, LiveInv, NEW r \in Room,
         RoomActs(r) \/ StartupTimesOut(r)
  PROVE  Around
<1>1. /\ UNCHANGED <<phase, current, pc, registered, desired, visited, visiting, reasserted,
                     previously, serverRec, unsaved, serving, rec, created, fresh>>
      /\ dismissed \subseteq dismissed' /\ killed' \subseteq killed
      /\ \A x \in Room \ {r} : proc'[x] = proc[x] /\ (<<"ready", x>> \in calls' => <<"ready", x>> \in calls)
  <2>1. CASE RoomExits(r) \/ StartupTimesOut(r)
    <3>1. calls' = calls \/ calls' = calls \cup Fail({r})
      BY <2>1 DEF RoomExits, StartupTimesOut
    <3>2. QED
      BY <2>1, <3>1, FailMembers DEF TypeRun, RoomExits, StartupTimesOut, Entries
  <2>2. CASE RoomSpeaks(r) \/ RoomReady(r) \/ RoomQuits(r)
    BY <2>2 DEF TypeRun, RoomSpeaks, RoomReady, RoomQuits, Entries
  <2>3. QED
    BY <2>1, <2>2 DEF RoomActs
<1>2. Excused \subseteq Excused'
  BY <1>1 DEF Excused
<1>3. ASSUME r \notin Excused' PROVE Keeps(r)
  <2>1. CASE RoomSpeaks(r)
    BY <1>1, <2>1 DEF Keeps, RoomSpeaks
  <2>2. CASE RoomReady(r)
    <3>1. proc[r] = "starting" /\ proc'[r] = "ready" /\ r \notin Excused
      BY <1>2, <1>3, <2>2 DEF TypeRun, RoomReady
    <3>2. rec[r] # "none"
      BY <3>1 DEF LiveInv, NoRecordIfServing, ServedAreReady, KnownRooms, Unborn
    <3>3. QED
      BY <1>1, <3>1, <3>2 DEF Keeps
  <2>3. CASE RoomQuits(r) \/ StartupTimesOut(r)
    BY <1>3, <2>3 DEF RoomQuits, StartupTimesOut, Excused
  <2>4. CASE RoomExits(r)
    <3>1. ~Reported(r) /\ UNCHANGED calls
      BY <1>3, <2>4 DEF RoomExits, Excused
    <3>2. r \notin killed
      BY <1>2, <1>3 DEF LiveInv, KilledForAReason
    <3>3. proc[r] = "none" /\ proc'[r] = "none"
      BY <2>4, <3>1, <3>2 DEF Reported, RoomExits, Entries
    <3>4. QED
      BY <1>1, <3>1, <3>3 DEF Keeps
  <2>5. QED
    BY <2>1, <2>2, <2>3, <2>4 DEF RoomActs
<1>4. ASSUME NEW x \in Room \ Excused', x # r PROVE Keeps(x)
  BY <1>1, <1>4 DEF Keeps
<1>5. QED
  BY <1>1, <1>3, <1>4 DEF Around

LEMMA CallAround ==
  ASSUME TypeRun, TypeRest, RemovalsAreMeant, LiveInv, NEW r \in Room, CallSettles(r)
  PROVE  Around
<1>1. /\ UNCHANGED <<phase, current, pc, registered, desired, visited, visiting, reasserted,
                     previously, serverRec, unsaved, dismissed, created, fresh, proc>>
      /\ calls' \subseteq calls
      /\ Excused' = Excused
  BY DEF CallSettles, ReadyLands, RemovalLands, CallFails, Excused
<1>2. CASE ReadyLands(r)
  <2>1. <<"ready", r>> \in calls /\ \A x \in Room : rec'[x] = IF x = r /\ rec[x] # "none" THEN "running" ELSE rec[x]
    BY <1>2 DEF TypeRest, ReadyLands, MarkReady
  <2>2. r \notin Excused => rec[r] # "none" /\ proc[r] = "ready"
    BY <2>1 DEF LiveInv, ReportsFindRecord
  <2>3. serving' = serving \/ (rec[r] # "none" /\ serving' = serving \cup {r})
    BY <1>2 DEF ReadyLands
  <2>4. killed' \subseteq killed \cup Excused
    <3>1. killed' = killed \/ (rec[r] = "none" /\ killed' \subseteq killed \cup {r})
      BY <1>2 DEF ReadyLands
    <3>2. QED
      BY <2>2, <3>1
  <2>5. ASSUME NEW x \in Room \ Excused PROVE Keeps(x)
    BY <1>1, <2>1, <2>2, <2>3 DEF Keeps
  <2>6. QED
    BY <1>1, <2>3, <2>4, <2>5 DEF Around
<1>3. CASE RemovalLands(r)
  <2>1. r \in Excused /\ UNCHANGED <<serving, killed>> /\ \A x \in Room \ {r} : rec'[x] = rec[x]
    BY <1>3 DEF TypeRest, RemovalLands, RemovalsAreMeant, Excused
  <2>2. ASSUME NEW x \in Room \ Excused PROVE Keeps(x)
    BY <1>1, <2>1 DEF Keeps
  <2>3. QED
    BY <1>1, <2>1, <2>2 DEF Around
<1>4. CASE CallFails(r)
  <2>1. UNCHANGED <<serving, killed, rec>>
    BY <1>4 DEF CallFails
  <2>2. QED
    BY <1>1, <2>1 DEF Around, Keeps
<1>5. QED
  BY <1>2, <1>3, <1>4 DEF CallSettles

-----------------------------------------------------------------------------
(* Reaps and the slots of the runs.                                        *)

LEMMA ReapKeeps ==
  ASSUME TypeRun, TypeRest, AlwaysInv, LiveInv, Reap
  PROVE  LiveInv'
<1>1. /\ ~serverRec'
      /\ UNCHANGED <<current, pc, registered, desired, visited, visiting, reasserted, fresh,
                     previously, calls, proc, killed, created, serving, dismissed>>
      /\ \A r \in Room : r \in Excused' <=> \/ r \in Excused \/ r \in created \ serving
                                            \/ <<"ready", r>> \in calls
  BY DEF Reap, Excused
<1>2. Excused \subseteq Excused' /\ serving \subseteq Room /\ created \subseteq Room
  BY DEF Reap, Excused, TypeRest
<1>3. OnlyLiveRegisters' /\ KilledForAReason' /\ FirstTime'
  BY <1>1, <1>2 DEF LiveInv, OnlyLiveRegisters, KilledForAReason, FirstTime, NothingDesired
<1>4. ServedAreReady' /\ NoRecordIfServing' /\ ReportsFindRecord'
  BY <1>1, <1>2 DEF LiveInv, ServedAreReady, NoRecordIfServing, ReportsFindRecord
<1>5. PublishedOrRecovering' /\ StillToVisit' /\ VisitIsMeant'
  BY <1>1, <1>2 DEF LiveInv, PublishedOrRecovering, StillToVisit, VisitIsMeant
<1>6. OldAndUntold' /\ VisitedAreSafe'
  BY <1>1, <1>2 DEF LiveInv, OldAndUntold, VisitedAreSafe, Heard
<1>7. QED
  BY <1>3, <1>4, <1>5, <1>6 DEF LiveInv

\* A run starts, fails, times out or is discarded: none of them has registered the server.
LEMMA SlotKeeps ==
  ASSUME TypeRun, TypeRest, AlwaysInv, LiveInv, NEW t \in Tick,
         ~registered[t], ~registered'[t],
         \A u \in Tick \ {t} : /\ pc'[u] = pc[u]
                               /\ registered'[u] = registered[u]
                               /\ desired'[u] = desired[u]
                               /\ visiting'[u] = visiting[u]
                               /\ visited'[u] = visited[u]
                               /\ reasserted'[u] = reasserted[u]
                               /\ fresh'[u] = fresh[u],
         current' = current \/ (current' \in {t, NoTick} /\ \A u \in Tick : ~registered[u]),
         current' = t => ~Heard(t)',
         UNCHANGED <<serverRec, rec, previously, calls, proc, killed, created, serving,
                     dismissed, unsaved>>
  PROVE  LiveInv'
<1>1. Excused' = Excused
  BY DEF Excused
<1>2. \A u \in Tick : registered'[u] <=> registered[u]
  BY DEF TypeRun
<1>3. OnlyLiveRegisters'
  BY <1>2, ControlAssumption DEF TypeRun, LiveInv, OnlyLiveRegisters, NothingDesired
<1>4. KilledForAReason' /\ ServedAreReady' /\ NoRecordIfServing' /\ ReportsFindRecord'
  BY <1>1 DEF LiveInv, KilledForAReason, ServedAreReady, NoRecordIfServing, ReportsFindRecord
<1>5. FirstTime' /\ PublishedOrRecovering'
  BY <1>1, <1>2 DEF LiveInv, FirstTime, PublishedOrRecovering
<1>6. StillToVisit' /\ VisitedAreSafe' /\ VisitIsMeant'
  BY <1>1 DEF LiveInv, StillToVisit, VisitedAreSafe, VisitIsMeant
<1>7. OldAndUntold'
  <2>1. CASE current' = t
    BY <2>1 DEF OldAndUntold, Heard
  <2>2. CASE current' # t /\ current' # NoTick
    BY <1>1, <2>2 DEF TypeRun, LiveInv, OldAndUntold, Heard
  <2>3. CASE current' = NoTick
    BY <2>3 DEF OldAndUntold
  <2>4. QED
    BY <2>1, <2>2, <2>3
<1>8. QED
  BY <1>3, <1>4, <1>5, <1>6, <1>7 DEF LiveInv

\* The driver takes the heartbeat of run t.
LEMMA HeartbeatKeeps ==
  ASSUME TypeRun, TypeRest, KnownRooms, AlwaysInv, LiveInv, NEW t \in Tick, HeartbeatLands(t),
         unsaved' # Room
  PROVE  LiveInv'
<1>1. /\ UNCHANGED <<current, visited, visiting, reasserted, fresh, rec, previously, calls,
                     proc, killed, created, serving, dismissed, unsaved>>
      /\ serverRec'
      /\ Excused' = Excused
      /\ ~serverRec => current = t
  BY DEF HeartbeatLands, Excused
<1>2. /\ pc'[t] = "answered" /\ registered'[t] = ~serverRec /\ desired'[t] = rec
      /\ \A u \in Tick \ {t} : pc'[u] = pc[u] /\ registered'[u] = registered[u] /\ desired'[u] = desired[u]
  BY DEF TypeRun, HeartbeatLands
<1>3. ~registered[t] /\ visited[t] = {} /\ visiting[t] = NoRoom
  BY DEF TypeRun, AlwaysInv, RunsInOrder, Heard, HeartbeatLands
<1>4. CASE serverRec
  <2>1. \A u \in Tick : registered'[u] <=> registered[u]
    BY <1>2, <1>3, <1>4 DEF TypeRun
  <2>2. OnlyLiveRegisters'
    BY <1>1, <1>2, <1>3, <2>1 DEF LiveInv, OnlyLiveRegisters, NothingDesired
  <2>3. FirstTime' /\ PublishedOrRecovering'
    BY <1>1, <1>4, <2>1 DEF LiveInv, FirstTime, PublishedOrRecovering
  <2>4. StillToVisit' /\ VisitedAreSafe' /\ VisitIsMeant'
    BY <1>1, <1>2, <1>3, <1>4, <2>1 DEF LiveInv, StillToVisit, VisitedAreSafe, VisitIsMeant
  <2>5. OldAndUntold'
    <3>1. CASE current = t
      <4> SUFFICES ASSUME NEW r \in Room \ (Excused \cup fresh[t]), proc[r] # "none", rec[r] = "none"
                   PROVE  FALSE
        BY <1>1, <1>2, <3>1 DEF OldAndUntold
      <4>1. r \in serving
        BY DEF KnownRooms, Unborn, LiveInv, NoRecordIfServing
      <4>2. \A u \in Tick : ~registered[u]
        BY <1>3, <3>1 DEF LiveInv, OnlyLiveRegisters
      <4>3. QED
        BY <1>4, <4>1, <4>2 DEF LiveInv, PublishedOrRecovering
    <3>2. CASE current # t
      BY <1>1, <1>2, <3>2 DEF TypeRun, LiveInv, OldAndUntold, Heard
    <3>3. QED
      BY <3>1, <3>2
  <2>6. QED
    BY <1>1, <2>2, <2>3, <2>4, <2>5
    DEF LiveInv, KilledForAReason, ServedAreReady, NoRecordIfServing, ReportsFindRecord
<1>5. CASE ~serverRec
  <2>1. current = t /\ registered'[t] /\ \A u \in Tick \ {t} : ~registered'[u]
    BY <1>1, <1>2, <1>3, <1>5 DEF LiveInv, OnlyLiveRegisters
  <2>2. rec = NothingDesired
    BY <1>5 DEF AlwaysInv, NoServerNoRooms
  <2>3. OnlyLiveRegisters'
    BY <1>1, <1>2, <2>1, <2>2 DEF OnlyLiveRegisters, NothingDesired
  <2>4. serving # {} => previously
    BY <1>2, <1>3, <2>1 DEF LiveInv, FirstTime
  <2>5. FirstTime' /\ PublishedOrRecovering'
    BY <2>1 DEF FirstTime, PublishedOrRecovering
  <2>6. StillToVisit' /\ VisitedAreSafe' /\ VisitIsMeant'
    BY <1>1, <1>2, <1>3, <2>1, <2>4, ControlAssumption DEF StillToVisit, VisitedAreSafe, VisitIsMeant
  <2>7. OldAndUntold'
    <3> SUFFICES ASSUME NEW r \in Room \ (Excused \cup fresh[t]), proc[r] # "none", rec[r] = "none"
                 PROVE  r \in serving
      BY <1>1, <1>2, <2>1, <2>4 DEF OldAndUntold
    <3>1. QED
      BY DEF KnownRooms, Unborn, LiveInv, NoRecordIfServing
  <2>8. QED
    BY <1>1, <2>3, <2>5, <2>6, <2>7
    DEF LiveInv, KilledForAReason, ServedAreReady, NoRecordIfServing, ReportsFindRecord
<1>6. QED
  BY <1>4, <1>5

\* The recovery registers a room again.
LEMMA RegisterKeeps ==
  ASSUME TypeRun, TypeRest, AlwaysInv, LiveInv, NEW t \in Tick, RegisterLands(t)
  PROVE  LiveInv'
<1>1. /\ UNCHANGED <<current, registered, desired, visited, visiting, reasserted, fresh,
                     previously, calls, proc, killed, created, serving, dismissed, unsaved,
                     serverRec>>
      /\ serverRec
      /\ Excused' = Excused
  BY DEF RegisterLands, Excused
<1>2. registered[t] /\ visiting[t] \in Room /\ current = t
  BY DEF TypeRun, AlwaysInv, RunsInOrder, LiveInv, OnlyLiveRegisters, RegisterLands
<1>3. \A r \in Room : rec'[r] = IF r = visiting[t] THEN "requested" ELSE rec[r]
  BY <1>2 DEF TypeRest, RegisterLands, Registered
<1>4. pc'[t] = "confirm" /\ Heard(t) /\ \A u \in Tick \ {t} : pc'[u] = pc[u]
  BY DEF TypeRun, RegisterLands, Heard
<1>5. OnlyLiveRegisters' /\ KilledForAReason' /\ ServedAreReady' /\ FirstTime' /\ PublishedOrRecovering'
  BY <1>1, <1>2 DEF LiveInv, OnlyLiveRegisters, KilledForAReason, ServedAreReady, FirstTime,
                    PublishedOrRecovering, NothingDesired
<1>6. NoRecordIfServing' /\ ReportsFindRecord'
  BY <1>1, <1>3 DEF TypeRest, LiveInv, NoRecordIfServing, ReportsFindRecord
<1>7. StillToVisit'
  <2> SUFFICES ASSUME NEW r \in serving \ Excused, rec'[r] # "running"
               PROVE  previously /\ (r \notin visited[t] \/ visiting[t] = r)
    BY <1>1, <1>2 DEF LiveInv, OnlyLiveRegisters, StillToVisit
  <2>1. CASE r = visiting[t]
    BY <2>1 DEF AlwaysInv, RunsInOrder, RegisterLands
  <2>2. CASE r # visiting[t]
    BY <1>1, <1>2, <1>3, <2>2 DEF TypeRest, LiveInv, StillToVisit
  <2>3. QED
    BY <2>1, <2>2
<1>8. OldAndUntold' /\ VisitedAreSafe'
  BY <1>1, <1>2, <1>4 DEF LiveInv, OldAndUntold, VisitedAreSafe, Heard
<1>9. VisitIsMeant'
  BY <1>1, <1>2, <1>3, <1>4 DEF TypeRun, LiveInv, OnlyLiveRegisters, VisitIsMeant
<1>10. QED
  BY <1>5, <1>6, <1>7, <1>8, <1>9 DEF LiveInv

LEMMA SlotsKeep ==
  ASSUME TypeRun, TypeRest, AlwaysInv, LiveInv, NEW t \in Tick, unsaved' # Room,
         TickStarts(t) \/ HeartbeatFails(t) \/ HeartbeatDiscarded(t)
  PROVE  LiveInv'
<1>1. CASE TickStarts(t)
  <2>1. \A u \in Tick : ~registered[u]
    BY <1>1, ControlAssumption DEF LiveInv, OnlyLiveRegisters, TickStarts
  <2>2. ~Heard(t)' /\ \A u \in Tick \ {t} : pc'[u] = pc[u]
    BY <1>1 DEF TypeRun, TickStarts, Heard
  <2>3. /\ current' = t
        /\ UNCHANGED <<serverRec, rec, previously, calls, proc, killed, created, serving,
                       dismissed, unsaved, registered, desired, visiting, visited, reasserted, fresh>>
    BY <1>1 DEF TickStarts
  <2>4. QED
    BY <2>1, <2>2, <2>3, SlotKeeps
<1>2. CASE HeartbeatFails(t) \/ HeartbeatDiscarded(t)
  <2>1. RunEnds(t) /\ fresh' = [fresh EXCEPT ![t] = {}]
    BY <1>2 DEF HeartbeatFails, HeartbeatDiscarded
  <2>2. ~registered[t]
    BY <1>2 DEF LiveInv, OnlyLiveRegisters, HeartbeatFails, HeartbeatDiscarded
  <2>3. UNCHANGED <<serverRec, rec, previously, calls, proc, killed, created, serving,
                    dismissed, unsaved>>
    BY <1>2, <2>2 DEF HeartbeatFails, HeartbeatDiscarded
  <2>4. current = t => \A u \in Tick : ~registered[u]
    BY <2>2 DEF LiveInv, OnlyLiveRegisters
  <2>5. \A u \in Tick \ {t} : fresh'[u] = fresh[u]
    BY <2>1 DEF TypeRun
  <2>6. current' = current \/ (current' = NoTick /\ current = t)
    BY <2>1 DEF RunEnds
  <2>7. ~registered'[t] /\ ~Heard(t)'
    BY <2>1, RunEndsSlot DEF Heard
  <2>8. QED
    BY <2>1, <2>2, <2>3, <2>4, <2>5, <2>6, <2>7, RunEndsSlot, SlotKeeps
<1>3. QED
  BY <1>1, <1>2

LEMMA TimeoutKeeps ==
  ASSUME TypeRun, TypeRest, AlwaysInv, LiveInv, TickTimesOut, unsaved' # Room
  PROVE  LiveInv'
<1>1. /\ current \in Tick /\ current' = NoTick /\ ~registered[current]
      /\ UNCHANGED <<serverRec, rec, previously, calls, proc, killed, created, serving,
                     dismissed, unsaved, pc, registered, desired, visiting, visited, reasserted, fresh>>
  BY DEF TypeRun, TickTimesOut
<1>2. \A u \in Tick : ~registered[u]
  BY <1>1 DEF LiveInv, OnlyLiveRegisters
<1>3. current' # current
  BY <1>1, ControlAssumption
<1>4. QED
  BY <1>1, <1>2, <1>3, SlotKeeps

-----------------------------------------------------------------------------
(* The rest of a run, or the next room of its recovery.                    *)

\* What holds between the reply of a command and the rest of the run it belongs to: the reply
\* has changed records, serving and unsaved, the run has still to act with the rooms B restored.
Midway(t, B) ==
  /\ \A u \in Tick : registered[u] => u = t
  /\ registered[t] => desired[t] = NothingDesired
  /\ killed \subseteq dismissed \cup unsaved'
  /\ \A r \in Room \ (dismissed \cup unsaved') :
       /\ r \in serving' => proc[r] = "ready"
       /\ r \in serving' =>
            \/ rec'[r] = "running" \/ ~serverRec
            \/ registered[t] /\ previously /\ r \notin visited[t]
       /\ r \in created /\ rec'[r] = "none" => r \in serving'
       /\ <<"ready", r>> \in calls => rec'[r] # "none" /\ proc[r] = "ready"
       /\ proc[r] # "none" /\ r \notin fresh[t] /\ desired[t][r] = "none" =>
            registered[t] /\ previously /\ r \in serving'
       /\ registered[t] /\ r \in visited[t] => r \in B \cup fresh[t]
  /\ current = t
  /\ UNCHANGED <<created, serverRec>>
  /\ serving' \subseteq Room

\* The run comes to its end: there is nothing left to recover.
LEMMA TidyKeeps ==
  ASSUME TypeRun, TypeRest, NEW t \in Tick, NEW S \in SUBSET spoken, NEW B,
         Midway(t, B), Tidy(t, S, B),
         registered[t] /\ previously => \A r \in Processes \ (S \cup visited[t]) : ~Needs(t, r)
  PROVE  LiveInv'
<1>1. PICK T, G, F : TidyWith(t, S, Unwanted(t, S, B), Respawn(t, S), T, G, F)
  BY DEF Tidy
<1>2. RunEnds(t) /\ previously'
  BY <1>1 DEF TidyWith
<1>3. current' = NoTick /\ \A u \in Tick : ~registered'[u]
  BY <1>2, RunEndsSlot DEF Midway
<1>4. dismissed \subseteq dismissed' /\ S \subseteq dismissed'
  BY <1>1 DEF TidyWith
<1>5. Excused' = dismissed' \cup unsaved'
  BY DEF Excused
<1>6. \A r \in Room : r \notin Excused' => r \notin dismissed \cup unsaved' /\ r \notin S
  BY <1>4, <1>5
<1>7. ASSUME NEW r \in Room \ Excused', r \in serving', registered[t], previously
      PROVE  r \in visited[t]
  BY <1>6, <1>7 DEF Midway, Needs, Processes, NothingDesired
<1>8. OnlyLiveRegisters' /\ FirstTime' /\ StillToVisit' /\ OldAndUntold' /\ VisitedAreSafe' /\ VisitIsMeant'
  BY <1>2, <1>3 DEF OnlyLiveRegisters, FirstTime, StillToVisit, OldAndUntold, VisitedAreSafe, VisitIsMeant
<1>9. PublishedOrRecovering'
  BY <1>6, <1>7 DEF Midway, PublishedOrRecovering
<1>10. KilledForAReason'
  <2>1. killed' = killed \cup S \cup Unwanted(t, S, B)
    BY <1>1 DEF TidyWith
  <2>2. ASSUME NEW r \in Unwanted(t, S, B), r \notin Excused' PROVE FALSE
    <3>1. r \in Room /\ proc[r] # "none" /\ r \notin B /\ r \notin fresh[t] /\ desired[t][r] = "none"
      BY DEF Unwanted, Processes
    <3>2. registered[t] /\ previously /\ r \in serving'
      BY <1>6, <2>2, <3>1 DEF Midway
    <3>3. r \in visited[t]
      BY <1>7, <2>2, <3>1, <3>2
    <3>4. QED
      BY <1>6, <2>2, <3>1, <3>2, <3>3 DEF Midway
  <2>3. QED
    BY <1>4, <1>5, <2>1, <2>2 DEF Midway, KilledForAReason
<1>11. ServedAreReady' /\ NoRecordIfServing' /\ ReportsFindRecord'
  <2>1. \A r \in Room \ Excused' : proc[r] = "ready" => proc'[r] = "ready"
    <3>1. \A r \in Respawn(t, S) : proc[r] = "none"
      BY DEF Respawn, Spawnable
    <3>2. QED
      BY <1>1, <1>6, <3>1 DEF TidyWith, Entries
  <2>2. \A r \in Room : <<"ready", r>> \in calls' => <<"ready", r>> \in calls
    BY <1>1, FailMembers DEF TidyWith
  <2>3. created \subseteq Room
    BY DEF TypeRest
  <2>4. QED
    BY <1>6, <2>1, <2>2, <2>3 DEF Midway, ServedAreReady, NoRecordIfServing, ReportsFindRecord
<1>12. QED
  BY <1>8, <1>9, <1>10, <1>11 DEF LiveInv

\* The recovery goes on to the next room.
LEMMA RecoverKeeps ==
  ASSUME TypeRun, TypeRest, NEW t \in Tick, NEW S \in SUBSET spoken, NEW B \in SUBSET Room,
         Midway(t, B), Recover(t, S, B), registered[t], previously
  PROVE  LiveInv'
<1>1. PICK v \in Processes \ (S \cup visited[t]), passed \in SUBSET Processes :
        /\ Needs(t, v)
        /\ \A x \in passed : ~Needs(t, x)
        /\ Visit(t, S, B, v, passed)
  BY DEF Recover
<1>2. /\ UNCHANGED <<current, registered, desired, fresh, previously, serverRec, created>>
      /\ calls' = calls \cup Fail(S) /\ dismissed' = dismissed \cup S /\ killed' = killed \cup S
      /\ visited'[t] = visited[t] \cup passed \cup {v}
      /\ visiting'[t] = v /\ pc'[t] = "register" /\ reasserted'[t] = B
      /\ \A r \in Room : proc'[r] = IF r \in S THEN "none" ELSE proc[r]
  BY <1>1 DEF TypeRun, Visit, Midway, Entries
<1>3. \A r \in Room : r \notin Excused' => r \notin dismissed \cup unsaved' /\ r \notin S
  BY <1>2 DEF Excused
<1>4. /\ current = t /\ \A u \in Tick : registered[u] => u = t
      /\ \A r \in Room : desired[t][r] = "none"
      /\ desired[t] = NothingDesired
  BY DEF Midway, NothingDesired
<1>5. ASSUME NEW r \in Room \ Excused', r \in passed PROVE r \notin serving'
  BY <1>1, <1>3, <1>4, <1>5 DEF Midway, Needs
<1>6. OnlyLiveRegisters' /\ FirstTime' /\ PublishedOrRecovering'
  BY <1>2, <1>4 DEF OnlyLiveRegisters, FirstTime, PublishedOrRecovering, NothingDesired
<1>7. KilledForAReason'
  BY <1>2 DEF Midway, KilledForAReason, Excused
<1>8. ServedAreReady' /\ NoRecordIfServing' /\ ReportsFindRecord'
  <2>1. created \subseteq Room
    BY DEF TypeRest
  <2>2. \A r \in Room : <<"ready", r>> \in calls' => <<"ready", r>> \in calls
    BY <1>2, FailMembers
  <2>3. QED
    BY <1>2, <1>3, <2>1, <2>2 DEF Midway, ServedAreReady, NoRecordIfServing, ReportsFindRecord
<1>9. StillToVisit'
  <2> SUFFICES ASSUME serverRec, NEW r \in serving' \ Excused', rec'[r] # "running"
               PROVE  r \notin visited'[t] \/ visiting'[t] = r
    BY <1>2, <1>4 DEF StillToVisit
  <2>1. r \in Room /\ r \notin visited[t]
    BY <1>3 DEF Midway
  <2>2. QED
    BY <1>2, <1>5, <2>1
<1>10. OldAndUntold'
  <2> SUFFICES ASSUME NEW r \in Room \ (Excused' \cup fresh[t]), proc'[r] # "none"
               PROVE  r \in serving'
    BY <1>2, <1>4 DEF OldAndUntold
  <2>1. QED
    BY <1>2, <1>3, <1>4 DEF Midway
<1>11. VisitedAreSafe'
  <2> SUFFICES ASSUME NEW r \in visited'[t], r \notin B, r # v, r \notin Excused'
               PROVE  r \in fresh[t]
    BY <1>2, <1>4 DEF VisitedAreSafe
  <2>1. r \in Room
    BY <1>1, <1>2 DEF TypeRun, Processes
  <2>2. CASE r \in visited[t]
    BY <1>3, <2>1, <2>2 DEF Midway
  <2>3. CASE r \in passed
    BY <1>1, <1>3, <1>4, <1>5, <2>1, <2>3 DEF Midway, Processes
  <2>4. QED
    BY <1>2, <2>2, <2>3
<1>12. VisitIsMeant'
  <2>1. v \in Room /\ proc'[v] = "ready"
    BY <1>1, <1>2 DEF Needs, Processes
  <2>2. QED
    BY <1>2, <1>4, <2>1 DEF VisitIsMeant
<1>13. QED
  BY <1>6, <1>7, <1>8, <1>9, <1>10, <1>11, <1>12 DEF LiveInv

LEMMA OnwardKeeps ==
  ASSUME TypeRun, TypeRest, NEW t \in Tick, NEW S \in SUBSET spoken, NEW B \in SUBSET Room,
         Midway(t, B), Onward(t, S, B), registered[t], previously
  PROVE  LiveInv'
BY TidyKeeps, RecoverKeeps DEF Onward

LEMMA ReturnKeeps ==
  ASSUME TypeRun, TypeRest, AlwaysInv, LiveInv, NEW t \in Tick, HeartbeatReturns(t)
  PROVE  LiveInv'
<1>1. /\ UNCHANGED <<rec, serving, unsaved, created, serverRec>>
      /\ current = t /\ visited[t] = {} /\ pc[t] = "answered" /\ Heard(t)
  BY DEF HeartbeatReturns, AlwaysInv, RunsInOrder, Heard, Tidy, TidyWith, Onward, Recover, Visit
<1>2. Midway(t, {})
  <2>1. \A u \in Tick : registered[u] => u = t
    BY <1>1 DEF LiveInv, OnlyLiveRegisters
  <2>2. registered[t] => desired[t] = NothingDesired
    BY DEF LiveInv, OnlyLiveRegisters
  <2>3. visiting[t] = NoRoom
    BY <1>1 DEF TypeRun
  <2>4. ASSUME NEW r \in serving \ Excused
        PROVE  rec[r] = "running" \/ ~serverRec \/ (registered[t] /\ previously)
    BY <2>1, <2>4 DEF LiveInv, PublishedOrRecovering, StillToVisit
  <2>5. ASSUME NEW r \in Room \ Excused
        PROVE  /\ r \in serving => proc[r] = "ready"
               /\ r \in created /\ rec[r] = "none" => r \in serving
               /\ <<"ready", r>> \in calls => rec[r] # "none" /\ proc[r] = "ready"
               /\ proc[r] # "none" /\ r \notin fresh[t] /\ desired[t][r] = "none" =>
                    registered[t] /\ previously /\ r \in serving
    BY <1>1, <2>5, ControlAssumption
    DEF LiveInv, ServedAreReady, NoRecordIfServing, ReportsFindRecord, OldAndUntold
  <2>6. killed \subseteq Excused /\ serving \subseteq Room
    BY DEF TypeRest, LiveInv, KilledForAReason
  <2>7. QED
    BY <1>1, <2>1, <2>2, <2>4, <2>5, <2>6 DEF Midway, Excused
<1>3. PICK S \in SUBSET spoken : IF Reaped(t) THEN Onward(t, S, {}) ELSE Tidy(t, S, {})
  BY DEF HeartbeatReturns
<1>4. CASE Reaped(t)
  BY <1>2, <1>3, <1>4, OnwardKeeps DEF Reaped
<1>5. CASE ~Reaped(t)
  BY <1>2, <1>3, <1>5, TidyKeeps DEF Reaped
<1>6. QED
  BY <1>4, <1>5

\* The reply of a command of the recovery: what it says of the room v it visits.
LEMMA ReplyKeeps ==
  ASSUME TypeRun, TypeRest, AlwaysInv, LiveInv, NEW t \in Tick, NEW B \in SUBSET Room,
         pc[t] \in {"register", "confirm"}, reasserted[t] \subseteq B,
         \A r \in Room \ {visiting[t]} : rec'[r] = rec[r],
         UNCHANGED <<created, serverRec>>,
         \/ unsaved' = unsaved \cup {visiting[t]} /\ serving' = serving
         \/ /\ unsaved' = unsaved /\ visiting[t] \in B /\ pc[t] = "confirm"
            /\ IF rec[visiting[t]] = "none" THEN UNCHANGED <<rec, serving>>
               ELSE rec'[visiting[t]] = "running" /\ serving' = serving \cup {visiting[t]},
         Onward(t, {}, B)
  PROVE  LiveInv'
<1>1. registered[t] /\ previously /\ visiting[t] \in Room /\ Heard(t)
  BY DEF TypeRun, AlwaysInv, RunsInOrder, Heard
<1>2. /\ current = t /\ desired[t] = NothingDesired
      /\ \A u \in Tick : registered[u] => u = t
  BY <1>1 DEF LiveInv, OnlyLiveRegisters
<1>3. Excused \subseteq dismissed \cup unsaved' /\ serving \subseteq serving' /\ serving' \subseteq Room
  BY <1>1 DEF Excused, TypeRest
<1>4. ASSUME NEW r \in Room \ (dismissed \cup unsaved'), r # visiting[t]
      PROVE  /\ r \in serving' => r \in serving
             /\ rec'[r] = rec[r]
             /\ r \notin Excused
  BY <1>3, <1>4
<1>5. ASSUME NEW r \in Room \ (dismissed \cup unsaved'), r # visiting[t]
      PROVE  /\ r \in serving' => proc[r] = "ready"
             /\ r \in serving' => rec'[r] = "running" \/ ~serverRec \/ r \notin visited[t]
             /\ r \in created /\ rec'[r] = "none" => r \in serving'
             /\ <<"ready", r>> \in calls => rec'[r] # "none" /\ proc[r] = "ready"
             /\ proc[r] # "none" /\ r \notin fresh[t] /\ desired[t][r] = "none" => r \in serving'
             /\ r \in visited[t] => r \in B \cup fresh[t]
  <2>1. /\ r \in serving' => proc[r] = "ready"
        /\ r \in created /\ rec'[r] = "none" => r \in serving'
        /\ <<"ready", r>> \in calls => rec'[r] # "none" /\ proc[r] = "ready"
    BY <1>3, <1>4, <1>5 DEF LiveInv, ServedAreReady, NoRecordIfServing, ReportsFindRecord
  <2>2. r \in serving' => rec'[r] = "running" \/ ~serverRec \/ r \notin visited[t]
    BY <1>1, <1>4, <1>5 DEF LiveInv, StillToVisit
  <2>3. proc[r] # "none" /\ r \notin fresh[t] /\ desired[t][r] = "none" => r \in serving'
    BY <1>1, <1>2, <1>3, <1>4, <1>5, ControlAssumption DEF LiveInv, OldAndUntold
  <2>4. r \in visited[t] => r \in B \cup fresh[t]
    BY <1>1, <1>4, <1>5 DEF LiveInv, VisitedAreSafe
  <2>5. QED
    BY <2>1, <2>2, <2>3, <2>4
<1>6. ASSUME visiting[t] \notin dismissed \cup unsaved'
      PROVE  /\ visiting[t] \in B
             /\ visiting[t] \in serving' => proc[visiting[t]] = "ready"
             /\ visiting[t] \in serving' => rec'[visiting[t]] = "running" \/ ~serverRec
             /\ visiting[t] \in created /\ rec'[visiting[t]] = "none" => visiting[t] \in serving'
             /\ <<"ready", visiting[t]>> \in calls =>
                  rec'[visiting[t]] # "none" /\ proc[visiting[t]] = "ready"
             /\ proc[visiting[t]] # "none" /\ visiting[t] \notin fresh[t]
                  /\ desired[t][visiting[t]] = "none" => visiting[t] \in serving'
  <2> DEFINE v == visiting[t]
  <2>1. /\ v \in Room \ Excused /\ v \in B /\ pc[t] = "confirm"
        /\ IF rec[v] = "none" THEN UNCHANGED <<rec, serving>>
           ELSE rec'[v] = "running" /\ serving' = serving \cup {v}
    BY <1>1, <1>3, <1>6
  <2>2. proc[v] = "ready" /\ (serverRec => rec[v] # "none")
    BY <1>1, <2>1 DEF LiveInv, VisitIsMeant
  <2>3. /\ v \in created /\ rec[v] = "none" => v \in serving
        /\ <<"ready", v>> \in calls => rec[v] # "none"
    BY <2>1 DEF LiveInv, NoRecordIfServing, ReportsFindRecord
  <2>4. proc[v] # "none" /\ v \notin fresh[t] /\ desired[t][v] = "none" => v \in serving
    BY <1>1, <1>2, <2>1, ControlAssumption DEF LiveInv, OldAndUntold
  <2> HIDE DEF v
  <2>5. QED
    BY <2>1, <2>2, <2>3, <2>4 DEF v
<1>7. killed \subseteq dismissed \cup unsaved'
  BY <1>3 DEF LiveInv, KilledForAReason
<1>8. Midway(t, B)
  <2> SUFFICES ASSUME NEW r \in Room \ (dismissed \cup unsaved')
               PROVE /\ r \in serving' => proc[r] = "ready"
                     /\ r \in serving' => rec'[r] = "running" \/ ~serverRec \/ r \notin visited[t]
                     /\ r \in created /\ rec'[r] = "none" => r \in serving'
                     /\ <<"ready", r>> \in calls => rec'[r] # "none" /\ proc[r] = "ready"
                     /\ proc[r] # "none" /\ r \notin fresh[t] /\ desired[t][r] = "none" => r \in serving'
                     /\ r \in visited[t] => r \in B \cup fresh[t]
    BY <1>1, <1>2, <1>3, <1>7 DEF Midway
  <2>1. CASE r # visiting[t]
    BY <1>5, <2>1
  <2>2. CASE r = visiting[t]
    BY <1>6, <2>2
  <2>3. QED
    BY <2>1, <2>2
<1>9. QED
  BY <1>1, <1>8, OnwardKeeps

LEMMA RepliesKeep ==
  ASSUME TypeRun, TypeRest, AlwaysInv, LiveInv, NEW t \in Tick,
         RegisterFails(t) \/ ConfirmLands(t) \/ ConfirmFails(t)
  PROVE  LiveInv'
<1>1. visiting[t] \in Room /\ reasserted[t] \subseteq Room /\ pc[t] \in {"register", "confirm"}
  BY DEF TypeRun, RegisterFails, ConfirmLands, ConfirmFails
<1>2. CASE RegisterFails(t)
  <2>1. \A r \in Room \ {visiting[t]} : rec'[r] = rec[r]
    BY <1>1, <1>2 DEF TypeRest, RegisterFails, Registered
  <2>2. QED
    BY <1>1, <1>2, <2>1, ReplyKeeps DEF RegisterFails
<1>3. CASE ConfirmLands(t)
  <2>1. /\ \A r \in Room \ {visiting[t]} : rec'[r] = rec[r]
        /\ IF rec[visiting[t]] = "none" THEN rec' = rec ELSE rec'[visiting[t]] = "running"
    <3>1. rec' = [rec EXCEPT ![visiting[t]] = IF @ = "none" THEN @ ELSE "running"]
      BY <1>3 DEF ConfirmLands, MarkReady
    <3>2. QED
      BY <1>1, <3>1 DEF TypeRest
  <2>2. reasserted[t] \cup {visiting[t]} \in SUBSET Room
    BY <1>1
  <2>3. QED
    BY <1>1, <1>3, <2>1, <2>2, ReplyKeeps DEF ConfirmLands
<1>4. CASE ConfirmFails(t)
  <2>1. \A r \in Room \ {visiting[t]} : rec'[r] = rec[r]
    BY <1>1, <1>4 DEF TypeRest, ConfirmFails, MarkReady
  <2>2. QED
    BY <1>1, <1>4, <2>1, ReplyKeeps DEF ConfirmFails
<1>5. QED
  BY <1>2, <1>3, <1>4

-----------------------------------------------------------------------------
(* The two results.                                                        *)

\* stop() is never taken back, and a room that a reap has cost its record stays excused.
LEMMA NeverUpAgain ==
  ASSUME TypeRun, TypeRest, [Next]_vars
  PROVE  /\ phase' = "up" => phase = "up"
         /\ unsaved \subseteq unsaved'
<1>1. CASE UNCHANGED vars
  BY <1>1
<1>2. ASSUME NEW r \in Room, \/ SdkActs(r) \/ Pushed(r) \/ RoomActs(r)
                             \/ StartupTimesOut(r) \/ CallSettles(r)
      PROVE  UNCHANGED <<phase, unsaved>>
  BY <1>2 DEF SdkActs, SdkCreates, SdkDestroys, Expires, Pushed, PushLands, PushLost, RoomActs,
     RoomSpeaks, RoomReady, RoomQuits, RoomExits, StartupTimesOut, CallSettles, ReadyLands,
     RemovalLands, CallFails
<1>3. ASSUME NEW t \in Tick, TickStarts(t) \/ RunGoesOn(t)
      PROVE  phase' = phase /\ unsaved \subseteq unsaved'
  BY <1>3 DEF TypeRest, TickStarts, RunGoesOn, HeartbeatLands, HeartbeatFails, HeartbeatReturns,
              HeartbeatDiscarded, RegisterLands, RegisterFails, ConfirmLands, ConfirmFails
<1>4. CASE Stops
  BY <1>4 DEF Stops, StopBegins, ServerUnregistered, StopFails
<1>5. CASE TickTimesOut \/ Reap
  BY <1>5 DEF TypeRest, TickTimesOut, Reap
<1>6. QED
  BY <1>1, <1>2, <1>3, <1>4, <1>5 DEF Next

LEMMA NextTypeParts == TypeOK /\ [Next]_vars => TypeRun' /\ TypeRest'
BY NextType, TypeParts, PTL

LEMMA NextKept == TypeOK /\ KnownRooms /\ AlwaysInv /\ KeptInv /\ [Next]_vars => KeptInv'
<1> SUFFICES ASSUME TypeRun, TypeRest, TypeRest', KnownRooms, AlwaysInv, KeptInv, [Next]_vars,
                    phase' = "up", unsaved' # Room
             PROVE  LiveInv'
  BY TypeParts, NextTypeParts DEF KeptInv
<1>1. LiveInv
  <2>1. phase = "up" /\ unsaved # Room
    BY NeverUpAgain DEF TypeRest
  <2>2. QED
    BY <2>1 DEF KeptInv
<1>2. CASE UNCHANGED vars
  <2>1. Around
    BY <1>2 DEF Around, Keeps, Heard
  <2>2. QED
    BY <1>1, <2>1, AroundKeeps
<1>3. ASSUME NEW r \in Room, \/ SdkActs(r) \/ Pushed(r) \/ RoomActs(r)
                             \/ StartupTimesOut(r) \/ CallSettles(r)
      PROVE  LiveInv'
  <2>1. Around
    BY <1>1, <1>3, SdkAround, PushAround, RoomAround, CallAround DEF Pushed, AlwaysInv
  <2>2. QED
    BY <1>1, <2>1, AroundKeeps
<1>4. ASSUME NEW t \in Tick, TickStarts(t) \/ RunGoesOn(t) PROVE LiveInv'
  BY <1>1, <1>4, SlotsKeep, HeartbeatKeeps, RegisterKeeps, ReturnKeeps, RepliesKeep DEF RunGoesOn
<1>5. CASE TickTimesOut \/ Reap
  BY <1>1, <1>5, TimeoutKeeps, ReapKeeps
<1>6. CASE Stops
  BY <1>6 DEF Stops, StopBegins, ServerUnregistered, StopFails
<1>7. QED
  BY <1>2, <1>3, <1>4, <1>5, <1>6 DEF Next

\* While the server is up it has destroyed none but excused rooms.
KillsAreMeant == phase = "up" => killed \subseteq Excused

LEMMA KeptShows == TypeOK /\ KeptInv => PublishedStaysPublished /\ KillsAreMeant
<1> SUFFICES ASSUME TypeRun, TypeRest, KeptInv PROVE PublishedStaysPublished /\ KillsAreMeant
  BY TypeParts
<1>1. CASE unsaved = Room
  BY <1>1 DEF TypeRun, TypeRest, PublishedStaysPublished, KillsAreMeant, Excused
<1>2. CASE unsaved # Room
  BY <1>2 DEF KeptInv, LiveInv, PublishedOrRecovering, KilledForAReason, Excused,
              PublishedStaysPublished, KillsAreMeant
<1>3. QED
  BY <1>1, <1>2

LEMMA AlwaysKept == Spec => [](TypeOK /\ KeptInv)
<1>1. TypeOK /\ OnceInv /\ AlwaysInv /\ KeptInv /\ [Next]_vars => AlwaysInv' /\ KeptInv'
  BY NextAlways, NextKept DEF OnceInv
<1>2. QED
  BY <1>1, InitType, NextType, InitOnce, NextOnce, InitKept, PTL DEF Spec

\* A room the driver has published as running stays published while the server is up, through
\* late answers, stalled ticks, reaps and recoveries, until someone gives it up or a reap
\* catches it half-way.
THEOREM PublishedRoomsStay == Spec => []PublishedStaysPublished
BY KeptShows, AlwaysKept, PTL

\* The server destroys a room only if someone gave it up, or a reap cost it its record before
\* its readiness or its recovery was through: no snapshot older than the room and no stale
\* answer is enough.
THEOREM WantedRoomsSurvive == Spec => WantedRoomSurvives
<1> DEFINE A == phase' = "up" => \A r \in killed' \ killed : r \in dismissed' \cup unsaved'
<1>1. KillsAreMeant' => [A]_vars
  BY DEF KillsAreMeant, Excused
<1>2. Spec => []KillsAreMeant
  BY KeptShows, AlwaysKept, PTL
<1>3. Spec => [][A]_vars
  BY <1>1, <1>2, PTL
<1>4. QED
  BY <1>3 DEF WantedRoomSurvives

=============================================================================
