---------------------------- MODULE ControlPlane ----------------------------
(***************************************************************************)
(* One server process of src/src/server/server.ts: which rooms it runs, how *)
(* it learns which it should run, and what it tells the driver.            *)
(*                                                                         *)
(* The driver is an external store.  A command to it is sent in one step   *)
(* and takes effect, or fails, in a later one, so anything may come in     *)
(* between; the reply of a command is handled where it takes effect, but   *)
(* for a heartbeat, whose reply has a step of its own.  Everything between  *)
(* two awaits of server.ts is one action.                                  *)
(*                                                                         *)
(* There is no clock.  A timeout is an action that is enabled while what   *)
(* it watches is under way; "spawned after the snapshot" is the set fresh. *)
(***************************************************************************)
EXTENDS Naturals

CONSTANTS
  Room,         \* room ids; the sdk makes a new one for every createRoom
  Tick,         \* runs of heartbeatTick that may overlap
  NoRoom, NoTick,
  MaxReaps,     \* bound: times the server's record is reaped
  MaxMishaps,   \* bound: commands that fail, pushes lost, rooms that crash, quit, stall
                \* or do not start in time
  MaxTimeouts   \* bound: ticks that outlive their timeout

ASSUME ControlAssumption ==
  /\ NoRoom \notin Room
  /\ NoTick \notin Tick
  /\ {MaxReaps, MaxMishaps, MaxTimeouts} \subseteq Nat

VARIABLES
  \* the driver
  serverRec,    \* does this server have a record?
  rec,          \* status of the record of each room assigned to this server
  pushes,       \* assignments published and not yet received
  \* server.ts
  phase,        \* "up", "stopping", "stopped", "failed" (stop() rejected)
  proc,         \* s.processes: "none", "starting" or "ready"
  spoken,       \* keys of s.lastHeartbeats
  attempted,    \* keys of s.attempted
  killed,       \* s.killedRoomIds
  lost,         \* keys of s.lostSince
  previously,   \* s.previouslyRegistered
  calls,        \* commands sent in the background: <<kind, room>>
  \* punctuate and the runs of heartbeatTick
  current,      \* the run whose isCurrent() is true
  pc,           \* where each run is
  registered, desired,   \* its heartbeat's result
  fresh,        \* rooms attempted since it asked
  visiting, visited, reasserted,   \* its reap recovery
  \* the room processes
  running,      \* those that run
  signalled,    \* those of them whose kill() was called
  quit,         \* those of them that said they stop by themselves
  \* history
  created,      \* ids the sdk has used
  dismissed,    \* rooms that were destroyed, given up on or lapsed, or that failed
  serving,      \* rooms the driver has published as running
  unsaved,      \* rooms that a reap cost their record before the driver had heard, or heard
                \* again, that they run, and those no recovery was completed for
  restored,     \* rooms a reap recovery has registered again
  threw,        \* rooms whose runner threw
  spawns,       \* runner.spawn calls
  reaps, mishaps, timeouts

driver  == <<serverRec, rec, pushes>>
server  == <<phase, proc, spoken, attempted, killed, lost, previously>>
answer  == <<registered, desired>>
recover == <<visiting, visited, reasserted>>
ticks   == <<current, pc, answer, fresh, recover>>
world   == <<running, signalled, quit>>
sdk     == <<created, dismissed>>
marks   == <<serving, unsaved, restored, threw, spawns>>
bounds  == <<reaps, mishaps, timeouts>>
vars    == <<driver, server, calls, ticks, world, sdk, marks, bounds>>

-----------------------------------------------------------------------------

Status == {"none", "requested", "running"}
Kinds  == {"ready", "failure", "unregister"}

TypeOK ==
  /\ serverRec \in BOOLEAN
  /\ rec \in [Room -> Status]
  /\ pushes \subseteq Room
  /\ phase \in {"up", "stopping", "stopped", "failed"}
  /\ proc \in [Room -> {"none", "starting", "ready"}]
  /\ spoken \subseteq {r \in Room : proc[r] # "none"}
  /\ {r \in Room : proc[r] = "ready"} \subseteq spoken
  /\ attempted \subseteq Room
  /\ killed \subseteq Room
  /\ lost \subseteq Room
  /\ previously \in BOOLEAN
  /\ calls \subseteq Kinds \X Room
  /\ current \in Tick \cup {NoTick}
  /\ pc \in [Tick -> {"idle", "asked", "answered", "register", "confirm"}]
  /\ registered \in [Tick -> BOOLEAN]
  /\ desired \in [Tick -> [Room -> Status]]
  /\ fresh \in [Tick -> SUBSET Room]
  /\ visiting \in [Tick -> Room \cup {NoRoom}]
  /\ visited \in [Tick -> SUBSET Room]
  /\ reasserted \in [Tick -> SUBSET Room]
  /\ \A t \in Tick : visiting[t] = NoRoom <=> pc[t] \notin {"register", "confirm"}
  /\ {running, signalled, quit, created, dismissed, serving, unsaved,
      restored, threw} \subseteq SUBSET Room
  /\ spawns \in [Room -> Nat]
  /\ {reaps, mishaps, timeouts} \subseteq Nat

NothingDesired == [r \in Room |-> "none"]

Init ==
  /\ serverRec = FALSE
  /\ rec = NothingDesired
  /\ pushes = {}
  /\ phase = "up"
  /\ proc = [r \in Room |-> "none"]
  /\ spoken = {} /\ attempted = {} /\ killed = {} /\ lost = {}
  /\ previously = FALSE
  /\ calls = {}
  /\ current = NoTick
  /\ pc = [t \in Tick |-> "idle"]
  /\ registered = [t \in Tick |-> FALSE]
  /\ desired = [t \in Tick |-> NothingDesired]
  /\ fresh = [t \in Tick |-> {}]
  /\ visiting = [t \in Tick |-> NoRoom]
  /\ visited = [t \in Tick |-> {}]
  /\ reasserted = [t \in Tick |-> {}]
  /\ running = {} /\ signalled = {} /\ quit = {}
  /\ created = {} /\ dismissed = {}
  /\ serving = {} /\ unsaved = {} /\ restored = {} /\ threw = {}
  /\ spawns = [r \in Room |-> 0]
  /\ reaps = 0 /\ mishaps = 0 /\ timeouts = 0

-----------------------------------------------------------------------------
(* Helpers.                                                                *)

Processes == {r \in Room : proc[r] # "none"}
Fail(S) == {"failure"} \X S

\* One of the things the bound MaxMishaps counts.
Mishap == mishaps < MaxMishaps /\ mishaps' = mishaps + 1

\* spawnAssignedRoom accepts r: at most one attempt per room id.
Spawnable_IgnoringAttempts(r) == phase = "up" /\ proc[r] = "none"
Spawnable(r) == phase = "up" /\ proc[r] = "none" /\ r \notin attempted

\* createRoom for the rooms of W; the runner throws for those of T, whose entry
\* stays in processes.  A run that has asked already counts them as fresh.
Spawn(W, T) ==
  /\ T \subseteq W
  /\ running' = running \cup (W \ T)
  /\ threw' = threw \cup T
  /\ spawns' = [r \in Room |-> IF r \in W THEN spawns[r] + 1 ELSE spawns[r]]

\* destroyWorker for the rooms of D, which have an entry: they end when the signal arrives.
Kill(D) ==
  /\ killed' = killed \cup D
  /\ signalled' = signalled \cup (running \cap D)

\* The rooms checkHeartbeats may find silent for too long: they have sent a message.
Stalled == spoken

\* The driver removes the server and its rooms.
DriverForgets ==
  /\ serverRec' = FALSE
  /\ rec' = NothingDesired

Remembered(W) == [t \in Tick |-> IF pc[t] = "idle" THEN {} ELSE fresh[t] \cup W]

\* Entries removed for S and made for W.
Entries_KeepsDead(S, W) ==
  [r \in Room |-> IF r \in W THEN "starting" ELSE proc[r]]

Entries(S, W) ==
  [r \in Room |-> IF r \in S THEN "none" ELSE IF r \in W THEN "starting" ELSE proc[r]]

-----------------------------------------------------------------------------
(* The sdk, the driver and the leader of the fleet.                        *)

\* sdk.createRoom registers the room and publishes the assignment.
SdkCreates(r) ==
  /\ r \notin created
  /\ serverRec
  /\ created' = created \cup {r}
  /\ rec' = [rec EXCEPT ![r] = "requested"]
  /\ pushes' = IF phase = "up" THEN pushes \cup {r} ELSE pushes
  /\ UNCHANGED <<serverRec, server, calls, ticks, world, dismissed,
                 marks, bounds>>

\* sdk.destroyRoom, or createRoom after its wait has failed; without a record the
\* driver has nothing to do.
SdkDestroys(r) ==
  /\ rec[r] # "none"
  /\ dismissed' = dismissed \cup {r}
  /\ rec' = [rec EXCEPT ![r] = "none"]
  /\ UNCHANGED <<serverRec, pushes, server, calls, ticks, world, created, marks,
                 bounds>>

\* The record of a requested room lapses.
Expires(r) ==
  /\ rec[r] = "requested"
  /\ rec' = [rec EXCEPT ![r] = "none"]
  /\ dismissed' = dismissed \cup {r}
  /\ UNCHANGED <<serverRec, pushes, server, calls, ticks, world, created,
                 marks, bounds>>

\* Another server's leader duties find this one stale: its record goes, and its
\* rooms' with it.  Those the driver had published as running must be restored, unless
\* a roomReady is still under way: it finds no record and the server gives the room up.
Reap ==
  /\ reaps < MaxReaps
  /\ serverRec
  /\ reaps' = reaps + 1
  /\ DriverForgets
  /\ unsaved' = unsaved \cup (created \ serving) \cup {r \in Room : <<"ready", r>> \in calls}
  /\ UNCHANGED <<pushes, server, calls, ticks, world, sdk, serving, restored, threw,
                 spawns, mishaps, timeouts>>

-----------------------------------------------------------------------------
(* Assignments and room processes.                                         *)

\* The subscription delivers an assignment, or loses it.
PushLands(r) ==
  /\ r \in pushes
  /\ pushes' = pushes \ {r}
  /\ LET W == IF Spawnable(r) THEN {r} ELSE {} IN
     \E T \in SUBSET W :
       /\ Spawn(W, T)
       /\ proc' = Entries({}, W)
       /\ attempted' = attempted \cup W
       /\ fresh' = Remembered(W)
       /\ calls' = calls \cup Fail(T)
       /\ dismissed' = dismissed \cup T
  /\ UNCHANGED <<serverRec, rec, phase, spoken, killed, lost, previously, current, pc,
                 answer, recover, signalled, quit, created, serving, unsaved, restored,
                 bounds>>

PushLost(r) ==
  /\ r \in pushes
  /\ Mishap
  /\ pushes' = pushes \ {r}
  /\ UNCHANGED <<serverRec, rec, server, calls, ticks, world, sdk, marks, reaps,
                 timeouts>>

\* The first message of a room that is not its ready: createRoom is done.
RoomSpeaks(r) ==
  /\ r \in running /\ proc[r] # "none" /\ r \notin spoken
  /\ spoken' = spoken \cup {r}
  /\ UNCHANGED <<driver, phase, proc, attempted, killed, lost, previously, calls,
                 ticks, world, sdk, marks, bounds>>

\* Its ready message.
RoomReady(r) ==
  /\ r \in running /\ proc[r] = "starting"
  /\ proc' = [proc EXCEPT ![r] = "ready"]
  /\ spoken' = spoken \cup {r}
  /\ calls' = calls \cup {<<"ready", r>>}
  /\ UNCHANGED <<driver, phase, attempted, killed, lost, previously, ticks, world,
                 sdk, marks, bounds>>

\* Its stopped message: cleanupRoom 'self-stopped'.
RoomQuits(r) ==
  /\ r \in running /\ proc[r] # "none"
  /\ Mishap
  /\ quit' = quit \cup {r}
  /\ proc' = Entries({r}, {})
  /\ spoken' = spoken \ {r}
  /\ calls' = calls \cup {<<"unregister", r>>}
  /\ dismissed' = dismissed \cup {r}
  /\ UNCHANGED <<driver, phase, attempted, killed, lost, previously, ticks, running,
                 signalled, created, marks, reaps, timeouts>>

\* stopped(code): a startup failure, or cleanupRoom 'process-exited', which does not
\* report the exit of a room the server killed.
Reported(r) == proc[r] # "none" /\ (r \in spoken => r \notin killed)

RoomExits(r) ==
  /\ r \in running
  /\ IF r \in signalled \cup quit THEN UNCHANGED mishaps ELSE Mishap
  /\ running' = running \ {r}
  /\ signalled' = signalled \ {r}
  /\ quit' = quit \ {r}
  /\ proc' = Entries({r}, {})
  /\ spoken' = spoken \ {r}
  /\ killed' = IF r \in spoken THEN killed \ {r} ELSE killed
  /\ IF Reported(r)
     THEN /\ calls' = calls \cup Fail({r})
          /\ dismissed' = dismissed \cup {r}
     ELSE UNCHANGED <<calls, dismissed>>
  /\ UNCHANGED <<driver, phase, attempted, lost, previously, ticks, created, marks,
                 reaps, timeouts>>

\* No message within the startup timeout: the entry goes, the room is killed.  A room
\* whose runner threw never gets as far as this timeout.
StartupKill_Forgotten(r) == signalled
StartupKill(r) == signalled \cup (running \cap {r})

StartupTimesOut(r) ==
  /\ proc[r] = "starting" /\ r \notin spoken /\ r \notin threw
  /\ Mishap
  /\ proc' = Entries({r}, {})
  /\ signalled' = StartupKill(r)
  /\ calls' = calls \cup Fail({r})
  /\ dismissed' = dismissed \cup {r}
  /\ UNCHANGED <<driver, phase, spoken, attempted, killed, lost, previously, ticks,
                 running, quit, created, marks, reaps, timeouts>>

-----------------------------------------------------------------------------
(* Commands sent in the background.                                        *)

\* roomReady marks the room running only if its record is still there.
MarkReady_Recreates(r) == rec' = [rec EXCEPT ![r] = "running"]
MarkReady(r) == rec' = [rec EXCEPT ![r] = IF @ = "none" THEN @ ELSE "running"]

\* roomReady comes back: a room that is no longer wanted is destroyed.
ReadyLands(r) ==
  /\ <<"ready", r>> \in calls
  /\ calls' = calls \ {<<"ready", r>>}
  /\ MarkReady(r)
  /\ Kill(IF rec[r] = "none" THEN {r} \cap Processes ELSE {})
  /\ serving' = IF rec[r] = "none" THEN serving ELSE serving \cup {r}
  /\ UNCHANGED <<serverRec, pushes, phase, proc, spoken, attempted, lost, previously,
                 ticks, running, quit, sdk, unsaved, restored, threw, spawns, bounds>>

\* roomFailure or unregisterRoom.
RemovalLands(r) ==
  /\ \E k \in {"failure", "unregister"} :
       <<k, r>> \in calls /\ calls' = calls \ {<<k, r>>}
  /\ rec' = [rec EXCEPT ![r] = "none"]
  /\ UNCHANGED <<serverRec, pushes, server, ticks, world, sdk, marks, bounds>>

\* An error is logged and nothing else is done.
CallFails(r) ==
  /\ Mishap
  /\ \E k \in Kinds : <<k, r>> \in calls /\ calls' = calls \ {<<k, r>>}
  /\ UNCHANGED <<driver, server, ticks, world, sdk, marks, reaps, timeouts>>

-----------------------------------------------------------------------------
(* heartbeatTick.                                                          *)

\* Run t is over: its slot and, if it still was the live one, the epoch.
RunEnds(t) ==
  /\ pc' = [pc EXCEPT ![t] = "idle"]
  /\ current' = IF current = t THEN NoTick ELSE current
  /\ registered' = [registered EXCEPT ![t] = FALSE]
  /\ desired' = [desired EXCEPT ![t] = NothingDesired]
  /\ visiting' = [visiting EXCEPT ![t] = NoRoom]
  /\ visited' = [visited EXCEPT ![t] = {}]
  /\ reasserted' = [reasserted EXCEPT ![t] = {}]

\* A tick starts once the one before has ended or timed out.
TickStarts(t) ==
  /\ phase = "up"
  /\ current = NoTick
  /\ pc[t] = "idle"
  /\ current' = t
  /\ pc' = [pc EXCEPT ![t] = "asked"]
  /\ UNCHANGED <<driver, server, calls, answer, fresh, recover, world, sdk, marks,
                 bounds>>

\* The driver takes the heartbeat: it registers the server if it has no record of
\* it, and reads the desired set.
HeartbeatLands(t) ==
  /\ pc[t] = "asked"
  /\ pc' = [pc EXCEPT ![t] = "answered"]
  /\ registered' = [registered EXCEPT ![t] = ~serverRec]
  /\ desired' = [desired EXCEPT ![t] = rec]
  /\ serverRec' = TRUE
  /\ unsaved' = IF ~serverRec /\ current # t THEN Room ELSE unsaved
  /\ UNCHANGED <<rec, pushes, server, calls, current, fresh, recover, world, sdk,
                 serving, restored, threw, spawns, bounds>>

\* The heartbeat fails, before or after the driver took it.
HeartbeatFails(t) ==
  /\ pc[t] \in {"asked", "answered"}
  /\ Mishap
  /\ RunEnds(t)
  /\ fresh' = [fresh EXCEPT ![t] = {}]
  /\ unsaved' = IF registered[t] THEN Room ELSE unsaved
  /\ UNCHANGED <<driver, server, calls, world, sdk, serving, restored, threw, spawns,
                 reaps, timeouts>>

\* The timeout of the live tick: the run goes on, but is no longer current.
TickTimesOut ==
  /\ current # NoTick
  /\ timeouts < MaxTimeouts
  /\ timeouts' = timeouts + 1
  /\ current' = NoTick
  /\ unsaved' = IF registered[current] THEN Room ELSE unsaved
  /\ UNCHANGED <<driver, server, calls, pc, answer, fresh, recover, world, sdk,
                 serving, restored, threw, spawns, reaps, mishaps>>

\* Local rooms the sweep destroys.
Unwanted_EvenFresh(t, S, B) ==
  {r \in Processes \ (S \cup B) : desired[t][r] = "none"}
Unwanted(t, S, B) ==
  {r \in Processes \ (S \cup B) : r \notin fresh[t] /\ desired[t][r] = "none"}

\* Desired rooms without a local process.
Absent(t, S) == {r \in Room : desired[t][r] # "none" /\ r \notin Processes \ S}

\* A live run spawns a requested one; a running one is missing.
Respawn(t, S) ==
  {r \in Absent(t, S) : current = t /\ desired[t][r] = "requested" /\ Spawnable(r)}

Missing_Never(t, S) == {}
Missing(t, S) == {r \in Absent(t, S) : desired[t][r] = "running"}

\* Attempts that reconcileDesiredRooms may forget: the retention outlasts an assignment
\* that is under way, unless a recovery has just published it anew.
Forgettable(t) == {r \in attempted : /\ desired[t][r] = "none"
                                     /\ r \notin fresh[t]
                                     /\ r \in pushes => r \in restored}

\* The rest of a run, which destroys D, spawns W (the runner throws for T), reports the
\* stalled rooms S and the lost rooms G, and forgets the attempts F.
TidyWith(t, S, D, W, T, G, F) ==
  /\ proc' = Entries(S, W)
  /\ spoken' = spoken \ S
  /\ Kill(S \cup D)
  /\ lost' = IF current = t
             THEN {r \in Absent(t, S) : r \in (lost \cup Missing(t, S)) \ G}
             ELSE lost
  /\ attempted' = (attempted \ F) \cup W
  /\ fresh' = [Remembered(W) EXCEPT ![t] = {}]
  /\ Spawn(W, T)
  /\ calls' = calls \cup Fail(S \cup G \cup T)
  /\ dismissed' = dismissed \cup S \cup G \cup T
  /\ previously' = TRUE
  /\ RunEnds(t)
  /\ UNCHANGED quit

\* checkHeartbeats has found the rooms of S stalled, the recovery has registered B
\* again: the sweep and, if the run is still current, reconcileDesiredRooms.
Tidy(t, S, B) ==
  \E T \in SUBSET Respawn(t, S), G \in SUBSET (Missing(t, S) \cap lost),
     F \in SUBSET Forgettable(t) :
    /\ current # t => G = {} /\ F = {}
    /\ TidyWith(t, S, Unwanted(t, S, B), Respawn(t, S), T, G, F)

\* The recovery loop passes the rooms that need none and sends registerRoom for the
\* next that does: a ready room the desired set lacks.
Needs_OneOnly(t, r) ==
  proc[r] = "ready" /\ desired[t][r] = "none" /\ visited[t] = {}

Needs(t, r) == proc[r] = "ready" /\ desired[t][r] = "none"

Visit(t, S, B, r, passed) ==
  /\ visited' = [visited EXCEPT ![t] = @ \cup passed \cup {r}]
  /\ visiting' = [visiting EXCEPT ![t] = r]
  /\ pc' = [pc EXCEPT ![t] = "register"]
  /\ reasserted' = [reasserted EXCEPT ![t] = B]
  /\ proc' = Entries(S, {})
  /\ spoken' = spoken \ S
  /\ Kill(S)
  /\ calls' = calls \cup Fail(S)
  /\ dismissed' = dismissed \cup S
  /\ UNCHANGED <<lost, attempted, previously, fresh, current, answer, running, quit,
                 threw, spawns>>

Recover(t, S, B) ==
  \E r \in Processes \ (S \cup visited[t]) :
    /\ Needs(t, r)
    /\ \E passed \in SUBSET {x \in Processes : ~Needs(t, x)} : Visit(t, S, B, r, passed)

\* On to the next room, or to the rest of the run.
Onward(t, S, B) ==
  \/ Recover(t, S, B)
  \/ /\ \A r \in Processes \ (S \cup visited[t]) : ~Needs(t, r)
     /\ Tidy(t, S, B)

\* A run that is no longer current discards the result, the registered flag too.
HeartbeatDiscarded(t) ==
  /\ pc[t] = "answered"
  /\ current # t
  /\ RunEnds(t)
  /\ fresh' = [fresh EXCEPT ![t] = {}]
  /\ UNCHANGED <<driver, server, calls, world, sdk, marks, bounds>>

\* The heartbeat returns to the live run.  A record that had to be made again, after
\* the first time, means the server was reaped.
Reaped(t) == registered[t] /\ previously

HeartbeatReturns(t) ==
  /\ pc[t] = "answered"
  /\ current = t
  /\ \E S \in SUBSET Stalled :
       /\ IF S = {} THEN UNCHANGED mishaps ELSE Mishap
       /\ IF Reaped(t) THEN Onward(t, S, {}) ELSE Tidy(t, S, {})
  /\ UNCHANGED <<driver, phase, created, serving, unsaved, restored, reaps,
                 timeouts>>

\* registerRoom of the recovery: a record without its tags, published like a new one.
Registered(r) ==
  /\ rec' = [rec EXCEPT ![r] = "requested"]
  /\ pushes' = IF phase = "up" THEN pushes \cup {r} ELSE pushes
  /\ restored' = restored \cup {r}

RegisterLands(t) ==
  /\ pc[t] = "register"
  /\ serverRec
  /\ Registered(visiting[t])
  /\ pc' = [pc EXCEPT ![t] = "confirm"]
  /\ UNCHANGED <<serverRec, server, calls, current, answer, fresh, recover, world, sdk,
                 serving, unsaved, threw, spawns, bounds>>

\* It finds no server record, or fails with or without effect: the room is passed over.
RegisterFails(t) ==
  /\ pc[t] = "register"
  /\ \/ ~serverRec /\ UNCHANGED <<rec, pushes, restored, mishaps>>
     \/ Mishap /\ UNCHANGED <<rec, pushes, restored>>
     \/ Mishap /\ serverRec /\ Registered(visiting[t])
  /\ unsaved' = unsaved \cup {visiting[t]}
  /\ Onward(t, {}, reasserted[t])
  /\ UNCHANGED <<serverRec, phase, created, serving, reaps, timeouts>>

\* roomReady of the recovery; that the record has gone again is not looked at.
ConfirmLands(t) ==
  /\ pc[t] = "confirm"
  /\ MarkReady(visiting[t])
  /\ serving' = IF rec[visiting[t]] = "none" THEN serving
                ELSE serving \cup {visiting[t]}
  /\ Onward(t, {}, reasserted[t] \cup {visiting[t]})
  /\ UNCHANGED <<serverRec, pushes, phase, created, unsaved, restored, bounds>>

ConfirmFails(t) ==
  /\ pc[t] = "confirm"
  /\ Mishap
  /\ unsaved' = unsaved \cup {visiting[t]}
  /\ \/ UNCHANGED rec
     \/ MarkReady(visiting[t])
  /\ Onward(t, {}, reasserted[t])
  /\ UNCHANGED <<serverRec, pushes, phase, created, serving, restored, reaps, timeouts>>

-----------------------------------------------------------------------------
(* stop().                                                                 *)

\* Up to the unregisterServer command: no more pushes, no more current tick.
StopBegins ==
  /\ phase = "up"
  /\ phase' = "stopping"
  /\ pushes' = {}
  /\ current' = NoTick
  /\ UNCHANGED <<serverRec, rec, proc, spoken, attempted, killed, lost, previously,
                 calls, pc, answer, fresh, recover, world, sdk, marks, bounds>>

\* The driver forgets the server and its rooms, and a heartbeat that has asked for the
\* time but not yet written makes the record again afterwards; every local room is
\* destroyed.
ServerUnregistered ==
  /\ phase = "stopping"
  /\ phase' = "stopped"
  /\ DriverForgets
  /\ Kill(Processes)
  /\ dismissed' = dismissed \cup created
  /\ UNCHANGED <<pushes, proc, spoken, attempted, lost, previously, calls, ticks,
                 running, quit, created, marks, bounds>>

\* It fails: stop() rejects before it comes to the rooms.
StopFails ==
  /\ phase = "stopping"
  /\ Mishap
  /\ phase' = "failed"
  /\ UNCHANGED <<driver, proc, spoken, attempted, killed, lost, previously, calls,
                 ticks, world, sdk, marks, reaps, timeouts>>

-----------------------------------------------------------------------------

SdkActs(r)    == SdkCreates(r) \/ SdkDestroys(r) \/ Expires(r)
Pushed(r)     == PushLands(r) \/ PushLost(r)
RoomActs(r)   == RoomSpeaks(r) \/ RoomReady(r) \/ RoomQuits(r) \/ RoomExits(r)
CallSettles(r) == ReadyLands(r) \/ RemovalLands(r) \/ CallFails(r)
RunGoesOn(t)  == \/ HeartbeatLands(t) \/ HeartbeatFails(t) \/ HeartbeatReturns(t)
                 \/ HeartbeatDiscarded(t)
                 \/ RegisterLands(t) \/ RegisterFails(t)
                 \/ ConfirmLands(t) \/ ConfirmFails(t)
Stops         == StopBegins \/ ServerUnregistered \/ StopFails

Next ==
  \/ \E r \in Room : \/ SdkActs(r) \/ Pushed(r) \/ RoomActs(r)
                     \/ StartupTimesOut(r) \/ CallSettles(r)
  \/ \E t \in Tick : TickStarts(t) \/ RunGoesOn(t)
  \/ TickTimesOut
  \/ Reap
  \/ Stops

Spec == Init /\ [][Next]_vars

\* The rooms a run that has just ended reported as lost.
ReportsLost(r) ==
  /\ r \in lost
  /\ \E t \in Tick : HeartbeatReturns(t)
  /\ r \notin lost' /\ <<"failure", r>> \in calls'

\* Ticks follow one another, the driver answers, requested records lapse, a killed
\* room exits (SIGKILL follows SIGTERM), and a grace period comes to its end.
FairSpec ==
  /\ Spec
  /\ WF_vars(\E t \in Tick : TickStarts(t))
  /\ \A t \in Tick : WF_vars(RunGoesOn(t))
  /\ \A r \in Room : /\ WF_vars(CallSettles(r))
                     /\ WF_vars(Expires(r))
                     /\ WF_vars(r \in signalled /\ RoomExits(r))
                     /\ SF_vars(ReportsLost(r))

-----------------------------------------------------------------------------
(* Properties.                                                             *)

\* "A room is spawned at most once per server process", whatever the order of
\* pushes, heartbeats, failures and retries, but for a room that a recovery
\* registered again: its attempt may have been forgotten before the assignment arrives.
SpawnedAtMostOnce == \A r \in Room \ restored : spawns[r] <= 1

\* The server never loses sight of a room process that it has not killed and that has
\* not said it stops, and after stop() all are killed.
NoProcessIsForgotten ==
  running \subseteq
    signalled \cup quit \cup (IF phase = "stopped" THEN {} ELSE Processes)

\* A room is only destroyed if someone gave it up (the sdk, its expiry, its own
\* failure) or a reap cost it its record while its roomReady was under way or the
\* recovery was cut short: not because the sweep's snapshot is older than the room, and
\* not because of a reap as such.
WantedRoomSurvives ==
  [][phase' = "up" =>
       \A r \in killed' \ killed : r \in dismissed' \cup unsaved']_vars

\* A record that was removed comes back only by the reap recovery: a late ready or a
\* late failure does not bring it back.
RemovedStaysRemoved ==
  [][\A r \in created :
       rec[r] = "none" /\ rec'[r] # "none" =>
         \E t \in Tick : pc[t] = "register" /\ visiting[t] = r]_vars

\* While the server is up, a room the driver has published as running stays published,
\* a reap and its recovery excepted, until someone gives it up.
PublishedStaysPublished ==
  phase = "up" =>
    \A r \in serving \ (dismissed \cup unsaved) :
      rec[r] = "running" \/ ~serverRec \/ \E t \in Tick : registered[t]

\* The driver's view and the server's converge: an assigned room gets a process or
\* loses its record, and a process without a record is ended.
Converges ==
  \A r \in Room :
    /\ (rec[r] # "none" /\ proc[r] = "none")
         ~> (rec[r] = "none" \/ proc[r] # "none" \/ phase # "up")
    /\ (rec[r] = "none" /\ proc[r] # "none")
         ~> (rec[r] # "none" \/ proc[r] = "none" \/ r \in threw \/ phase # "up")

=============================================================================
