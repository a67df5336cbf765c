# Gatho, modelled in TLA+

Gatho places game and collaboration *rooms* on *servers*, keeps who runs what in a
*driver* (memory or Redis), and lets *clients* join a room with a signed reservation and
keep their session across dropped connections. This directory holds TLA+ models of that
program, TLC configurations that check them on small instances, and proofs that TLAPS
checks for every instance. Paths are those of the repository, below `src/`.

## 1. Inventory

| component | state | operations | talks to |
|---|---|---|---|
| room session engine, `src/room/start.ts` | `clients` (id → tracked record), `sessionTokens` (token → id), per record: socket, session token, alive flag, reliable buffer, reconnection timer | open, reconnect, close, send, broadcast, allowReconnection, disconnect, stop | transport (callbacks), application (onAuth, onDrop, onLeave, onShutdown), parent server (client-connected, client-disconnected, heartbeat) |
| websocket transport, `src/room/transport/ws.ts` | `clientSockets` (id → ws), topics, generation of each connection | upgrade, message, close, publish, subscribe | room engine, the `ws` library |
| room notifier, `src/room/ipc.ts` | socket to the server, queue | send, connect, close | notify channel |
| client library, `src/client/index.ts` | connection state, session token, reliable buffer, retry timer | connect, send, close, reconnect with back-off | room endpoint over a websocket |
| server control plane, `src/server/server.ts` | `processes`, `lastHeartbeats`, `killedRoomIds`, `spawning`, `attempted`, `lostSince`, `previouslyRegistered` | spawn, room messages, clean-up, heartbeat tick, reap recovery, sweep, reconcile, stop, leader duties | driver, runner, punctuate |
| runner and subprocess, `src/server/runner/*`, `src/server/subprocess.ts` | destructor, queued kill | spawn, kill with escalation | room process |
| notify channel, `src/server/runner/notify.ts`, `src/common/notify-protocol.ts` | listener, partial frames | accept, frame, dispatch | room notifier, control plane |
| drivers, `src/driver/memory.ts`, `src/driver/redis.ts` | rooms, servers, clients, leader lock, subscriptions | register, ready, failure, unregister, heartbeat, reap, reserve, connect, disconnect, leader | sdk, control plane |
| wait for room, `src/driver/wait-for-room.ts` | one promise, poll timer, handlers | signal, poll, registration, timeout | sdk, drivers |
| subscriber canary, `src/driver/subscriber-canary.ts` | outstanding canary | publish, receive, expire | Redis subscriber |
| punctuate, `src/common/punctuate.ts` | epoch, timer, stopped | tick, timeout, stop | heartbeat loop, leader loop |
| sdk, `src/sdk/index.ts` | none | createRoom, destroyRoom, join, queries | driver |
| jwt, protocol, close codes, logger, types | none | pure functions | everyone |

`PROJECT.json` lists the same parts with what is modelled of each, and under `hazards` the
places where the code is hard to test, each with its line and the properties that cover it.

What is hard here:

* **Overtaking.** Everything runs on event loops, and every `await` lets other events in:
  `onAuth`, `onDrop` and `onShutdown` in a room; every driver call in the server.
* **Stale knowledge.** A transport close event belongs to a connection that may have been
  replaced; a desired set read by a heartbeat is older than the rooms spawned since; a tick
  that timed out goes on running next to its successor.
* **Failure.** Pushes get lost, reports to the driver fail, rooms crash, stall, or never
  start, servers get reaped by mistake, runners throw, `stop()` can reject half-way.
* **Timeouts.** Reconnection windows, startup timeouts, tick timeouts, record expiry and the
  grace period of lost rooms all race with the answer they wait for.

## 2. Modules

| module | what it is |
|---|---|
| `RoomSession` | one room process: session engine on top of the websocket transport |
| `MCRoomSession` | the same for TLC (symmetry) |
| `RoomSession_proofs` | its theorems |
| `ControlPlane` | one server process: spawning, heartbeat ticks, reap recovery, stop, over an external driver |
| `MCControlPlane` | the same for TLC (symmetry) |
| `ControlPlane_proofs` | its theorems |
| `ClientConnection` | one connection of the client library, its websockets, and one seat of a room |
| `MCClientConnection` | the same for TLC |
| `ClientConnection_proofs` | its theorems |
| `RoomCreation` | one `createRoom` of the sdk: the registration, the wait, the signals over Redis |
| `MCRoomCreation` | the same for TLC |
| `RoomCreation_proofs` | its theorems |
| `ClientRecords` | the records of a room's clients in Redis, command by command, and what keeps them in step with the room |
| `MCClientRecords` | the same for TLC |
| `ClientRecords_proofs` | its theorems |
| `MemoryDriver` | what a driver promises of servers and rooms: the memory driver, every call one step |
| `RedisDriver` | the same calls on Redis, one command at a time |
| `Fleet` | several servers, the leader and an sdk on one `RedisDriver`; implements `MemoryDriver` |
| `MCFleet` | the same for TLC (symmetry, bounds) |
| `Fleet_proofs` | its theorems, the refinement among them |
| `NotifyChannel` | the listener, the room's dial and redial, frames in chunks |
| `RoomProcess` | one room from `createRoom` of the server through the runner to its process and back, over a `NotifyChannel` |
| `MCRoomProcess` | the same for TLC |
| `RoomProcess_proofs` | its theorems, and those of the channel |
| `Subscriber` | the subscriber connection of a Redis driver, its listeners and its canary |
| `MCSubscriber` | the same for TLC |
| `Subscriber_proofs` | its theorems |

`Fleet` composes `RedisDriver` with the servers that call it, `RoomProcess` composes
`NotifyChannel` with both of its ends; both extend the module below them. `Fleet` holds
`MemoryDriver` by `INSTANCE ... WITH` and has its specification as a property.

### RoomSession

JavaScript runs one event at a time, so an action is one event together with every call it
makes before the next `await`. `Open` is `open()` up to `await onAuth`, `AuthAccept` and
`AuthReject` are the rest; `CloseDrop` is a close event up to `await onDrop`,
`AllowReconnection` what the application does meanwhile, and `DropEvicts`, `DropReturns`
and `DropThrows` the rest; `StopBegins` and `StopEnds` surround `onShutdown`. Whatever else
an event does is in the same action: `Adopt` (the transport takes the connection over before
the room has decided anything), `Evict` and `Forget` (evictClient with all it clears),
`Rotate` and `Flush` (reconnect), `Deliver` (buffers, and the eviction a full one causes).

A socket is used once. The record that `open()` builds on socket `r` is called `r` and the
token minted on socket `s` is called `s`; both are fresh in the code (a new object, a random
UUID), so the names lose nothing and save two counters. Messages are the numbers of the
order in which the application sent them, buffers count messages where the code counts bytes.

A connection says who it is with a jwt (`Open`, `RejectDuplicate`) or with a session parameter.
`upgrade()` looks that up among the tokens and otherwise passes it on as the client id itself; so it may be
a token of a seat in its window, or the id of one (`Reconnect`, without a token), the id of a client
that is connected or awaits `onAuth` (`RejectNamed`: refused, but filed under that id by then), or
nobody's (`RejectSession`). `allowReconnection` may be called whenever the client has no socket, any
number of times; a timeout that it overwrites is counted in `stray`, and `MaxStray` bounds how many of
a record run at once. A client accepted after the room has stopped is tracked (`late`) and not
announced, for the ipc is closed by then.

`ready` follows `ws.readyState` and keeps what the close event will report: the peer's close
frame may have been read ("left" with code 4000, "ended" with another) before the event.

History variables: `sent` (what went out on the record's socket), `left` (onLeave calls),
and four sets that name the situations in which the code itself does not keep a promise, so
that the properties can say exactly where they hold:

* `shared` — a seat's jwt was presented while the seat was in use or being decided about.
* `diverted` — a further connection was filed under the seat's client id meanwhile, by its jwt or by
  a session parameter that is that id. The transport then moves `clientSockets`, the topic and its
  list of connections to the newcomer before the room rejects it.
* `late` — a record that was tracked after its socket had closed or the room had stopped,
  because `onAuth` was still pending then: no close event will come for it.
* `threw` — a record whose `onDrop` threw: the eviction after it is skipped.

### ControlPlane

One server process and everything around it that it reacts to. The driver is an external
store: `rec` holds the status of each room's record, `serverRec` whether the server has one.
A command is sent in one step and takes effect, or fails, in a later one: commands sent in
the background wait in `calls` (`ReadyLands`, `RemovalLands`, `CallFails`); those of the
recovery are the positions "register" and "confirm" of a tick. Where the code does nothing
between the effect and the reply, both are one step. A heartbeat has three: sent
(`TickStarts`), taken by the driver (`HeartbeatLands`), handled (`HeartbeatReturns` or
`HeartbeatDiscarded`), so that anything may happen before its desired set is acted on.

`HeartbeatReturns` is the code from `isCurrent()` on to the next `await`, or to the end:
`checkHeartbeats` (the set `S` of rooms found stalled), the first room the recovery registers
(`Recover`), or else the sweep and `reconcileDesiredRooms` (`Tidy`). The recovery comes back
to `Onward` after each command. Ticks are slots: `current` is the one whose `isCurrent()` is
true, the others are runs that outlived their timeout and go on, as `punctuate.ts` warns.

There is no clock. A timeout is an action that is enabled while what it watches is under way
(`StartupTimesOut`, `TickTimesOut`, `Expires`, the choice of `S`, `G` and `F`). "Spawned
after the snapshot was requested" is the set `fresh`, which starts empty when the tick starts
and collects what is spawned until it is used. The retention of attempts is ten minutes and
an assignment under way takes far less, so an attempt is not forgotten while its push is
pending (`F` in `Tidy`) — unless the recovery has published the room anew, which can happen
at any time in a room's life.

Commands of one connection are handled in order: `ServerUnregistered` comes after heartbeats
that were sent before it.

History variables: `dismissed` (rooms somebody gave up: the sdk, the expiry of the record,
the room's own failure), `serving` (rooms the driver has published as running), `restored`
(rooms a recovery registered again), `unsaved` (rooms that a reap cost their record and whose
recovery did not take place or was cut short, or whose `roomReady` was still under way when
the reap came), `threw` (rooms whose runner threw: their entry
in `processes` stays, see the hazard at `server.ts:415`), `spawns`.

### ClientConnection

The client end of a session, and why it is a module of its own: `RoomSession` lets its
sockets do anything, here they are driven by `client/index.ts`, so that promises about the two
ends can be stated. The variables of the first group are those of `connect()`; the close
reasons are `cause`. Each websocket has two ready states (`cli`, `srv`), a queue of
frames in each direction and a flag `cut` for a lost link. Frames written to an end that
cannot send are dropped silently, as browsers and the guard in `ws.ts:131` do; a close frame
travels behind everything written before it; a lost link is noticed at each end on its own
(`ClientCloseEvent`, `RoomCloseEvent` with code 1006), and what had arrived may still be
read before that. A failed or refused connection is a link that breaks before it opens.

| code | action |
|---|---|
| `onopen` | `Opened` |
| `onmessage`, session frame | `SessionOpens` (with the flush), `SessionIgnored` when closed |
| `onmessage`, auth error | `SessionRejected` on a reconnection, `AuthRejected` on the first connection |
| `onclose` | `ClientCloseEvent`; its cases by state are the disjuncts of `AfterClose` |
| back-off and minimum-uptime timers | `BackoffFires`, `UptimeFires` |
| `send` | `SendNow`, `SendBuffered` (with the overflow) |
| `close`, unload handler | `AppCloses` while open, `AppGivesUp` before |

Sockets are numbered in the order they are opened and the token minted on socket `s` is `s`,
as in `RoomSession`; messages are numbered in the order of `send()`. A close event sets the
retry count to what it was or to zero, because whether the minimum uptime has passed is a
question of clocks. The branch of `onclose` for an open connection without a token cannot be
taken (`OpenMeansJoined`), so it has no disjunct.

The room is one seat of `RoomSession`: `present`, `rsock`, `rtoken`, `route` are the tracked
record, its socket, its token and the transport's routing of the client id. `onDrop`,
`allowReconnection` and the room's buffer reduce to one decision, `WindowEnds`: the seat of
a dropped client is given up at some time. What the room sends besides session and
auth-error frames is left out, since the client only passes it on.

History variables: `next` (number of the next message), `reliable`, `lost` (written to a socket
that died, or to a seat that was gone), `joined` (tokens the client has been given), `tries`,
and two that name where a promise is not kept: `overflowed` (an overflow closes the
connection for the user but leaves the websocket open) and `late` (as in `RoomSession`).

### RoomCreation

One call of `createRoom` (`sdk/index.ts`), the promise it waits for (`wait-for-room.ts`) and
the signals of the Redis driver. The wait is started before the room is registered, so its reads,
its two SUBSCRIBEs and the registration are under way together, and each of them can be
overtaken by any other. A read is a slot of `reads`: issued (`Check`), executed by Redis
(`ReadLands`), answered (`ReadReturns`) or failed (`ReadFails`); it remembers whether
it follows a ready signal (`ready`) and whether the room was registered when it was issued
(`late`, `registeredWhenIssued` in the code). The registration is sent, landed, then ok or
failed, and may fail on either side of landing. `sub` has the state of each channel;
`Conclude` is `subscribeRoomSignals` from its `Promise.allSettled` on, with what the wait does
with a subscription that comes too late. `Finish` is `finish()` with the handler that
`createRoom` has attached by then: while it still awaits the registration there is none, and
`unhandled` notes a rejection. `phase` is where `createRoom` is; `CleanUp` its last removal.

Servers and other users of the driver are the environment: they make the room ready, report
its failure (published first, deleted in a later step) or remove its record. A requested record
lapses only after the wait's timeout (its ttl is longer by a margin), so an earlier lapse is
not among the removals that matter; `RecordRemoved` allows it all the same, since nothing
stated here depends on why a record went.

History variables: `gone` (the record was removed after it had been made), `unhandled`, and
two that say where a room may be left behind: `unknown` (registerRoom took effect and failed)
and `botched` (the last removal failed).

### ClientRecords

What Redis knows of the clients of one room, and everybody who writes it. `hash` holds the
client records (`st`, and whether the record has a `ttl`), `index` the set of the room's client
ids, `exists` the room's record. Each command is a step of its own, since the calls of
`redis.ts` are several commands and other callers get in between:

| code | actions |
|---|---|
| `reserveClient` | `Reserve`, `ReserveTtl`, `ReserveIndex`, or `ReserveFails` in between; `Expires` |
| `connectClient` (one transaction) | `ConnectClient`, within `ConnectedArrives` and `Connects` |
| `disconnectClient` (read, leave the index, delete) | `DisconnectedArrives`, `FastUnindex`, `FastDelete`; `Disconnects`, `Unindexes`, `Deletes` |
| `getClientsForRoom` (index, pipeline of reads, stale members) | `ReadsIndex`, `ReadsRecords`, `CleansIndex`; a read of the pipeline that fails counts as a record that is not there |
| `unregisterRoom` | `RemovalBegins`, `RemovesClient`, `RemovesIndex`, `RemovesRoom`, `RemovalFails` |
| `reconcileClients` of `server.ts` | `HeartbeatArrives` to `Deletes`, one run per heartbeat |
| the room: joining, dropping, returning, leaving, heartbeat timer | `Joins`, `Drops`, `Returns`, `Leaves`, `Captures`, `Ends` |

The room's messages travel in order (`pipe`); what the server does about them does not: every
message starts a call that nobody waits for, so the calls of several messages overlap.
Commands are sent over one connection and take effect in the order they are sent in; where
the reply decides nothing, sending and effect are one step.

The code compares `connectedAt` of a record with the time at which the heartbeat was captured.
The model has no clock: `since` of a record is the set of heartbeats under way that are older
than it, written when the record is and pruned when a heartbeat is captured. A tie in the
same millisecond counts as older in the code (the client is skipped, and corrected by the next
heartbeat), which is one of the delays the model has anyway.

History variables: `joined` (clients that have been seated), `away` of a heartbeat (those of
them that it does not list), `late` (records written after `unregisterRoom` had read the
index, or that were not in the index then). Bound: a "disconnected" message waits while the
call for an earlier one of the same client is under way.

### MemoryDriver, RedisDriver and Fleet

`MemoryDriver` is translated from `memory.ts`, whose calls change its maps without an
`await` in between: one action per call, with eviction (`Register`), lapse and the pruning timer.
There is no clock; of a heartbeat's time stamp it matters only whether it is older than
`staleServerMs`, so time passing is `GrowsOld`.

`RedisDriver` is `redis.ts` command by command. `serverHash`, `servers`, `roomHash`, `rooms`,
`byServer` and `leaderKey` are its keys; `call[c]` is where caller `c` stands in a call and what
it has read so far, `removal[c][r]` where its `unregisterRoom(r)` stands (several may be under
way at once: `Promise.all`). A Lua script or a MULTI is one step; so are `TIME` and what
follows it, since an outdated clock reading is a reading of a server that ages later.

| code | definitions |
|---|---|
| `heartbeat` | `HeartbeatMulti`, `HeartbeatEvict`, `Evicted`, then `Unregister` of each victim, then `RoomsOfServers` |
| `unregisterServer`, `unregisterRoom` | `Unregister`, `RemovalStep` |
| `listServers`, `listStaleServers` | `ServersRead`, `Listed`, `RoomsOfServers` (which clean the indexes they find stale) |
| `listRooms` | `RoomsRead` |
| the scripts | `RegisterScript`, `ReadyScript`, `ReapScript`, `Acquired`, `Renewed`, `Unlocked` |
| `addRoomTags`, `removeRoomTags` | `TagsWritten`: the hash is written back whatever has become of it, so a hash may be "tags", without a `roomId`, in which nobody sees a room |

The listings read many hashes in one pipeline, and `exec()` resolves although some of its commands have
failed: `(results?.[i]?.[1] ?? {})` takes each of those for a hash that is not there. `Unread(F)` is that: the
ids in `F` are dropped from the index and from what the call returns, and the call goes on. Any other
command that fails rejects.

`Fleet` says who calls what. A server process is off, up, stopping or down; a restart is
another process with a new id on the same endpoint. Each has three callers, its heartbeat,
its leader loop and its `stop()`; the sdk is one more. `heartbeatTick` is `BeatStarts`, the commands
of the call, and `ReplyActedOn` or `ReplyDiscarded`; the recovery is `Registers` and `Confirms`
room by room, and `PassedOver` or `Unconfirmed` where its `catch` goes on with the next one; `Settle` is the sweep and the reconciliation. `leaderTick` is
`LeadLocks`, then `Reaps` for each server listed, then the two listings of servers and the
listing of rooms that `cleanOrphanedRoomEntries` compares (`Orphans`). A call fails at a command that
nothing catches the failure of (`Exposed`, `Fails`); of the reaps and removals that run side by side
each fails for itself (`ReapFails`, `LeadGivesUp`, `RemovalFails`). Every server may crash between two
commands (`Crashes`). A lock whose reply was lost is a lock whose holder does not know of it, like
that of a leader that crashed.

The refinement maps `servers` to the server hashes, and a room to its hash if it is also in its
server's index (`KnownTo`): between the commands of `registerRoom`'s script nothing is visible,
between those of a removal a room is gone as soon as it has left the index. The specification
is instantiated with `Atomic` FALSE, which weakens three promises that Redis does not keep:
evicted servers go one by one after the newcomer is there, a room that is assigned to
a server while that is being unregistered may stay behind, and an index that is deleted or
cleaned may take several rooms at once.

History variables: `excused`, the rooms that somebody other than the leader gave up, or a recovery
registered again; `missed`, live rooms that an error hid from a listing of rooms.

### NotifyChannel and RoomProcess

`NotifyChannel` is a listener, uds or tcp (`gated`: the first frame must be the token), and the
connections that the room makes to it. A frame is a header that tells its length and a
payload; the wire is the sequence of the bytes that have been written and not read, and `Chunk` hands any
prefix of it to `createFrameParser`, whose buffer and loop are `Merged`, `Frames` and `Rest`.
`Code` and `Alphabet` stand for the codec: a message is one byte value, repeated as often as its
payload is long, so the parser sees lengths and bytes and knows nothing of messages.
`active` is the slot: `MayAdopt` refuses a second connection until the first one's
'close' event (`Hangs`) has come. A connection that ends may lose any suffix of what was under way.

`RoomProcess` adds both ends. The server's is the entry of one room with its startup gate
(`open`: pending, open or failed), the calls it makes of the driver (`told`), and
`CleanupRoom`, `StartupFailed`, `OnMessage` and `Stopped`, which are operators on the pair of
them, because one event may run several (a chunk with two messages, which `AfterAll` hands to
`OnMessage` one after the other). An 'error' of the child may be followed by its 'exit'.
The runner's is `spawn`, `queuedKill` and `Kill`; `subprocess()` is `Report` (once), `ExitEvent`,
`ErrorEvent`, `Destructor` and `KillTimeout`. The child may crash, end, ignore SIGTERM once
its handler is installed, dial, beat, stop itself, or linger after that.

### Subscriber

The map `channelListeners`, the SUBSCRIBE that the listeners of a channel share, the roll-back
when it is rejected, the queue of the one connection, what ioredis restores on a new
connection and the `ready` handler that subscribes to the rest; and the canary.
A connection is none, down, ready or deaf: deaf looks ready, and neither answers nor delivers.
Time is counted in ticks of the canary: before the next one everything that a working Redis
does in less than a second is done (`Prompt`). A published token is "current" until the next one
is sent.

History variables: `deafFor`, `trouble` (a PUBLISH failed or hung meanwhile, which is not the
subscriber's fault), `unrouted` (the token went to no subscription, or to one that has ended).

## 3. Runs

| run | instance | states | what it shows |
|---|---|---|---|
| `room_session` | 2 clients, 3 sockets, 1 message, buffer 0 | 2.0 million | type and six safety properties of seats, tokens, routing, the parent's view and stop |
| `room_delivery` | 1 client, 2 sockets, 3 messages, buffer 1, with fairness | 0.4 million | order and no duplicates across buffering and reconnection; a dropped client comes back or loses its seat |
| `control_plane` | 2 rooms, 2 overlapping ticks, 2 reaps, 2 mishaps, 1 tick timeout | 2.1 million | type, three invariants and two action properties of rooms on one server |
| `control_liveness` | 1 room, 2 ticks, 1 reap, 1 mishap | liveness | the driver's view and the server's converge |
| `client_connection` | 3 websockets, 2 attempts, 2 messages, buffer 1, with fairness | 0.3 million | type, three safety properties and a liveness property of a connection against its seat |
| `client_close` | the same | violation | a connection its user closed starts to reconnect |
| `room_creation` | 3 reads in flight, 2 mishaps, with fairness | 0.15 million | type, three safety properties and a liveness property of one `createRoom` |
| `room_unhandled` | 2 reads in flight, 2 mishaps | violation | the wait rejects while nobody handles it |
| `client_records` | 1 client, 2 heartbeats under way, 2 joins or drops, 1 fault, with fairness | 1.3 million | type, orphans, an action property and the convergence of the driver's view of the clients |
| `fleet` | 2 servers, 1 room, 2 calls at a time, 1 server that goes, 1 failure, 1 lock that expires early | 1.2 million | Redis behaves as the memory driver; the leader spares live servers and rooms |
| `room_process` | 2 connections, 2 attempts to dial, 1 beat more than ready, with fairness | 0.6 million | one end told once, messages in order and once, nothing unwanted lives on |
| `subscriber` | 2 channels, 3 listeners, interval and timeout 2 ticks, 2 faults, with fairness | 0.3 million | a deaf connection is noticed in time, only a deaf one is, and listeners are heard again |

**Why the bounds are enough.** The room's hazards are between the connections of one seat
(two: the old one and the new one) and between two seats (one socket each, and a third one
for the reconnection of either); three sockets give both. Buffer 0 makes the first
buffered message overflow; buffer 1 with three messages gives a flush, an overflow and a
message after either. One overwritten timeout (`MaxStray` 1) is enough to evict a client
that has returned, which is all that a second would do. In the control plane rooms interact only through the loop of the
recovery and the sweep, so one room has all the races of pushes, ticks and reports, and two
rooms those of the loop; two tick slots give a run that lost its timeout and a live one, and
a slot is used again when its run has ended. The constraint `Focused` of `MCControlPlane` keeps
the two apart: a behaviour in which a second room has been created has no mishap, timeout, stop,
dismissal or second tick. `MaxMishaps`, `MaxTimeouts` and `MaxReaps` bound
faults, not the program's own steps; two mishaps allow a fault during the handling of a
fault, and two reaps let a report that was sent before the first one meet the second. A client needs three websockets to
lose one, to fail on the next and to come back on the third, or to use up two attempts; two
messages and a buffer of one give a flush, an overflow and a message sent behind the flush.
`Settles` is not claimed once the last websocket has closed, where the bound ends the run.
Three reads in flight let one that was issued before the registration, one that follows a
ready signal and one of the poll overtake each other; two mishaps lose both signals, or one
signal and one half of the subscription.
The records of two clients meet only in the loops of `reconcileClients` and `unregisterRoom`,
which take one client after the other; one client, two heartbeats whose reconciliations overlap
and the call for a message have all the races of one record. Two changes let it join, drop and
come back, or join twice; one fault loses any one command.
In the fleet the races are between two writers of one key. Two calls under way, of any of the seven
callers, give every pair: a leader and the heartbeat of the server it reaps, two leaders
whose lock has been handed over, a restarted server and its predecessor's last transaction, the
sdk and either. Two servers may share an endpoint or not; one room is enough because the calls
take rooms one by one, by id, and what they compare are sets. `Focused` of `MCFleet` keeps
failures, removals and departures of servers out of each other's way.
After a failure there is one call at a time: what a failed pipeline leaves behind is met by every
later call, but not by two that overlap.
A lock that expires under a leader that is at its duties (`MaxExpiries`), so that the duties of two
leaders overlap (`MaxAlike` 2), is the other half of the run's constraint (`Bounded`, `TwoLeaders`); it goes on until both are
done, without other faults and with the room running. Three calls at a time were run by simulation
only; that is how the exception to `LeaderSparesLiveRooms` below was found.
A room needs two connections for the slot to be contested, and two messages of different
length for a chunk to cut a frame in its header and in its payload; attempts to dial beyond the first
retry do the same again. Three listeners on two channels let two share a SUBSCRIBE and
a third one leave a channel the others are on; an interval and a timeout of two ticks
tell the bound apart from either; two faults allow a fault during the recovery from one.
Deadlock is not checked: a room, a server or a connection that has stopped does nothing more,
and a behaviour that has used up its bounds ends.

**Fairness.** `RoomSession!FairSpec`: due timers fire (the runtime's) and `onDrop` settles
(the application's promise; nothing in the code bounds it). No fairness is asked of clients,
the network or the application's other calls. `ControlPlane!FairSpec`: the next tick starts
(`punctuate` always schedules one), a run goes on (the driver answers or the command fails),
background commands settle, requested records lapse (the driver's TTL), a killed room
exits (the subprocess runner follows SIGTERM with SIGKILL), and a grace period ends. That
one is strong: the clock goes on between ticks whether or not a particular one reports the
loss, and each tick looks again. Rooms, pushes and the sdk are not assumed to do anything.

`ClientConnection!FairSpec`: both event loops
run, what a live link carries arrives, a stopped room's port refuses connections, a broken
link is noticed at each end, the back-off timer fires, `onAuth` settles and every window ends
(its timeout). Nothing is assumed of the application, of links breaking while the room runs,
or of the minimum-uptime timer. `RoomCreation!FairSpec`: what was sent to the driver is
answered or fails, and the poll timer goes on (`setInterval`). Nothing is assumed of signals,
of the room, or of the wait's timeout, so that `CreateEnds` cannot be satisfied by giving up.
`ClientRecords!FairSpec`: the room's heartbeat timer goes on (`setInterval`), messages
arrive and are handled, the driver answers every command or it fails. Nothing is assumed of
clients, of the sdk or of the room's life. `RoomProcess!FairSpec`: the spawn settles, the
startup timer and the SIGKILL timer fire, signals and the events of the child are delivered
(the operating system's). Nothing obliges the room to end or to speak, nor the server to want it dead;
the SIGKILL timer is unref'd, so it fires as long as the server runs.
`Subscriber!FairSpec`: Redis answers a connection that works, a lost one can be made again
(ioredis' retry), a PUBLISH ends, what was published arrives, the canary's timer goes on
(`setInterval`). Nothing is assumed of listeners, and a deaf connection may stay deaf. `Fleet` has no
liveness property: a fair schedule of its loops converges only when the faults have ended, and
what one server does then is `Converges`.

### What the properties say

* `TokensMatchSeats`, `LeavesExactlyOnce`, `ParentInSync`: the room's two maps, the alive
  flags, the onLeave calls and what the parent was told are one consistent picture at every
  await, for every seat that was not presented twice at once; the parent is told of
  nobody once the room has stopped.
* `LiveSessionIsRouted`: transport and room agree on which connection is whose and who hears
  broadcasts, although they learn of closes at different times, unless a further connection was filed
  under the client's id.
* `HeldSeatHasReason`, `WindowCloses`: a held seat is always on its way to being taken back
  or given up, and coming back cancels the timeout the room knows of.
* `InOrder`: what a client gets is in order, without duplicates; gaps are possible (a message
  sent while the socket closes is neither sent nor buffered).
* `StoppedRoomIsQuiet`: stop leaves nothing behind, except what a pending `onAuth` brings and the
  sockets that the transport has lost count of (`diverted`).
* `SpawnedAtMostOnce`: "a room is spawned at most once per server process"
  (`CHANGELOG.md:9-10`). It excludes rooms a recovery registered again: TLC shows that
  their attempt can have been forgotten (`server.ts:677-679`) when the process has died
  and the published assignment arrives.
* `NoProcessIsForgotten`: every running room is in `processes`, or was killed, or said it stops.
* `WantedRoomSurvives`: nothing is destroyed because of a stale snapshot, nor because a report came
  late, unless a reap fell in between (`unsaved`).
* `RemovedStaysRemoved`: no late answer revives a record.
* `PublishedStaysPublished`: after a reap and its recovery every room that ran is back.
* `OpenMeansJoined`, `NothingVanishes`: a connection reports "open" only when the room tracks
  it on that socket, so a reliable message is never written where nobody would take it; the
  raw open event is not enough.
* `InOrder` of `ClientConnection`: the buffer, the flush and what is sent after it, over
  several websockets, reach `onMessage` in order and once.
* `Settles`: each wait of a client ends, and what its user sees as closed does not occupy a
  seat for good.
* `FailsOnlyIfGone`: a read that missed the record because it was issued too early never
  fails the wait, however late it returns.
* `RejectedLeavesNoRoom`, `ReleasesChannels`, `CreateEnds`: a `createRoom` that fails ends and
  leaves neither a room nor a listener, whatever was under way; and "signals make it fast, the
  record poll guarantees it settles" (`wait-for-room.ts:13`), with every signal lost.
* `SeatedStaysConnected`: "a client that connected after the snapshot isn't mistaken for stale
  state and removed" (`server.ts`, `reconcileClients`). It says what else may disconnect a client
  that sits in the room: the room's removal, the end of its own earlier stay (a slow
  `disconnectClient` that a new join has overtaken), or a heartbeat captured while it was away.
* `DriftIsCorrected`: whatever one command failed and however calls overlapped, the driver comes
  to report exactly those who sit in the room with a socket.
* `OrphansAreLate`: `unregisterRoom` leaves no client record but those written behind its back.
* `ActsAsMemoryDriver`: however the commands of different calls interleave, servers and rooms
  come and go in Redis by the steps of the memory driver only. It is what lets the
  other modules treat a driver call as one step, where they do.
* `LeaderSparesLiveRooms`: the leader's lists are old when it acts on them; a server whose heartbeat
  has resumed, and a room registered since, survive that. Rooms that a recovery
  registered again are excluded (`excused`), and rooms that an error hid (`missed`), see below.
* `EachEndIsToldOnce`: the many ends of a room (stop, exit, error, failed spawn, startup timeout,
  stall) come in any order and number, and the driver is told of one.
* `ServerHearsTheRoom`: what the server hears of a connection is what the room wrote on it, in order,
  once, over one connection at a time; and nothing after the channel has closed.
* `RoomEndsForGood`: a kill is never lost, also if it comes before there is a process; and a process
  that ends leaves no entry and no listener.
* `DetectedInTime`, `OnlyTheDeafIsBlamed`, `ListenersAreHeard`: the canary against the two errors
  it can make, and what it is there for.
* `Converges`: whatever single push or report was lost, the driver and the server end up agreeing.

### Where the code does not do what its text says

Two runs expect a violation, and each is a finding:

1. `client_close`: `client/index.ts:502` says after `close()` that "enterClosed will be called
   from the onclose handler". It is if the room's answer arrives. If the link is lost or
   the room stops first, the close event carries another code, `onclose` takes it for a drop,
   and the client reconnects.
2. `room_unhandled`: `assignment-delivery.test.ts:184` wants `createRoom` to reject "without
   leaving an unhandled rejection behind". It leaves one if the registration takes longer than
   the wait's timeout: the handler is attached only after `await registerRoom`.

Other comments say more than the code keeps; the properties exclude these cases, by name where they have one:

* `start.ts:653-654`: a duplicate connection is rejected "so the existing session is never
  disturbed". The transport has rerouted the client id by then (`ws.ts:103-126`): what the session
  sends is dropped as stale, broadcasts pass it by, the close of the rejected socket is taken
  for its own, and a stop leaves the old socket open. A session parameter that is the client's id
  (`start.ts:610`) does the same, and resumes a seat in its window without a token (`diverted`).
* `start.ts:651`: "a reservation jwt is redeemed exactly once". The check is made before `onAuth`
  is awaited and not after: two connections pass it and both are accepted, and the first one's
  token and handle outlive its place in the map (`shared`).
* `start.ts:770`: "cancel the disconnect timer". `reconnect()` cancels one; a timeout that a
  repeated `allowReconnection` has overwritten (`start.ts:270`) evicts the client who is back (`stray`).
* `server.ts:741-743`: "any room in the server list but not in the rooms map is truly orphaned".
  One HGETALL that fails in the pipeline of `listRooms` (`redis.ts:270`) hides a live room, and the
  leader unregisters it (`missed`).
* `server.ts:619`: the sweep kills "any local room no longer wanted by the driver". One HGETALL that fails in
  the pipeline of a heartbeat hides a room from the desired set, and it is killed; its id is gone
  from the index and nobody reports it, so its record goes on saying "running".
* `CHANGELOG.md:196-198`: the ready rooms of a reaped server are re-asserted "instead of being
  killed by the empty desired set". The signal is one bit in the reply of one heartbeat;
  if that reply outlives its tick it is dropped (`server.ts:552-555`), and the next tick kills the
  rooms (`unsaved`). A driver slow enough to get the server reaped may be slow enough for that.
* `server.ts:587-589`: the recovery "never resurrects a room the sdk has finished tearing down
  before the reap"; if no tick came between the teardown and the reap, the server still has
  the room and registers it again (`RemovedStaysRemoved`).
* `server.ts:743`: of the leader's clean-up, "this direction is safe". A room that was listed
  with its server before a reap, is missed by the listing of rooms after it, and is registered again
  by the recovery in between, is unregistered although it lives. It takes two leaders at a time
  (`excused`).
* `start.ts:491-493`: clients in their reconnection window "have already been
  reported as disconnected"; nothing reports them when they drop, so a heartbeat captured
  meanwhile disconnects them in the driver, perhaps after they have come back, until the
  next heartbeat (the third case of `SeatedStaysConnected`).

Seen in the models, and kept in them as the code has it:

* `createRoom` does not remove a room whose registration took effect and failed (a lost reply);
* a client whose buffer overflows leaves its websocket open, and the room keeps the seat;
* an `onDrop` that throws holds its seat for good;
* a room's `roomReady` that is still under way when its server is reaped, that outlives the recovery
  and meets a second reap, finds no record: the server destroys the room, though the next recovery
  would register it (`server.ts`, the `.then` of `roomReady`);
* a runner that throws leaves its entry in `processes`; `stop()` rejects without killing a room
  if the driver fails;
* a heartbeat's transaction that lands after its server was unregistered brings the record back
  until it is stale; a server hash that lost its `servers` entry in between is listed by nobody;
* `unregisterRoom` that fails between leaving the index and deleting the hash leaves a "running" record
  that no reader finds and nothing removes;
* tags written to a room that is just being removed leave a hash without ttl, and a late
  `roomReady` takes it for the room;
* two servers configured with one endpoint evict each other at every restart;
* if `options.env` or `spawn` throws after `notify.uds` has bound its socket, nobody closes the
  channel; the error message that `runner()` sends counts as the room's first message, so such
  a room starts and exits, rather than fails to start;
* a room that says "stopped" and whose program lingers is never killed: its entry is gone;
* the 'exit' of a process may overtake the last messages it wrote, which are lost;
* a connection of the subscriber that ends and is replaced between two ticks of the canary is
  disconnected once more.

## 4. Proofs

`RoomSession_proofs`, from `RoomAssumption` only (any clients, sockets and bounds, with or
without `onDrop`; TLC runs with it):

* `TypeCorrect`: `Spec => []TypeOK`. Inductive with `Resolved` (a socket that waits for
  `onAuth` belongs to a client), which the indexing of `clients` by `owner` needs.
* `LeaveOnce`: `Spec => []LeavesExactlyOnce`, from `SeatInv`. The property alone is not
  inductive: a step that tracks a record must know that the record is new (`RecordsOnce`: an
  unused or pending socket has no record and no onLeave call), that the seat's old record is
  dead (`MapIsAlive`), and that a second pending upgrade means a shared seat (`OneUser`).
* `TokensOpenTheirSeats`, `ParentKnowsSeats`: from `SeatInv` and `TokenInv`, which adds that
  the tokens of live records differ (`TokensDistinct`): rotation writes a new token before it
  forgets the old one.

The argument is organised by `StepKinds`: every step is of one of a few kinds (tracks a
record, rotates a token, removes a set of records, or leaves seats alone), proved once from the
actions; the invariants are then proved per kind, not per action.

* `SessionsAreRouted`, `StoppedRoomsAreQuiet`: from `RouteInv`. Its core is `RoutesAgree`: the
  transport's socket of a client is the one whose `onAuth` is pending, or its record's, or none,
  unless a further connection was filed under it (`diverted`, which contains `shared`: `SharedAreDiverted`).
  Around it, whom an open socket belongs to (`OpenIsKnown`,
  `SocketsOwned`), that nobody is subscribed before he is seated (`SubscribersJoined`), and what a
  stop has cleared (`StoppedIsEmpty`).
* `SeatsAreHeldForAReason`: from `WindowInv`: a window runs only for a record that is alive and has no
  socket (`TimersHeld`), since a record is tracked without a window and
  `reconnect()` cancels the one that runs; and a seat without a socket has a window, or an `onDrop` that is
  deciding, unless one threw (`SeatsHeld`).
* `MessagesStayInOrder`: from the part of it that a record with a socket buffers nothing
  (`Unbuffered`), so that nothing can overtake a flush. A step either sends nothing new
  (`NothingNew`) or appends the one message that is newer than all (`OneMore`).

`ControlPlane_proofs`, from `ControlAssumption` only (any rooms, overlapping ticks and bounds
on faults; TLC runs with one and two rooms):

* `ControlTypeCorrect`: `Spec => []TypeOK`, in two parts, the variables that the synchronous
  stretches of `heartbeatTick` write (`TypeRun`) and the rest.
* `SpawnOnce`: `Spec => []SpawnedAtMostOnce`, from `OnceInv`. Spawning asks whether the room
  was attempted, and attempts are forgotten, so the property needs the reason why a forgotten
  room is not offered again. `SnapshotHolds` says that a desired set without a room that was
  attempted before it was requested means that the record is gone; `ForgottenForGood` says
  that then no push, no record and not even the live run's desired set has the room;
  `KnownRooms` that a room the sdk has not made has left no trace; `NothingHeard` that a tick
  starts with an empty desired set. `StoreSteps` and `RunSteps` sort the steps by what they do
  to the driver's records and to the runs, and the invariant is proved per kind.
* `ForgetsNoProcess`: `Spec => []NoProcessIsForgotten`, inductive with the type invariant.
* `RevivedOnlyByRecovery`: `Spec => RemovedStaysRemoved`, an action property.
* `PublishedRoomsStay`: `Spec => []PublishedStaysPublished`, and `WantedRoomsSurvive`: `Spec =>
  WantedRoomSurvives`, an action property. Both are about rooms that nobody gave up (`Excused` are the
  others), and need to know where the recovery of each room stands: published, or still to be
  visited by a run that will register it (`PublishedOrRecovering`, `StillToVisit`, `OldAndUntold`), or
  just visited (`VisitedAreSafe`, `VisitIsMeant`); and that a late report finds the record it is
  about (`ReportsFindRecord`). That is `LiveInv`, and it holds while the server is up and no reap
  went unnoticed (`KeptInv`); `AlwaysInv` holds without that.
  An earlier form of `WantedRoomSurvives` did not survive the proof: it held with one reap only,
  because of the bound. A `roomReady` that meets two (see above) was missing from `unsaved`, and the
  run has two reaps since.

`ClientConnection_proofs`, from `ClientAssumption` only (any number of websockets, attempts,
messages and any buffer):

* `ClientTypeCorrect`: `Spec => []TypeOK`, which bounds the retry counter.
* `CapRespected`: `Spec => []GivesUpAtTheCap`, from `CapInv`. The invariant says that
  the counter of the code is zero while the connection is open, and equals the attempts made,
  counting the one a pending timer holds, while the client reconnects; and that a pending
  timer means that no websocket lives.
* `OrderKept`: `Spec => []InOrder`, from `OrderInv`. Order at the room needs order on every
  leg: what the room has received lies below what the routed websocket carries, that below
  the buffer, that below the next number; and the buffer is empty while the connection is
  open, so that nothing can overtake a flush. Most steps are "quiet" (`QuietStep`: they carry
  no new message anywhere); the four that are not have a lemma each.
* `OpenIsJoined`: `Spec => []OpenMeansJoined`, from `JoinInv`: the room's seat follows the socket
  whose session frame the room has sent (`SeatFollows`), the jwt is presented once, on the first
  websocket (`OneOpening`), and a client that is open or reconnects holds a token (`TokenHeld`).
* `ReliableIsAccountedFor`: `Spec => []NothingVanishes`, from `VanishInv`, `JoinInv` and
  `OrderInv`: nothing is written to a socket before its session frame came (`WrittenAfterJoin`).

`RoomCreation_proofs`, from `CreationAssumption` only (any number of reads and mishaps):

* `CreationTypeCorrect`: `Spec => []TypeOK`.
* `MissesAreReal`: `Spec => []FailsOnlyIfGone`, from `OrderInv` and `MissInv`. The property needs
  to know what every read in flight may come back with. `OrderInv` says that a read that was
  issued after the registration, or after a ready signal, means that the registration had
  taken effect; `MissInv` that from then on, while the wait is pending, the record is there or
  somebody removed it, so a read that finds nothing has a true reason.
* `RejectionCleansUp`: `Spec => []RejectedLeavesNoRoom`, from `OrderInv` and `CourseInv`, which
  ties the place where `createRoom` is to what became of the registration.
* `ListensNoMore`: `Spec => []ReleasesChannels`, from `ChannelsInv`: the
  handlers are hooked only while the wait is pending, and a channel that is subscribed, with
  neither SUBSCRIBE awaited any more, means that they are; so settling always meets the clean-up.

`ClientRecords_proofs`, from `RecordsAssumption` only (any clients, heartbeats under way, joins and
faults):

* `RecordsTypeCorrect`: `Spec => []TypeOK`, with the clause that a connected record does not lapse.
  That needs `JoinedInv`: only a client whose reservation is complete is ever connected, so
  the `EXPIRE` of a reservation never meets a connected record.
* `YoungClientIsKept`: `Spec => SeatedStaysConnected`, from `AwayInv`: until a heartbeat has read
  the records, a connected client is listed by it, was away when it was captured, or is
  younger than it; so everyone on a list of clients to disconnect was away.
* `RemovalIsComplete`: `Spec => []OrphansAreLate`, from `RemovalInv`: while the removal runs, every
  record is one it still has to delete or one it could not know of.

`Fleet_proofs`, from `RedisAssumption` and `FleetAssumption` only (any servers, rooms, endpoints, calls at a
time, crashes, stops, failures and expired locks; TLC runs with two servers and one room):

* `FleetTypeCorrect`: `Spec => []TypeOK`.
* `RedisImplementsMemory`: `Spec => ActsAsMemoryDriver`, the refinement. `Kinds` sorts the steps by the
  command they give; a lemma `Maps...` per command says which call of `MemoryDriver` it is, or
  that nobody sees it. The calls act on what they read many commands ago, so this needs
  `FleetInvariant`: an index names rooms of its own server only (`StoreInv`), and so do the rooms
  that a heartbeat has seen, is about to recover or is confirming (`BeatInv`), however long ago it
  read them, because a room keeps its first server (`HomesStay`); a tag is written only to what was
  once a room (`SdkInv`). Without `BeatInv` a recovery could give a room to another server.

`RoomProcess_proofs`, from `ChannelAssumption` only (any connections, attempts to dial and beats):

* `Typed`: `Spec => []TypeOK`.
* `EndsAreToldOnce`: `Spec => []EachEndIsToldOnce`, from `IInv`, whose parts are about the channel, the
  process, and the server's entry with its calls (`ServerInv`): an entry that is held has made no
  call, and one that is gone made one at most. What one event does to the pair is a composition of
  operators, so it is shown operator by operator that they keep it "good", for any number of
  messages in a chunk.
* `TheRoomIsHeard`: `Spec => ServerHearsTheRoom`, from `HearInv`. `StreamInv` says that what was heard of a
  connection, followed by what its buffer and its wire still hold, is what the room said on it,
  while its end is open, and a beginning of that afterwards; `VoiceInv` that only the holder of the
  slot speaks. It rests on `CutAnywhere`: parsing a stream cut in two anywhere, the rest of the
  first part in front of the second, gives what parsing the whole gives.
  `Frames`, `Rest` and the others are recursive functions, and what they return for every
  stream is proved: the library's induction theorems, which take an operator, are of no use
  here, but `SetInduction`, over a set of numbers, has the same force and follows from the
  well-foundedness of the naturals.

`Subscriber_proofs`, from `SubscriberAssumption` only (any listeners and channels, any interval and
timeout of the canary, any number of faults):

* `DeafnessIsDetected`: `Spec => []DetectedInTime`, from `DeafInv`, which bounds how long a connection
  may have been deaf by where the canary stands: while nothing is outstanding by the time since
  the last token, after a PUBLISH by interval plus the time since it.
* `HealthyIsSpared`: `Spec => OnlyTheDeafIsBlamed`, from `RoutedInv`: a published token is on its way,
  or went to no subscription, or the connection is deaf.

Every invariant that a passing run checks is a theorem, and so are its action properties but one.
Only model-checked: the action property `LeaderSparesLiveRooms`, and the liveness properties
`WindowCloses`, `Converges`, `Settles`, `CreateEnds`, `DriftIsCorrected`, `RoomEndsForGood` and
`ListenersAreHeard`.
`LeaderSparesLiveRooms` is claimed for one leader and one mishap at a time, as its run has them, and not
for all constants: a late eviction by a stopped server's last heartbeat, for one, would need more.
Liveness under fairness and `ENABLED` are out of this prover's reach. No module declares a
RECURSIVE operator.

## 5. Not modelled, and why

* *RoomSession*: a protocol version mismatch (it touches no state), frame encoding, the jwt
  (its outcome, a client id, is an input). The room's
  heartbeat reads only; what becomes of it is in `ClientRecords`. A reconnecting upgrade and the `reconnect()` it calls are one step:
  the code awaits nothing in between. `HasOnDrop = FALSE` is covered by the proofs, not by a run.
* *ControlPlane*: the other servers and the leader (see `Fleet`; here a reap is a step of the
  environment); HTTP; introspection; delays between ticks. Redis' `heartbeat` and
  `unregisterRoom` are several commands and one step here, which `Fleet` justifies. Its driver has no
  pipelines that fail in part: a heartbeat that leaves out a live room is in `Fleet` only.
* *ClientConnection*: payloads and their encoding, delays, the room's own messages,
  registration of the unload listeners. The room's side is one seat; a second client
  cannot disturb it except by presenting the same jwt.
* *RoomCreation*: reads of a wait that has settled (their answers are ignored); room data and tags
  and their validation; other listeners of the same process on the same channels (a room id is
  fresh, so there are none). The memory driver shares the wait; its calls take effect at
  once, which is a subset of what is modelled.
* *ClientRecords*: room and client tags and their indices, the fields of a record, the values of
  the ttls, other readers (`getRoomInfo` of the sdk, `listRooms`), which clean the index as
  `CleansIndex` does; an `unregisterRoom` called again after it was done. A client of the memory
  driver is updated in one step, a subset of what is modelled.
* *Fleet, RedisDriver, MemoryDriver*: what tags say (concurrent writers of one room's tags lose
  updates: `hgetall`, then `hset`), server tags, filters, the choice of a server, room data, schema
  migration, `destroy()`, a Redis that loses data. The rooms of a server that is down are gone with it:
  a room process is not told when its server dies, but nobody hears it either.
* *NotifyChannel, RoomProcess*: `notify.direct` (a call in the same process), the codec and the frames
  it rejects, socket paths and their clean-up, other runners than `subprocess()`; messages
  about clients (`ClientRecords`).
* *Subscriber*: what a message on an assignment channel does (`Pushed` of `ControlPlane`), the
  intervals in milliseconds.
* Whole components: `room/index.ts` (types and re-exports), `jwt.ts` (cryptography), `logger.ts`
  (output). `examples/`, `docs/` and the load tests are clients of the library. `create()` of a room
  reads its environment once; HTTP endpoints and introspection read what the others write.

## 6. Plan

Done: 1 `RoomSession`, 2 `ControlPlane`, 3 `ClientConnection`, 4 `RoomCreation`,
5 `ClientRecords`, each with its proofs; 6 `MemoryDriver`, `RedisDriver` and `Fleet` with the
refinement; 7 `NotifyChannel` and `RoomProcess`; 8 `Subscriber`. Every safety
invariant of a run is proved. Next: `LeaderSparesLiveRooms` for all constants, which needs an
invariant about evictions, removals and mishaps that come late, and possibly an exception for them
that is stated like `excused`.
