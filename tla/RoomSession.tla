---------------------------- MODULE RoomSession ----------------------------
(***************************************************************************)
(* One room process: the session engine of src/src/room/start.ts on top of *)
(* the socket bookkeeping of src/src/room/transport/ws.ts.                 *)
(*                                                                         *)
(* JavaScript runs one event at a time, so an action is one event (an      *)
(* upgrade, a frame, a close event, a timer, a call the application makes) *)
(* together with every call it makes before it next awaits.  The three     *)
(* awaits that other events can overtake are onAuth, onDrop and            *)
(* onShutdown: each is two actions, and everything may happen in between.  *)
(*                                                                         *)
(* Names.  A socket is used once.  The TrackedClient built by the open()   *)
(* that ran on socket r is called r, and the session token minted on       *)
(* socket s is called s: both are fresh by construction in the code.       *)
(***************************************************************************)
EXTENDS Naturals, Sequences

CONSTANTS
  Client,      \* client ids; a seat's reservation jwt names exactly one
  Socket,      \* websocket connections, each used once
  NoClient,    \* "no entry" in a map to client ids
  NoSocket,    \* "no entry" in a map to sockets
  MaxBuffer,   \* maxBufferBytes, in messages
  MaxMsgs,     \* bound: messages the application sends
  MaxStray,    \* bound: overwritten timeouts of a record running at once
  HasOnDrop    \* does the application define onDrop?

ASSUME RoomAssumption ==
  /\ NoClient \notin Client
  /\ NoSocket \notin Socket
  /\ MaxBuffer \in Nat
  /\ MaxMsgs \in Nat
  /\ MaxStray \in Nat
  /\ HasOnDrop \in BOOLEAN

VARIABLES
  \* ws.ts: the transport
  ready,         \* ws.readyState, see States
  owner,         \* the clientId upgrade() resolved the connection to
  clientSockets, \* clientId -> its current ws
  subs,          \* topics.get('room')
  \* start.ts: the room
  authing,       \* sockets whose open() awaits onAuth
  clients,       \* state.clients: clientId -> tracked record
  sessionTokens, \* state.sessionTokens: token -> clientId
  socket,        \* tracked.socket
  token,         \* tracked.sessionToken
  alive,         \* tracked.alive
  buffer,        \* tracked.reliableBuffer
  timer,         \* tracked.disconnectTimer # null
  stray,         \* timeouts of this record still running but no longer referenced
  dropping,      \* onDrop calls that have not yet returned
  phase,         \* "up", "stopping" (onShutdown awaited) or "stopped"
  reported,      \* clients last announced over ipc as connected
  \* history
  next,          \* number of the next application message
  sent,          \* messages put on the record's live socket, in order
  left,          \* onLeave calls made with the record's handle
  shared,        \* seats whose jwt was presented while already in use
  diverted,      \* seats a further connection was filed under while in use
  late,          \* records tracked after their socket or the room had gone
  threw          \* records whose onDrop threw

transport == <<ready, owner, clientSockets, subs>>
record    == <<socket, token, alive, buffer, timer, stray, dropping>>
room      == <<authing, clients, sessionTokens, phase, reported>>
history   == <<next, sent, left, shared, diverted, late, threw>>
vars      == <<transport, record, room, history>>

-----------------------------------------------------------------------------

\* Close codes: 4000, and all the others.
Codes == {"consented", "other"}

\* "closing": the room has called close(); "left" and "ended": a close frame of the
\* peer has been read, with code 4000 and with another one.
States == {"unused", "open", "closing", "left", "ended", "closed"}

TypeOK ==
  /\ ready \in [Socket -> States]
  /\ owner \in [Socket -> Client \cup {NoClient}]
  /\ clientSockets \in [Client -> Socket \cup {NoSocket}]
  /\ subs \in SUBSET Socket
  /\ authing \in SUBSET Socket
  /\ clients \in [Client -> Socket \cup {NoSocket}]
  /\ sessionTokens \in [Socket -> Client \cup {NoClient}]
  /\ socket \in [Socket -> Socket \cup {NoSocket}]
  /\ token \in [Socket -> Socket]
  /\ alive \in [Socket -> BOOLEAN]
  /\ buffer \in [Socket -> Seq(Nat)]
  /\ timer \in [Socket -> BOOLEAN]
  /\ stray \in [Socket -> Nat]
  /\ dropping \in [Socket -> Nat]
  /\ phase \in {"up", "stopping", "stopped"}
  /\ reported \in SUBSET Client
  /\ next \in Nat
  /\ sent \in [Socket -> Seq(Nat)]
  /\ left \in [Socket -> Nat]
  /\ shared \in SUBSET Client
  /\ diverted \in SUBSET Client
  /\ late \in SUBSET Socket
  /\ threw \in SUBSET Socket

Init ==
  /\ ready = [s \in Socket |-> "unused"]
  /\ owner = [s \in Socket |-> NoClient]
  /\ clientSockets = [c \in Client |-> NoSocket]
  /\ subs = {}
  /\ authing = {}
  /\ clients = [c \in Client |-> NoSocket]
  /\ sessionTokens = [t \in Socket |-> NoClient]
  /\ socket = [r \in Socket |-> NoSocket]
  /\ token = [r \in Socket |-> r]
  /\ alive = [r \in Socket |-> FALSE]
  /\ buffer = [r \in Socket |-> <<>>]
  /\ timer = [r \in Socket |-> FALSE]
  /\ stray = [r \in Socket |-> 0]
  /\ dropping = [r \in Socket |-> 0]
  /\ phase = "up"
  /\ reported = {}
  /\ next = 1
  /\ sent = [r \in Socket |-> <<>>]
  /\ left = [r \in Socket |-> 0]
  /\ shared = {}
  /\ diverted = {}
  /\ late = {}
  /\ threw = {}

-----------------------------------------------------------------------------
(* Helpers.                                                                *)

Seated(r) == \E c \in Client : clients[c] = r

\* Nobody holds the seat and no onAuth is deciding about it.
SeatFree(c) == clients[c] = NoSocket /\ \A s \in authing : owner[s] # c

\* ws.close(code) on the sockets of S: an open one starts the closing handshake.
Close(S) ==
  ready' = [s \in Socket |->
              IF s \in S /\ ready[s] = "open" THEN "closing" ELSE ready[s]]

\* The records of R an eviction acts on, and the ids it reports to the parent.
Evictable_EvenDead(R) == R
Evictable(R) == {r \in R : alive[r]}

Departed_Connected(E) == {owner[r] : r \in {x \in E : socket[x] # NoSocket}}
Departed(E) == {owner[r] : r \in E}

\* evictClient on every record of R: dead records are skipped, the map entry is
\* deleted by client id.  The buffer and the socket are the caller's to prime:
\* see Evict.
Forget(R) ==
  LET E == Evictable(R) IN
  /\ alive' = [r \in Socket |-> alive[r] /\ r \notin E]
  /\ timer' = [r \in Socket |-> timer[r] /\ r \notin E]
  /\ sessionTokens' = [t \in Socket |->
                         IF \E r \in E : token[r] = t
                         THEN NoClient ELSE sessionTokens[t]]
  /\ clients' = [c \in Client |->
                   IF \E r \in E : owner[r] = c THEN NoSocket ELSE clients[c]]
  /\ left' = [r \in Socket |-> IF r \in E THEN left[r] + 1 ELSE left[r]]
  /\ reported' = reported \ Departed(E)

\* evictClient(r), from a timer, an onDrop that did not hold the seat, or
\* client.disconnect().
Evict(r) ==
  /\ Forget({r})
  /\ buffer' = IF alive[r] THEN [buffer EXCEPT ![r] = <<>>] ELSE buffer
  /\ Close(IF alive[r] THEN {socket[r]} ELSE {})

-----------------------------------------------------------------------------
(* Connections arrive.                                                     *)

\* completeUpgrade for client id c: whatever socket served c before loses its
\* subscriptions and its place in the maps, whether or not s will be accepted.
Adopt(s, c) ==
  /\ ready[s] = "unused"
  /\ phase # "stopped"
  /\ owner' = [owner EXCEPT ![s] = c]
  /\ clientSockets' = [clientSockets EXCEPT ![c] = s]

\* The old socket's subscriptions go with it.
Unsubscribed(s, c) == subs \ {clientSockets[c]}

\* What the history keeps of a connection filed under c, and of one with c's jwt.
Diverts(c) == diverted' = IF SeatFree(c) THEN diverted ELSE diverted \cup {c}

Presented(c) ==
  /\ shared' = IF SeatFree(c) THEN shared ELSE shared \cup {c}
  /\ Diverts(c)

\* open() with a verified jwt: the seat is not tracked, so onAuth is awaited.
Open(s, c) ==
  /\ Adopt(s, c)
  /\ clients[c] = NoSocket
  /\ ready' = [ready EXCEPT ![s] = "open"]
  /\ subs' = Unsubscribed(s, c)
  /\ authing' = authing \cup {s}
  /\ Presented(c)
  /\ UNCHANGED <<record, clients, sessionTokens, phase, reported, next,
                 sent, left, late, threw>>

\* open() with a verified jwt: "seat already in use", closed with 4000.
RejectDuplicate(s, c) ==
  /\ Adopt(s, c)
  /\ clients[c] # NoSocket
  /\ ready' = [ready EXCEPT ![s] = "closing"]
  /\ subs' = Unsubscribed(s, c)
  /\ Presented(c)
  /\ UNCHANGED <<record, room, next, sent, left, late, threw>>

\* ?session= names no client and resumes nothing, or the protocol versions differ:
\* the connection is filed under an id of its own and closed with 4000.
RejectSession(s) ==
  /\ ready[s] = "unused"
  /\ phase # "stopped"
  /\ ready' = [ready EXCEPT ![s] = "closing"]
  /\ UNCHANGED <<owner, clientSockets, subs, record, room, history>>

\* ?session= is the id of client c, which upgrade() passes on as it stands, and c has
\* no seat in its window: closed with 4000, but filed under c all the same.
RejectNamed(s, c) ==
  /\ Adopt(s, c)
  /\ clients[c] # NoSocket => socket[clients[c]] # NoSocket
  /\ ready' = [ready EXCEPT ![s] = "closing"]
  /\ subs' = Unsubscribed(s, c)
  /\ Diverts(c)
  /\ UNCHANGED <<record, room, next, sent, left, shared, late, threw>>

\* onAuth accepts: mint a token, build and track the record, subscribe, send the
\* session frame, announce the client if the ipc has not been closed, call onJoin.
AuthAccept(s) ==
  /\ s \in authing
  /\ authing' = authing \ {s}
  /\ sessionTokens' = [sessionTokens EXCEPT ![s] = owner[s]]
  /\ clients' = [clients EXCEPT ![owner[s]] = s]
  /\ socket' = [socket EXCEPT ![s] = s]
  /\ token' = [token EXCEPT ![s] = s]
  /\ alive' = [alive EXCEPT ![s] = TRUE]
  /\ subs' = subs \cup {s}
  /\ reported' = IF phase = "stopped" THEN reported ELSE reported \cup {owner[s]}
  /\ late' = IF ready[s] = "closed" \/ phase = "stopped"
             THEN late \cup {s} ELSE late
  /\ UNCHANGED <<ready, owner, clientSockets, buffer, timer, stray, dropping,
                 phase, next, sent, left, shared, diverted, threw>>

\* onAuth rejects (4000) or throws (1011).
AuthReject(s) ==
  /\ s \in authing
  /\ authing' = authing \ {s}
  /\ Close({s})
  /\ UNCHANGED <<owner, clientSockets, subs, record, clients,
                 sessionTokens, phase, reported, history>>

\* reconnect() cancels the window, rotates the token and flushes the buffer.
CancelWindow_Forgotten(r) == UNCHANGED timer
CancelWindow(r) == timer' = [timer EXCEPT ![r] = FALSE]

Rotate_KeepsOld(r, s) ==
  /\ sessionTokens' = [sessionTokens EXCEPT ![s] = owner[r]]
  /\ token' = [token EXCEPT ![r] = s]

Rotate(r, s) ==
  /\ sessionTokens' = [sessionTokens EXCEPT ![token[r]] = NoClient, ![s] = owner[r]]
  /\ token' = [token EXCEPT ![r] = s]

Flush_KeepsBuffer(r) ==
  /\ sent' = [sent EXCEPT ![r] = @ \o buffer[r]]
  /\ UNCHANGED buffer

Flush(r) ==
  /\ sent' = [sent EXCEPT ![r] = @ \o buffer[r]]
  /\ buffer' = [buffer EXCEPT ![r] = <<>>]

\* ?session= is a token of client c, or c's own id, and c's seat is in its window: the
\* record swaps in s, its window is cancelled, the token rotates, and the buffer is
\* flushed in order before the session frame.
Reconnect(s, c) ==
  LET r == clients[c] IN
  /\ r # NoSocket
  /\ socket[r] = NoSocket
  /\ Adopt(s, c)
  /\ ready' = [ready EXCEPT ![s] = "open"]
  /\ subs' = Unsubscribed(s, c) \cup {s}
  /\ CancelWindow(r)
  /\ socket' = [socket EXCEPT ![r] = s]
  /\ Rotate(r, s)
  /\ Flush(r)
  /\ reported' = reported \cup {c}
  /\ UNCHANGED <<alive, stray, dropping, authing, clients, phase, next, left,
                 shared, diverted, late, threw>>

-----------------------------------------------------------------------------
(* Connections close.                                                      *)

\* The peer's close frame is read: with 4000 after close() of the client library,
\* with anything else (1000, 1001, none) otherwise.
PeerCloses(s, k) ==
  /\ ready[s] = "open"
  /\ ready' = [ready EXCEPT ![s] = IF k = "consented" THEN "left" ELSE "ended"]
  /\ UNCHANGED <<owner, clientSockets, subs, record, room, history>>

\* The generation guard of the message and close listeners.
IsCurrent_AnySocket(s) == owner[s] # NoClient
IsCurrent(s) == owner[s] # NoClient /\ clientSockets[owner[s]] = s

\* A leave frame on the socket the transport takes for the client's current one
\* closes the tracked socket.
LeaveFrame(s) ==
  /\ ready[s] \in {"open", "closing"}
  /\ IsCurrent(s)
  /\ clients[owner[s]] # NoSocket
  /\ socket[clients[owner[s]]] # NoSocket
  /\ Close({socket[clients[owner[s]]]})
  /\ UNCHANGED <<owner, clientSockets, subs, record, room, history>>

\* The code a close event can carry: that of the peer's close frame; after the
\* room's own close frame its echo, the peer's own code if the two crossed, or 1006
\* if no answer came; 1006 when an open connection is lost.
CloseCodes(s) ==
  CASE ready[s] = "open"    -> {"other"}
    [] ready[s] = "closing" -> Codes
    [] ready[s] = "left"    -> {"consented"}
    [] ready[s] = "ended"   -> {"other"}
    [] OTHER                -> {}

\* A socket that was replaced, or never had a client: the room is not told.
CloseStale(s) ==
  /\ CloseCodes(s) # {}
  /\ ~IsCurrent(s)
  /\ ready' = [ready EXCEPT ![s] = "closed"]
  /\ subs' = subs \ {s}
  /\ UNCHANGED <<owner, clientSockets, record, room, history>>

\* The current socket of a client the room does not track.
CloseUntracked(s) ==
  /\ CloseCodes(s) # {}
  /\ IsCurrent(s)
  /\ clients[owner[s]] = NoSocket
  /\ ready' = [ready EXCEPT ![s] = "closed"]
  /\ clientSockets' = [clientSockets EXCEPT ![owner[s]] = NoSocket]
  /\ subs' = subs \ {s}
  /\ UNCHANGED <<owner, record, room, history>>

\* Consented, or no onDrop: the tracked record is evicted.
CloseLeave(s) ==
  LET r == clients[owner[s]] IN
  /\ IsCurrent(s)
  /\ r # NoSocket
  /\ \E k \in CloseCodes(s) : k = "consented" \/ ~HasOnDrop
  /\ clientSockets' = [clientSockets EXCEPT ![owner[s]] = NoSocket]
  /\ subs' = subs \ {s}
  /\ Forget({r})
  /\ buffer' = [buffer EXCEPT ![r] = <<>>]
  /\ ready' = [x \in Socket |-> IF x = s THEN "closed"
                                ELSE IF x = socket[r] /\ ready[x] = "open"
                                     THEN "closing" ELSE ready[x]]
  /\ UNCHANGED <<owner, socket, token, stray, dropping, authing, phase,
                 next, sent, shared, diverted, late, threw>>

\* Anything else: the record loses its socket and onDrop is called.
CloseDrop(s) ==
  LET r == clients[owner[s]] IN
  /\ IsCurrent(s)
  /\ r # NoSocket
  /\ HasOnDrop
  /\ "other" \in CloseCodes(s)
  /\ ready' = [ready EXCEPT ![s] = "closed"]
  /\ clientSockets' = [clientSockets EXCEPT ![owner[s]] = NoSocket]
  /\ subs' = subs \ {s}
  /\ socket' = [socket EXCEPT ![r] = NoSocket]
  /\ dropping' = [dropping EXCEPT ![r] = @ + 1]
  /\ UNCHANGED <<owner, token, alive, buffer, timer, stray, room, history>>

-----------------------------------------------------------------------------
(* The reconnection window.                                                *)

\* client.allowReconnection(ms), from onDrop or at any later time while the client
\* has no socket: a timeout that is already running is overwritten, not cleared.
AllowReconnection(r) ==
  /\ alive[r]
  /\ socket[r] = NoSocket
  /\ timer[r] => stray[r] < MaxStray
  /\ timer' = [timer EXCEPT ![r] = TRUE]
  /\ stray' = [stray EXCEPT ![r] = IF timer[r] THEN @ + 1 ELSE @]
  /\ UNCHANGED <<transport, socket, token, alive, buffer, dropping, room, history>>

\* An onDrop call returns or throws.
DropEnds_Unmatched(r) ==
  /\ alive[r]
  /\ dropping' = [dropping EXCEPT ![r] = @ - 1]

DropEnds(r) ==
  /\ dropping[r] > 0
  /\ dropping' = [dropping EXCEPT ![r] = @ - 1]

\* Nothing holds the seat when onDrop returns.
Abandoned_Swapped(r) ==
  timer[r] /\ socket[r] = NoSocket /\ clients[owner[r]] # NoSocket

Abandoned(r) ==
  ~timer[r] /\ socket[r] = NoSocket /\ clients[owner[r]] # NoSocket

\* It returns, and nothing holds the seat: evict.
DropEvicts(r) ==
  /\ DropEnds(r)
  /\ Abandoned(r)
  /\ Evict(r)
  /\ UNCHANGED <<owner, clientSockets, subs, socket, token, stray, authing,
                 phase, next, sent, shared, diverted, late, threw>>

\* It returns with a window running, a new socket, or the client already gone.
DropReturns(r) ==
  /\ DropEnds(r)
  /\ ~Abandoned(r)
  /\ UNCHANGED <<transport, socket, token, alive, buffer, timer, stray, room,
                 history>>

\* It throws: the error is logged and nothing else is done.
DropThrows(r) ==
  /\ DropEnds(r)
  /\ threw' = threw \cup {r}
  /\ UNCHANGED <<transport, socket, token, alive, buffer, timer, stray, room,
                 next, sent, left, shared, diverted, late>>

\* The timeout disconnectTimer refers to expires.
TimerFires(r) ==
  /\ timer[r]
  /\ Evict(r)
  /\ UNCHANGED <<owner, clientSockets, subs, socket, token, stray, dropping,
                 authing, phase, next, sent, shared, diverted, late, threw>>

\* A timeout that was overwritten expires: it too clears disconnectTimer, which
\* leaves the timeout that field referred to running, and evicts.
StrayFires(r) ==
  /\ stray[r] > 0
  /\ stray' = [stray EXCEPT ![r] = IF timer[r] THEN @ ELSE @ - 1]
  /\ Evict(r)
  /\ UNCHANGED <<owner, clientSockets, subs, socket, token, dropping,
                 authing, phase, next, sent, shared, diverted, late, threw>>

-----------------------------------------------------------------------------
(* The application sends, disconnects and stops.                           *)

\* The record's socket takes a frame: ws.send does nothing once it is not open.
Writable(r) == socket[r] # NoSocket /\ ready[socket[r]] = "open"

\* Message number `next` is written to the sockets of W and buffered for B; a
\* buffer that overflows evicts its client, which has no socket to close.
Deliver(W, B) ==
  LET full == {r \in B : Len(buffer[r]) + 1 > MaxBuffer} IN
  /\ phase = "up"
  /\ next <= MaxMsgs
  /\ next' = next + 1
  /\ sent' = [r \in Socket |-> IF r \in W THEN Append(sent[r], next) ELSE sent[r]]
  /\ buffer' = [r \in Socket |-> IF r \in full THEN <<>>
                                 ELSE IF r \in B THEN Append(buffer[r], next)
                                                 ELSE buffer[r]]
  /\ Forget(full)
  /\ UNCHANGED <<transport, socket, token, stray, dropping, authing, phase,
                 shared, diverted, late, threw>>

\* client.send(message, {reliable}).
Send(r, reliable) ==
  /\ alive[r]
  /\ Deliver(IF Writable(r) THEN {r} ELSE {},
             IF socket[r] = NoSocket /\ reliable THEN {r} ELSE {})

\* Whom publish reaches: the open sockets of the topic.
Subscribers == {r \in Socket : Writable(r) /\ socket[r] \in subs}

\* room.broadcast(message, {reliable}): one publish to the topic, and a buffered
\* copy for every tracked client without a socket.
Broadcast(reliable) ==
  Deliver(Subscribers,
          IF reliable THEN {r \in Socket : Seated(r) /\ socket[r] = NoSocket}
                      ELSE {})

\* room.broadcast(message, {reliable, except}): client by client, not by topic.
BroadcastExcept(except, reliable) ==
  LET to == {r \in Socket : \E c \in Client \ except : clients[c] = r} IN
  Deliver({r \in to : Writable(r)},
          IF reliable THEN {r \in to : socket[r] = NoSocket} ELSE {})

\* client.disconnect().
Disconnect(r) ==
  /\ alive[r]
  /\ Evict(r)
  /\ UNCHANGED <<owner, clientSockets, subs, socket, token, stray, dropping,
                 authing, phase, next, sent, shared, diverted, late, threw>>

\* The ws instances server.close() closes: all but those another one replaced.
Connections_Tracked == {s \in Socket : IsCurrent(s) /\ clients[owner[s]] # NoSocket}
Connections == {s \in Socket : IsCurrent(s)}

\* room.stop() or SIGTERM: the verbs go silent, onShutdown is awaited.
StopBegins ==
  /\ phase = "up"
  /\ phase' = "stopping"
  /\ UNCHANGED <<transport, record, authing, clients, sessionTokens, reported,
                 history>>

\* onShutdown has returned: every tracked client leaves, every socket is closed.
StopEnds ==
  LET all == {r \in Socket : Seated(r)} IN
  /\ phase = "stopping"
  /\ phase' = "stopped"
  /\ clients' = [c \in Client |-> NoSocket]
  /\ sessionTokens' = [t \in Socket |-> NoClient]
  /\ alive' = [r \in Socket |-> alive[r] /\ r \notin all]
  /\ timer' = [r \in Socket |-> timer[r] /\ r \notin all]
  /\ buffer' = [r \in Socket |-> IF r \in all THEN <<>> ELSE buffer[r]]
  /\ left' = [r \in Socket |-> IF r \in all THEN left[r] + 1 ELSE left[r]]
  /\ reported' = reported \ {owner[r] : r \in all}
  /\ Close(Connections \cup {socket[r] : r \in all})
  /\ UNCHANGED <<owner, clientSockets, subs, socket, token, stray, dropping,
                 authing, next, sent, shared, diverted, late, threw>>

-----------------------------------------------------------------------------

Connect(s)    == \/ \E c \in Client : Open(s, c) \/ RejectDuplicate(s, c)
                 \/ \E c \in Client : RejectNamed(s, c) \/ Reconnect(s, c)
                 \/ RejectSession(s)
Authorise(s)  == AuthAccept(s) \/ AuthReject(s)
PeerActs(s)   == (\E k \in Codes : PeerCloses(s, k)) \/ LeaveFrame(s)
Closed(s)     == CloseStale(s) \/ CloseUntracked(s) \/ CloseLeave(s) \/ CloseDrop(s)
DropSettles(r) == DropEvicts(r) \/ DropReturns(r) \/ DropThrows(r)
AppActs(r)    == \/ AllowReconnection(r)
                 \/ Disconnect(r)
                 \/ \E reliable \in BOOLEAN : Send(r, reliable)
AppBroadcasts == \E reliable \in BOOLEAN :
                   \/ Broadcast(reliable)
                   \/ \E x \in SUBSET Client : BroadcastExcept(x, reliable)

Next ==
  \/ \E s \in Socket : Connect(s) \/ Authorise(s) \/ PeerActs(s) \/ Closed(s)
  \/ \E r \in Socket : AppActs(r) \/ DropSettles(r) \/ TimerFires(r) \/ StrayFires(r)
  \/ AppBroadcasts
  \/ StopBegins
  \/ StopEnds

Spec == Init /\ [][Next]_vars

\* The runtime fires due timeouts, and an onDrop promise settles.
FairSpec ==
  /\ Spec
  /\ \A r \in Socket : WF_vars(TimerFires(r)) /\ WF_vars(DropSettles(r))

-----------------------------------------------------------------------------
(* Properties.                                                             *)

\* Room map and token map are inverse to one another for every seat that was never
\* presented twice at once: the record in the map is alive, its current token and
\* no other resolves to it, and no token outlives its client (the rotation in
\* reconnect() and the deletion in evictClient).
TokensMatchSeats ==
  \A c \in Client \ shared :
    /\ clients[c] # NoSocket =>
         /\ owner[clients[c]] = c
         /\ alive[clients[c]]
         /\ sessionTokens[token[clients[c]]] = c
    /\ \A t \in Socket : sessionTokens[t] = c =>
         clients[c] # NoSocket /\ token[clients[c]] = t

\* The transport and the room agree about every session that has a socket: it has
\* not closed, frames from it reach the client, and broadcasts reach it; and they reach
\* no other: a subscribed socket has been accepted by onAuth, for a client that joined.
\* Only a further connection filed under the seat while it was in use can break this.
LiveSessionIsRouted ==
  /\ \A c \in Client \ diverted :
       LET r == clients[c] IN
       r # NoSocket /\ r \notin late /\ socket[r] # NoSocket =>
         /\ ready[socket[r]] # "closed"
         /\ clientSockets[c] = socket[r]
         /\ socket[r] \in subs
  /\ \A s \in subs :
       /\ s \notin authing
       /\ owner[s] \notin diverted =>
            \E r \in Socket : socket[r] = s /\ (alive[r] \/ left[r] = 1)

\* A seat without a socket is kept only while an onDrop call is deciding or a
\* reconnection window is running, and the window the room knows of runs only for such
\* a seat: nobody holds a seat for ever, and reconnect() cancels the window.
HeldSeatHasReason ==
  \A r \in Socket :
    /\ Seated(r) /\ socket[r] = NoSocket /\ r \notin threw => timer[r] \/ dropping[r] > 0
    /\ alive[r] /\ socket[r] # NoSocket => ~timer[r]

\* Across drops, buffering and reconnections a client is sent each message at most
\* once, and in the order the application sent them.
InOrder ==
  \A r \in Socket :
    LET q == sent[r] \o buffer[r] IN
    /\ \A i, j \in 1..Len(q) : i < j => q[i] < q[j]
    /\ \A i \in 1..Len(q) : q[i] < next

\* onLeave runs at most once per handle, and exactly when the client leaves the
\* room's map: nobody vanishes without it, nobody stays in the map after it.
LeavesExactlyOnce ==
  \A r \in Socket :
    /\ left[r] <= 1
    /\ alive[r] => left[r] = 0
    /\ alive[r] /\ owner[r] \notin shared => clients[owner[r]] = r
    /\ Seated(r) => alive[r]

\* The parent server, hearing only client-connected and client-disconnected, knows
\* exactly the clients that hold a seat, and none once the room has stopped.
ParentInSync ==
  \A c \in Client \ shared :
    c \in reported <=> clients[c] # NoSocket /\ phase # "stopped"

\* After stop nothing of the room is left but what a pending onAuth brings back:
\* nobody is tracked, no window is running and no socket is left open, the ones
\* whose onAuth is pending included.
StoppedRoomIsQuiet ==
  phase = "stopped" =>
    /\ \A c \in Client : clients[c] \in late \cup {NoSocket}
    /\ \A r \in Socket : timer[r] => r \in late \/ owner[r] \in shared
    /\ \A s \in Socket : ready[s] = "open" => owner[s] \in diverted

\* A dropped client comes back or gives its seat up, whatever the order of onDrop,
\* its window, reconnections and further drops: no seat is held for ever.
WindowCloses ==
  \A r \in Socket :
    (Seated(r) /\ socket[r] = NoSocket)
      ~> (socket[r] # NoSocket \/ ~Seated(r) \/ r \in threw)

=============================================================================
