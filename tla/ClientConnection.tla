-------------------------- MODULE ClientConnection --------------------------
(***************************************************************************)
(* One RoomConnection of the client library (src/src/client/index.ts), the *)
(* websockets it opens one after another, and the one seat it talks to in  *)
(* a room.  The room is the endpoint of module RoomSession seen from one   *)
(* seat: what onDrop and its window decide is left open (WindowEnds).      *)
(*                                                                         *)
(* The session token minted on socket s is called s.  Links lose nothing   *)
(* and keep the order until they break; then each end may still read what  *)
(* had arrived, and learns of the loss in its own time.                    *)
(***************************************************************************)
EXTENDS Naturals, Sequences, FiniteSets, Functions

CONSTANTS
  MaxSockets,  \* bound: websockets the client may open
  MaxRetries,  \* MAX_RECONNECT_ATTEMPTS
  MaxBuffer,   \* MAX_BUFFER_BYTES, in messages
  MaxMsgs      \* bound: messages the application sends

ASSUME ClientAssumption ==
  /\ MaxSockets \in Nat \ {0}
  /\ MaxRetries \in Nat \ {0}
  /\ MaxBuffer \in Nat
  /\ MaxMsgs \in Nat

VARIABLES
  \* client/index.ts
  state,      \* "connecting", "open", "reconnecting" or "closed"
  ws,         \* the current websocket, 0 for null
  token,      \* sessionToken, 0 for null
  retries,    \* retryCount
  uptime,     \* uptimeTimer # null
  backoff,    \* backoffTimer # null
  authFailed, \* initialAuthFailed
  consented,  \* consentedClose
  out,        \* reliableBuffer
  cause,      \* the cause onClose was called with
  \* the websockets
  cli,        \* readyState of the client's end
  srv,        \* readyState of the room's end
  asks,       \* the session token in the url, 0 for the seat's jwt
  up,         \* frames on their way to the room
  down,       \* frames on their way to the client
  cut,        \* the link is lost
  \* the room's view of the seat
  running,    \* the room has not stopped
  authing,    \* sockets whose onAuth is pending
  present,    \* the client is tracked
  rsock,      \* tracked.socket, 0 for null
  rtoken,     \* tracked.sessionToken
  route,      \* clientSockets[clientId]
  received,   \* messages given to onMessage, in order
  \* history
  next,       \* number of the next message
  reliable,   \* messages sent as reliable
  lost,       \* messages that died with the socket they were written to
  joined,     \* sockets whose session frame the client has read
  tries,      \* attempts begun since the last session frame
  overflowed, \* the reliable buffer overflowed
  late        \* the record was made for a socket that had closed

client  == <<state, ws, token, retries, uptime, backoff, authFailed, consented, out, cause>>
sockets == <<cli, srv, asks, up, down, cut>>
room    == <<running, authing, present, rsock, rtoken, route, received>>
history == <<next, reliable, lost, joined, tries, overflowed, late>>
vars    == <<client, sockets, room, history>>

Socket == 1..MaxSockets

Causes == {"none", "consented", "auth", "session", "reconnect-failed", "buffer-overflow",
           "initial-connect-failed", "server"}

\* Frames: user messages, the protocol messages, and close frames with code 4000
\* ("consented") or another one ("other").
User(n) == [kind |-> "user", n |-> n]
Signal(k) == [kind |-> k, n |-> 0]
Codes == {"consented", "other"}
Ups   == {User(n) : n \in 1..MaxMsgs} \cup {Signal(k) : k \in Codes \cup {"leave"}}
Downs == {Signal(k) : k \in Codes \cup {"session", "auth_error"}}

TypeOK ==
  /\ state \in {"connecting", "open", "reconnecting", "closed"}
  /\ ws \in Socket \cup {0}
  /\ token \in Socket \cup {0}
  /\ retries \in 0..MaxRetries
  /\ uptime \in BOOLEAN
  /\ backoff \in BOOLEAN
  /\ authFailed \in BOOLEAN
  /\ consented \in BOOLEAN
  /\ out \in Seq(1..MaxMsgs)
  /\ cause \in Causes
  /\ cli \in [Socket -> {"unused", "connecting", "open", "closing", "closed"}]
  /\ srv \in [Socket -> {"unused", "open", "closing", "closed"}]
  /\ asks \in [Socket -> Socket \cup {0}]
  /\ up \in [Socket -> Seq(Ups)]
  /\ down \in [Socket -> Seq(Downs)]
  /\ cut \in [Socket -> BOOLEAN]
  /\ running \in BOOLEAN
  /\ authing \in SUBSET Socket
  /\ present \in BOOLEAN
  /\ rsock \in Socket \cup {0}
  /\ rtoken \in Socket \cup {0}
  /\ route \in Socket \cup {0}
  /\ received \in Seq(1..MaxMsgs)
  /\ next \in 1..(MaxMsgs + 1)
  /\ reliable \in SUBSET (1..MaxMsgs)
  /\ lost \in SUBSET (1..MaxMsgs)
  /\ joined \in SUBSET Socket
  /\ tries \in Nat
  /\ overflowed \in BOOLEAN
  /\ late \in BOOLEAN

\* connect(url, handlers): the first websocket is on its way.
Init ==
  /\ state = "connecting"
  /\ ws = 1
  /\ token = 0
  /\ retries = 0
  /\ uptime = FALSE /\ backoff = FALSE /\ authFailed = FALSE /\ consented = FALSE
  /\ out = <<>>
  /\ cause = "none"
  /\ cli = [s \in Socket |-> IF s = 1 THEN "connecting" ELSE "unused"]
  /\ srv = [s \in Socket |-> "unused"]
  /\ asks = [s \in Socket |-> 0]
  /\ up = [s \in Socket |-> <<>>]
  /\ down = [s \in Socket |-> <<>>]
  /\ cut = [s \in Socket |-> FALSE]
  /\ running = TRUE
  /\ authing = {}
  /\ present = FALSE
  /\ rsock = 0 /\ rtoken = 0 /\ route = 0
  /\ received = <<>>
  /\ next = 1
  /\ reliable = {} /\ lost = {} /\ joined = {}
  /\ tries = 0
  /\ overflowed = FALSE /\ late = FALSE

-----------------------------------------------------------------------------
(* The websockets.                                                         *)

Messages(q) == {q[i].n : i \in {j \in DOMAIN q : q[j].kind = "user"}}

\* Can the client's end of s still send, and does anybody read it?
Carries(s) == cli[s] = "open" /\ ~cut[s] /\ srv[s] # "closed"

\* Frames written to the client's end: a browser drops what is written to a
\* websocket that is not open, without an error.
Write(s, frames) ==
  /\ up' = IF Carries(s) THEN [up EXCEPT ![s] = @ \o frames] ELSE up
  /\ lost' = IF Carries(s) THEN lost ELSE lost \cup Messages(frames)

\* socket.close(): an open one sends its close frame after `frames`, one that is still
\* connecting is torn down.
CloseClient(s, frames) ==
  /\ cli' = IF cli[s] \in {"connecting", "open"}
            THEN [cli EXCEPT ![s] = "closing"] ELSE cli
  /\ cut' = IF cli[s] = "connecting" THEN [cut EXCEPT ![s] = TRUE] ELSE cut
  /\ Write(s, frames)

\* The room writes to its end of the sockets of S; ws.send is guarded by readyState.
RoomWrites(S, frames) ==
  down' = [s \in Socket |-> IF s \in S /\ srv[s] = "open" /\ ~cut[s]
                            THEN down[s] \o frames ELSE down[s]]

\* ws.close(code) on the sockets of S.
RoomCloses(S, frames) ==
  /\ srv' = [s \in Socket |-> IF s \in S /\ srv[s] = "open" THEN "closing" ELSE srv[s]]
  /\ RoomWrites(S, frames)

\* A link breaks, or a connection that was never answered is refused.
LinkBreaks(s) ==
  /\ cli[s] # "unused" /\ ~cut[s]
  /\ cli[s] # "closed" \/ srv[s] \in {"open", "closing"}
  /\ cut' = [cut EXCEPT ![s] = TRUE]
  /\ UNCHANGED <<client, cli, srv, asks, up, down, room, history>>

\* The code a close event carries, if there may be one: that of the peer's close frame,
\* or 1006 once the link is lost.
CloseCode(s, inbox) ==
  {k \in Codes : \/ inbox # <<>> /\ Head(inbox) = Signal(k)
                 \/ k = "other" /\ cut[s]}

\* What the client's end still reads: close frames only, once it is closing.
Readable(s) ==
  CASE cli[s] = "open"    -> down[s]
    [] cli[s] = "closing" -> SelectSeq(down[s], LAMBDA f : f.kind \in Codes)
    [] OTHER              -> <<>>

-----------------------------------------------------------------------------
(* The client: events of its websockets.                                   *)

\* enterClosed(cause).
EnterClosed(why) ==
  /\ state' = "closed"
  /\ ws' = 0
  /\ uptime' = FALSE
  /\ backoff' = FALSE
  /\ out' = <<>>
  /\ cause' = why

\* socket.onopen: nothing yet, unless the connection was closed in the meantime.
OpenedOn_RawOpen(s) ==
  /\ state' = IF state = "closed" THEN state ELSE "open"
  /\ retries' = retries
OpenedOn(s) == state' = state /\ retries' = retries

Opened(s) ==
  /\ cli[s] = "connecting"
  /\ srv[s] # "unused"
  /\ OpenedOn(s)
  /\ IF state = "closed"
     THEN /\ cli' = [cli EXCEPT ![s] = "closing"]
          /\ up' = [up EXCEPT ![s] = IF cut[s] THEN @ ELSE Append(@, Signal("other"))]
     ELSE /\ cli' = [cli EXCEPT ![s] = "open"]
          /\ UNCHANGED up
  /\ UNCHANGED <<ws, token, uptime, backoff, authFailed, consented, out, cause, srv,
                 asks, down, cut, room, history>>

\* The client's end of s reads a protocol message; it reads none once it is closing.
Reads(s, kind) ==
  /\ cli[s] = "open"
  /\ down[s] # <<>>
  /\ Head(down[s]) = Signal(kind)
  /\ down' = [down EXCEPT ![s] = Tail(@)]

\* Each session frame replaces the token.
TakeToken_FirstOnly(s) == token' = IF token = 0 THEN s ELSE token
TakeToken(s) == token' = s

\* The attempts are counted from zero again.
ResetRetries == retries' = 0

\* flushReliableBuffer.
FlushOut_Keeps(s) == Write(s, [i \in DOMAIN out |-> User(out[i])]) /\ out' = out
FlushOut(s) == Write(s, [i \in DOMAIN out |-> User(out[i])]) /\ out' = <<>>

\* A session frame for a connection that waits for one, the first or a resumed one.
SessionOpens(s) ==
  /\ state = IF asks[s] = 0 THEN "connecting" ELSE "reconnecting"
  /\ Reads(s, "session")
  /\ TakeToken(s)
  /\ state' = "open"
  /\ IF asks[s] = 0 THEN retries' = retries ELSE ResetRetries
  /\ uptime' = TRUE
  /\ FlushOut(s)
  /\ joined' = joined \cup {s}
  /\ tries' = 0
  /\ UNCHANGED <<ws, backoff, authFailed, consented, cause, cli, srv, asks, cut, room,
                 next, reliable, overflowed, late>>

\* A session frame on a socket whose connection was closed by an overflow.
SessionIgnored(s) ==
  /\ state = "closed"
  /\ Reads(s, "session")
  /\ TakeToken(s)
  /\ UNCHANGED <<state, ws, retries, uptime, backoff, authFailed, consented, out, cause,
                 cli, srv, asks, up, cut, room, history>>

\* auth_error on a reconnection: give up.
SessionRejected(s) ==
  /\ asks[s] # 0 /\ state = "reconnecting"
  /\ Reads(s, "auth_error")
  /\ CloseClient(s, <<Signal("other")>>)
  /\ EnterClosed("session")
  /\ UNCHANGED <<token, retries, authFailed, consented, srv, asks, room, next, reliable,
                 joined, tries, overflowed, late>>

\* auth_error on the first connection: the close event that follows will say so.
AuthRejected(s) ==
  /\ ~(asks[s] # 0 /\ state = "reconnecting")
  /\ Reads(s, "auth_error")
  /\ authFailed' = TRUE
  /\ UNCHANGED <<state, ws, token, retries, uptime, backoff, consented, out, cause, cli,
                 srv, asks, up, cut, room, history>>

\* startReconnect with retryCount n: another attempt after a delay, or the end.
Schedule(n) ==
  /\ state' = "reconnecting"
  /\ retries' = n + 1
  /\ backoff' = TRUE
  /\ uptime' = FALSE
  /\ UNCHANGED <<out, cause>>

StartReconnect_OffByOne(n) ==
  IF n > MaxRetries THEN EnterClosed("reconnect-failed") /\ retries' = n ELSE Schedule(n)
StartReconnect(n) ==
  IF n >= MaxRetries THEN EnterClosed("reconnect-failed") /\ retries' = n ELSE Schedule(n)

\* What onclose does with close code k, by state.  (Its branch for an open connection
\* without a token is dead: see OpenMeansJoined.)
AfterClose(k) ==
  \/ /\ state = "closed"
     /\ uptime' = FALSE
     /\ UNCHANGED <<state, ws, retries, backoff, out, cause>>
  \/ /\ state = "connecting"
     /\ EnterClosed(IF authFailed THEN "auth" ELSE "initial-connect-failed")
     /\ UNCHANGED retries
  \/ /\ state = "reconnecting"
     /\ StartReconnect(retries)
     /\ ws' = IF state' = "closed" THEN 0 ELSE ws
  \/ /\ state = "open" /\ k = "consented"
     /\ EnterClosed(IF consented THEN "consented" ELSE "server")
     /\ UNCHANGED retries
  \/ /\ state = "open" /\ k # "consented" /\ token # 0
     /\ \E n \in {retries, 0} : StartReconnect(n)
     /\ ws' = 0

\* socket.onclose.  An open end first answers the close frame it has read.
ClientCloseEvent(s) ==
  /\ cli[s] \in {"connecting", "open", "closing"}
  /\ \E k \in CloseCode(s, Readable(s)) :
       /\ AfterClose(k)
       /\ up' = [up EXCEPT ![s] =
                   IF cli[s] = "open" /\ ~cut[s] THEN Append(@, Signal(k)) ELSE @]
  /\ cli' = [cli EXCEPT ![s] = "closed"]
  /\ down' = [down EXCEPT ![s] = <<>>]
  /\ UNCHANGED <<token, authFailed, consented, srv, asks, cut, room, history>>

\* The backoff timer fires: the next websocket asks for the session.
BackoffFires ==
  LET s == Cardinality({x \in Socket : cli[x] # "unused"}) + 1 IN
  /\ backoff
  /\ s \in Socket
  /\ backoff' = FALSE
  /\ ws' = s
  /\ cli' = [cli EXCEPT ![s] = "connecting"]
  /\ asks' = [asks EXCEPT ![s] = token]
  /\ tries' = tries + 1
  /\ UNCHANGED <<state, token, retries, uptime, authFailed, consented, out, cause, srv,
                 up, down, cut, room, next, reliable, lost, joined, overflowed, late>>

\* The minUptime timer fires.
UptimeFires ==
  /\ uptime
  /\ uptime' = FALSE
  /\ retries' = 0
  /\ UNCHANGED <<state, ws, token, backoff, authFailed, consented, out, cause, sockets,
                 room, history>>

-----------------------------------------------------------------------------
(* The client: calls of the application.                                   *)

\* The number of a message is the order of its send().
Sends(isReliable) ==
  /\ next <= MaxMsgs
  /\ next' = next + 1
  /\ reliable' = IF isReliable THEN reliable \cup {next} ELSE reliable

\* send() while open: written at once, behind everything that was buffered.
SendNow(isReliable) ==
  /\ state = "open"
  /\ Sends(isReliable)
  /\ Write(ws, <<User(next)>>)
  /\ UNCHANGED <<client, cli, srv, asks, down, cut, room, joined, tries, overflowed, late>>

\* send() of a reliable message before the session frame: buffered, and a buffer that
\* overflows closes the connection (the websocket is left as it is).
SendBuffered ==
  /\ state \in {"connecting", "reconnecting"}
  /\ Sends(TRUE)
  /\ IF Len(out) + 1 > MaxBuffer
     THEN EnterClosed("buffer-overflow") /\ overflowed' = TRUE
     ELSE /\ out' = Append(out, next)
          /\ UNCHANGED <<state, ws, uptime, backoff, cause, overflowed>>
  /\ UNCHANGED <<token, retries, authFailed, consented, sockets, room, lost, joined,
                 tries, late>>

\* sendLeaveAndClose: the leave message and a close with 4000.
LeaveAndClose(s) ==
  IF cli[s] = "open"
  THEN CloseClient(s, <<Signal("leave"), Signal("consented")>>)
  ELSE CloseClient(s, <<>>)

\* close() while open, and the page's unload handler, which does not set the flag.
AppCloses ==
  /\ state = "open"
  /\ \/ consented' = TRUE
     \/ UNCHANGED consented
  /\ LeaveAndClose(ws)
  /\ UNCHANGED <<state, ws, token, retries, uptime, backoff, authFailed, out, cause, srv,
                 asks, down, room, next, reliable, joined, tries, overflowed, late>>

\* close() before the session frame: the handlers are taken off the websocket, which a
\* closing one would not call to any effect anyway, and it is closed.
AppGivesUp ==
  /\ state \in {"connecting", "reconnecting"}
  /\ IF ws = 0 THEN UNCHANGED <<cli, up, cut, lost>>
               ELSE CloseClient(ws, <<Signal("other")>>)
  /\ EnterClosed("consented")
  /\ UNCHANGED <<token, retries, authFailed, consented, srv, asks, down, room, next,
                 reliable, joined, tries, overflowed, late>>

-----------------------------------------------------------------------------
(* The room, seen from one seat.                                           *)

\* A request reaches the room: it may be one the client has given up since.
Arrives(s) == running /\ srv[s] = "unused" /\ cli[s] # "unused"

\* open(): the seat's jwt, presented once; onAuth is awaited.
RoomOpens(s) ==
  /\ Arrives(s)
  /\ asks[s] = 0
  /\ srv' = [srv EXCEPT ![s] = "open"]
  /\ route' = s
  /\ authing' = authing \cup {s}
  /\ UNCHANGED <<client, cli, asks, up, down, cut, running, present, rsock, rtoken,
                 received, history>>

\* onAuth accepts: the client is tracked and told its session token.
RoomAccepts(s) ==
  /\ s \in authing
  /\ authing' = authing \ {s}
  /\ present' = TRUE
  /\ rsock' = s
  /\ rtoken' = s
  /\ late' = (late \/ srv[s] = "closed" \/ ~running)
  /\ RoomWrites({s}, <<Signal("session")>>)
  /\ UNCHANGED <<client, cli, srv, asks, up, cut, running, route, received, next,
                 reliable, lost, joined, tries, overflowed>>

\* onAuth rejects (4000) or throws (1011).
RoomRejects(s) ==
  /\ s \in authing
  /\ authing' = authing \ {s}
  /\ \E k \in Codes : RoomCloses({s}, <<Signal("auth_error"), Signal(k)>>)
  /\ UNCHANGED <<client, cli, asks, up, cut, running, present, rsock, rtoken, route,
                 received, history>>

\* Does the token asked for open the seat?  Only while the seat has no socket.
Resumable(s) == present /\ rtoken = asks[s] /\ rsock = 0

\* reconnect(): the seat takes the socket and a new token.
RoomResumes(s) ==
  /\ Arrives(s)
  /\ asks[s] # 0
  /\ Resumable(s)
  /\ srv' = [srv EXCEPT ![s] = "open"]
  /\ down' = [down EXCEPT ![s] = IF cut[s] THEN @ ELSE Append(@, Signal("session"))]
  /\ route' = s
  /\ rsock' = s
  /\ rtoken' = s
  /\ UNCHANGED <<client, cli, asks, up, cut, running, authing, present, received, history>>

\* reconnect() for an invalid session: auth_error and 4000, under a client id of its own.
RoomRefuses(s) ==
  /\ Arrives(s)
  /\ asks[s] # 0
  /\ ~Resumable(s)
  /\ srv' = [srv EXCEPT ![s] = "closing"]
  /\ down' = [down EXCEPT ![s] = IF cut[s] THEN @
                                 ELSE @ \o <<Signal("auth_error"), Signal("consented")>>]
  /\ UNCHANGED <<client, cli, asks, up, cut, room, history>>

\* A frame of the client: only the routed socket is listened to, only for a tracked
\* client with a socket; leave closes the tracked socket.
RoomReads(s) ==
  LET f == Head(up[s])
      heard == route = s /\ present /\ rsock # 0
  IN
  /\ srv[s] \in {"open", "closing"}
  /\ up[s] # <<>>
  /\ f.kind \in {"user", "leave"}
  /\ up' = [up EXCEPT ![s] = Tail(@)]
  /\ received' = IF heard /\ f.kind = "user" THEN Append(received, f.n) ELSE received
  /\ lost' = IF f.kind = "user" /\ ~present /\ s \notin authing THEN lost \cup {f.n} ELSE lost
  /\ IF heard /\ f.kind = "leave"
     THEN RoomCloses({rsock}, <<Signal("consented")>>)
     ELSE UNCHANGED <<srv, down>>
  /\ UNCHANGED <<client, cli, asks, cut, running, authing, present, rsock, rtoken, route,
                 next, reliable, joined, tries, overflowed, late>>

\* The seat is given up when its socket closes with 4000; else the socket is taken off
\* it and onDrop decides.
AfterRoomClose_KeepsSocket(k) ==
  IF k = "consented"
  THEN present' = FALSE /\ UNCHANGED rsock
  ELSE UNCHANGED <<present, rsock>>
AfterRoomClose(k) ==
  IF k = "consented"
  THEN present' = FALSE /\ UNCHANGED rsock
  ELSE rsock' = 0 /\ UNCHANGED present

\* The close event at the room's end: what was still to be read is lost, and only the
\* routed socket of a tracked client concerns the seat.
RoomCloseEvent(s) ==
  /\ srv[s] \in {"open", "closing"}
  /\ \E k \in CloseCode(s, up[s]) :
       /\ down' = [down EXCEPT ![s] =
                     IF srv[s] = "open" /\ ~cut[s] THEN Append(@, Signal(k)) ELSE @]
       /\ route' = IF route = s THEN 0 ELSE route
       /\ IF route = s /\ present THEN AfterRoomClose(k) ELSE UNCHANGED <<present, rsock>>
  /\ srv' = [srv EXCEPT ![s] = "closed"]
  /\ up' = [up EXCEPT ![s] = <<>>]
  /\ lost' = lost \cup Messages(up[s])
  /\ UNCHANGED <<client, cli, asks, cut, running, authing, rtoken, received, next,
                 reliable, joined, tries, overflowed, late>>

\* The seat of a dropped client is given up: no onDrop, no allowReconnection in it, the
\* window's timeout, or its buffer overflowing.
WindowEnds ==
  /\ present /\ rsock = 0
  /\ present' = FALSE
  /\ UNCHANGED <<client, sockets, running, authing, rsock, rtoken, route, received, history>>

\* client.disconnect(): eviction closes the socket with 4000.
RoomEvicts ==
  /\ present /\ rsock # 0
  /\ present' = FALSE
  /\ RoomCloses({rsock}, <<Signal("consented")>>)
  /\ UNCHANGED <<client, cli, asks, up, cut, running, authing, rsock, rtoken, route,
                 received, history>>

\* room.stop(): nobody is tracked any more, every socket is closed with 1001.
RoomStops ==
  /\ running
  /\ running' = FALSE
  /\ present' = FALSE
  /\ RoomCloses(Socket, <<Signal("other")>>)
  /\ UNCHANGED <<client, cli, asks, up, cut, authing, rsock, rtoken, route, received,
                 history>>

-----------------------------------------------------------------------------

ClientEvent(s) ==
  \/ Opened(s) \/ SessionOpens(s) \/ SessionIgnored(s) \/ SessionRejected(s)
  \/ AuthRejected(s) \/ ClientCloseEvent(s)
Upgrades(s) == RoomOpens(s) \/ RoomResumes(s) \/ RoomRefuses(s)
AuthSettles(s) == RoomAccepts(s) \/ RoomRejects(s)
RoomEvent(s) == RoomReads(s) \/ RoomCloseEvent(s)
AppActs == (\E r \in BOOLEAN : SendNow(r)) \/ SendBuffered \/ AppCloses \/ AppGivesUp

Next ==
  \/ \E s \in Socket : \/ ClientEvent(s) \/ Upgrades(s) \/ AuthSettles(s)
                       \/ RoomEvent(s) \/ LinkBreaks(s)
  \/ BackoffFires \/ UptimeFires
  \/ AppActs
  \/ WindowEnds \/ RoomEvicts \/ RoomStops

Spec == Init /\ [][Next]_vars

\* Both event loops run, what a live link carries arrives, a stopped room refuses, a
\* broken link is noticed at each end, timers fire, onAuth settles, no window is for ever.
FairSpec ==
  /\ Spec
  /\ \A s \in Socket :
       /\ WF_vars(ClientEvent(s))
       /\ WF_vars(~cut[s] /\ Upgrades(s))
       /\ WF_vars(~running /\ srv[s] = "unused" /\ LinkBreaks(s))
       /\ WF_vars(AuthSettles(s))
       /\ WF_vars(RoomEvent(s))
  /\ WF_vars(BackoffFires)
  /\ WF_vars(WindowEnds)

-----------------------------------------------------------------------------
(* Properties.                                                             *)

\* Across buffering, flushes, drops and reconnections the room's onMessage sees each
\* message at most once, and in the order of the client's send() calls.
InOrder == \A i, j \in DOMAIN received : i < j => received[i] < received[j]

\* As long as the connection lives a reliable message is with the room, in the buffer, on
\* its way, or was lost with the websocket (or the seat) it was written to: neither the
\* flush nor the room drops one that arrived on a live session.
NothingVanishes ==
  state # "closed" =>
    reliable \subseteq Range(received) \cup Range(out) \cup lost
                       \cup UNION {Messages(up[s]) : s \in Socket}

\* "Joined means the same thing on both ends": an open connection has a token, and while
\* its websocket is healthy the room tracks the client on that very socket, routes its
\* frames, and holds the token the client would come back with.
OpenMeansJoined ==
  state = "open" =>
    /\ token # 0
    /\ cli[ws] = "open" /\ srv[ws] = "open" /\ ~cut[ws] =>
         present /\ rsock = ws /\ route = ws /\ rtoken = token

\* Attempts are counted from the last session frame: never more than the cap, and the
\* client gives up only when it has made all of them.
GivesUpAtTheCap ==
  /\ tries <= MaxRetries
  /\ cause = "reconnect-failed" => tries = MaxRetries

\* A connection that waits, for its first session or for a new one, ends up open or
\* closed, unless the model has run out of websockets for it; and one its user sees as
\* closed does not keep its seat: the room gives it up by a leave, a close event or the
\* end of the window.  Excluded are a buffer overflow, after which the websocket stays
\* open, and a record made for a socket that had closed.
Settles ==
  /\ state \in {"connecting", "reconnecting"}
       ~> (state \in {"open", "closed"} \/ cli[MaxSockets] = "closed")
  /\ (state = "closed") ~> (~present \/ overflowed \/ late)

\* As the comment in close() has it, after close() on an open connection "enterClosed will
\* be called from the onclose handler".
CloseIsFinal == [][consented /\ state = "open" => state' \in {"open", "closed"}]_vars
=============================================================================
