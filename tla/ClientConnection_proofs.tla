----------------------- MODULE ClientConnection_proofs -----------------------
(***************************************************************************)
(* Proofs about ClientConnection, for every number of websockets, retries  *)
(* and messages.                                                           *)
(***************************************************************************)
EXTENDS ClientConnection, SequenceTheorems, TLAPS

USE DEF vars, client, sockets, room, history

-----------------------------------------------------------------------------
(* Type correctness.                                                       *)

\* The five kinds of variables of TypeOK.
ClientType ==
  /\ state \in {"connecting", "open", "reconnecting", "closed"}
  /\ ws \in Socket \cup {0}
  /\ token \in Socket \cup {0}
  /\ retries \in 0..MaxRetries
  /\ out \in Seq(1..MaxMsgs)
  /\ cause \in Causes

Flags ==
  /\ uptime \in BOOLEAN
  /\ backoff \in BOOLEAN
  /\ authFailed \in BOOLEAN
  /\ consented \in BOOLEAN
  /\ running \in BOOLEAN
  /\ present \in BOOLEAN
  /\ overflowed \in BOOLEAN
  /\ late \in BOOLEAN

SocketType ==
  /\ cli \in [Socket -> {"unused", "connecting", "open", "closing", "closed"}]
  /\ srv \in [Socket -> {"unused", "open", "closing", "closed"}]
  /\ asks \in [Socket -> Socket \cup {0}]
  /\ up \in [Socket -> Seq(Ups)]
  /\ down \in [Socket -> Seq(Downs)]
  /\ cut \in [Socket -> BOOLEAN]

RoomType ==
  /\ authing \in SUBSET Socket
  /\ rsock \in Socket \cup {0}
  /\ rtoken \in Socket \cup {0}
  /\ route \in Socket \cup {0}
  /\ received \in Seq(1..MaxMsgs)

HistoryType ==
  /\ next \in 1..(MaxMsgs + 1)
  /\ reliable \in SUBSET (1..MaxMsgs)
  /\ lost \in SUBSET (1..MaxMsgs)
  /\ joined \in SUBSET Socket
  /\ tries \in Nat

LEMMA TypeParts ==
  TypeOK <=> ClientType /\ Flags /\ SocketType /\ RoomType /\ HistoryType
BY DEF TypeOK, ClientType, Flags, SocketType, RoomType, HistoryType

LEMMA NextTypeParts ==
  ClientType' /\ Flags' /\ SocketType' /\ RoomType' /\ HistoryType' => TypeOK'
BY DEF TypeOK, ClientType, Flags, SocketType, RoomType, HistoryType

LEMMA SocketsAreNumbers == Socket \subseteq Nat \ {0} /\ 1 \in Socket
BY ClientAssumption DEF Socket

\* User frames carry messages, the others do not count.
LEMMA FrameTypes ==
  /\ \A n \in 1..MaxMsgs : User(n) \in Ups
  /\ \A k \in Codes \cup {"leave"} : Signal(k) \in Ups
  /\ \A k \in Codes \cup {"session", "auth_error"} : Signal(k) \in Downs
BY DEF Ups, Downs

LEMMA MessagesType ==
  ASSUME NEW q \in Seq(Ups)
  PROVE  Messages(q) \subseteq 1..MaxMsgs
<1>1. \A f \in Ups : f.kind = "user" => f.n \in 1..MaxMsgs
  BY DEF Ups, User, Signal, Codes
<1>2. \A i \in DOMAIN q : q[i] \in Ups
  OBVIOUS
<1>3. QED
  BY <1>1, <1>2 DEF Messages

LEMMA WriteType ==
  ASSUME TypeOK, NEW s \in Socket, NEW frames \in Seq(Ups), Write(s, frames)
  PROVE  up' \in [Socket -> Seq(Ups)] /\ lost' \in SUBSET (1..MaxMsgs)
<1>1. up[s] \o frames \in Seq(Ups)
  BY DEF TypeOK
<1>2. QED
  BY <1>1, MessagesType DEF TypeOK, Write

LEMMA CloseClientType ==
  ASSUME TypeOK, NEW s \in Socket, NEW frames \in Seq(Ups), CloseClient(s, frames)
  PROVE  /\ cli' \in [Socket -> {"unused", "connecting", "open", "closing", "closed"}]
         /\ cut' \in [Socket -> BOOLEAN]
         /\ up' \in [Socket -> Seq(Ups)]
         /\ lost' \in SUBSET (1..MaxMsgs)
<1>1. Write(s, frames)
  BY DEF CloseClient
<1>2. QED
  BY <1>1, WriteType DEF TypeOK, CloseClient

\* Without a websocket nothing is written and nothing is closed.
LEMMA WriteNoSocket ==
  ASSUME TypeOK, ws = 0, NEW frames \in Seq(Ups), Write(ws, frames)
  PROVE  up' = up /\ lost' \in SUBSET (1..MaxMsgs)
<1>1. ws \notin Socket
  BY SocketsAreNumbers
<1>2. \A v : [up EXCEPT ![ws] = v] = up
  BY <1>1 DEF TypeOK
<1>3. QED
  BY <1>1, <1>2, MessagesType DEF TypeOK, Write

LEMMA CloseNoSocket ==
  ASSUME TypeOK, ws = 0, NEW frames \in Seq(Ups), CloseClient(ws, frames)
  PROVE  UNCHANGED <<cut, up>> /\ cli' = cli /\ lost' \in SUBSET (1..MaxMsgs)
<1>1. ws \notin Socket
  BY SocketsAreNumbers
<1>2. \A v : [cli EXCEPT ![ws] = v] = cli /\ [cut EXCEPT ![ws] = v] = cut
  BY <1>1 DEF TypeOK
<1>3. QED
  BY <1>2, WriteNoSocket DEF CloseClient

LEMMA RoomWritesType ==
  ASSUME TypeOK, NEW S, NEW frames \in Seq(Downs), RoomWrites(S, frames)
  PROVE  down' \in [Socket -> Seq(Downs)]
<1>1. \A s \in Socket : down[s] \o frames \in Seq(Downs)
  BY DEF TypeOK
<1>2. QED
  BY <1>1 DEF TypeOK, RoomWrites

LEMMA RoomClosesType ==
  ASSUME TypeOK, NEW S, NEW frames \in Seq(Downs), RoomCloses(S, frames)
  PROVE  /\ srv' \in [Socket -> {"unused", "open", "closing", "closed"}]
         /\ down' \in [Socket -> Seq(Downs)]
BY RoomWritesType DEF TypeOK, RoomCloses

LEMMA FlushFramesType ==
  ASSUME TypeOK
  PROVE  [i \in DOMAIN out |-> User(out[i])] \in Seq(Ups)
<1>1. out \in Seq(1..MaxMsgs)
  BY DEF TypeOK
<1>2. /\ DOMAIN out = 1..Len(out)
      /\ Len(out) \in Nat
      /\ \A i \in 1..Len(out) : out[i] \in 1..MaxMsgs
  BY <1>1, ElementOfSeq, LenProperties
<1>3. \A i \in 1..Len(out) : User(out[i]) \in Ups
  BY <1>2, FrameTypes
<1>4. QED
  BY <1>2, <1>3

LEMMA InitType == Init => TypeOK
<1> SUFFICES ASSUME Init PROVE TypeOK
  OBVIOUS
<1>1. <<>> \in Seq(Ups) /\ <<>> \in Seq(Downs) /\ <<>> \in Seq(1..MaxMsgs)
  OBVIOUS
<1>2. ClientType
  BY <1>1, SocketsAreNumbers, ClientAssumption DEF Init, ClientType, Causes
<1>3. SocketType
  BY <1>1 DEF Init, SocketType
<1>4. RoomType
  BY <1>1 DEF Init, RoomType
<1>5. HistoryType
  BY ClientAssumption DEF Init, HistoryType
<1>6. Flags
  BY DEF Init, Flags
<1>7. QED
  BY <1>2, <1>3, <1>4, <1>5, <1>6, TypeParts

\* The client's own state after a close event.
LEMMA AfterCloseType ==
  ASSUME TypeOK, NEW k \in Codes, AfterClose(k),
         UNCHANGED <<token, authFailed, consented>>
  PROVE  ClientType' /\ uptime' \in BOOLEAN /\ backoff' \in BOOLEAN
<1>1. <<>> \in Seq(1..MaxMsgs)
  OBVIOUS
<1>2. ASSUME NEW n \in 0..MaxRetries, StartReconnect(n), ws' \in Socket \cup {0}
      PROVE  ClientType' /\ uptime' \in BOOLEAN /\ backoff' \in BOOLEAN
  <2>1. CASE n >= MaxRetries
    BY <1>1, <1>2, <2>1 DEF TypeOK, ClientType, StartReconnect, EnterClosed, Causes
  <2>2. CASE ~(n >= MaxRetries)
    <3>1. n + 1 \in 0..MaxRetries
      BY <2>2, ClientAssumption
    <3>2. QED
      BY <1>2, <2>2, <3>1 DEF TypeOK, ClientType, StartReconnect, Schedule
  <2>3. QED
    BY <2>1, <2>2
<1>3. 0 \in 0..MaxRetries /\ retries \in 0..MaxRetries
  BY ClientAssumption DEF TypeOK
<1>4. CASE /\ state = "reconnecting"
           /\ StartReconnect(retries)
           /\ ws' = IF state' = "closed" THEN 0 ELSE ws
  BY <1>2, <1>3, <1>4 DEF TypeOK
<1>5. CASE /\ state = "open" /\ k # "consented" /\ token # 0
           /\ \E n \in {retries, 0} : StartReconnect(n)
           /\ ws' = 0
  BY <1>2, <1>3, <1>5
<1>6. CASE EnterClosed(IF authFailed THEN "auth" ELSE "initial-connect-failed") /\ UNCHANGED retries
  BY <1>1, <1>6 DEF TypeOK, ClientType, EnterClosed, Causes
<1>7. CASE EnterClosed(IF consented THEN "consented" ELSE "server") /\ UNCHANGED retries
  BY <1>1, <1>7 DEF TypeOK, ClientType, EnterClosed, Causes
<1>8. CASE state = "closed" /\ uptime' = FALSE /\ UNCHANGED <<state, ws, retries, backoff, out, cause>>
  BY <1>8 DEF TypeOK, ClientType
<1>9. QED
  BY <1>4, <1>5, <1>6, <1>7, <1>8 DEF AfterClose

\* A step of one event keeps the flags: each is left alone or set to a truth value.
LEMMA ClientEventFlags ==
  ASSUME TypeOK, NEW s \in Socket, ClientEvent(s)
  PROVE  Flags'
<1>1. CASE ClientCloseEvent(s)
  <2>1. uptime' \in BOOLEAN /\ backoff' \in BOOLEAN
    BY <1>1, AfterCloseType DEF ClientCloseEvent, CloseCode
  <2>2. QED
    BY <1>1, <2>1 DEF TypeOK, Flags, ClientCloseEvent
<1>2. CASE ~ClientCloseEvent(s)
  BY <1>2, ZenonT(30) DEF TypeOK, Flags, ClientEvent, Opened, SessionOpens, SessionIgnored,
              SessionRejected, AuthRejected, EnterClosed
<1>3. QED
  BY <1>1, <1>2

LEMMA ClientEventType ==
  ASSUME TypeOK, NEW s \in Socket, ClientEvent(s)
  PROVE  TypeOK'
<1> USE TypeParts, NextTypeParts
<1>0. Flags'
  BY ClientEventFlags
<1>1. CASE Opened(s)
  <2>1. Append(up[s], Signal("other")) \in Seq(Ups)
    BY FrameTypes DEF SocketType, Codes
  <2>2. up' \in [Socket -> Seq(Ups)]
    BY <1>1, <2>1 DEF Opened, SocketType
  <2>3. SocketType'
    BY <1>1, <2>2 DEF Opened, SocketType
  <2>4. ClientType'
    BY <1>1 DEF Opened, OpenedOn, ClientType
  <2>5. QED
    BY <1>0, <1>1, <2>3, <2>4 DEF Opened, RoomType, HistoryType
<1>2. ASSUME NEW k, Reads(s, k) PROVE down' \in [Socket -> Seq(Downs)]
  <2>1. down[s] \in Seq(Downs) /\ down[s] # <<>>
    BY <1>2 DEF Reads, SocketType
  <2>2. Tail(down[s]) \in Seq(Downs)
    BY <2>1
  <2>3. QED
    BY <1>2, <2>2 DEF Reads, SocketType
<1>3. CASE SessionOpens(s)
  <2>1. down' \in [Socket -> Seq(Downs)]
    BY <1>2, <1>3 DEF SessionOpens
  <2>2. up' \in [Socket -> Seq(Ups)] /\ lost' \in SUBSET (1..MaxMsgs)
    BY <1>3, WriteType, FlushFramesType DEF SessionOpens, FlushOut
  <2>3. SocketType'
    BY <1>3, <2>1, <2>2 DEF SessionOpens, SocketType
  <2>4. retries' \in 0..MaxRetries
    BY <1>3, ClientAssumption DEF SessionOpens, ResetRetries, ClientType
  <2>5. out' \in Seq(1..MaxMsgs)
    BY <1>3 DEF SessionOpens, FlushOut
  <2>6. ClientType'
    BY <1>3, <2>4, <2>5 DEF SessionOpens, TakeToken, ClientType
  <2>7. RoomType'
    BY <1>3 DEF SessionOpens, RoomType
  <2>8. HistoryType'
    BY <1>3, <2>2 DEF SessionOpens, HistoryType
  <2>9. QED
    BY <1>0, <2>3, <2>6, <2>7, <2>8
<1>4. CASE SessionIgnored(s)
  <2>1. SocketType'
    BY <1>2, <1>4 DEF SessionIgnored, SocketType
  <2>2. QED
    BY <1>0, <1>4, <2>1 DEF SessionIgnored, TakeToken, ClientType, RoomType, HistoryType
<1>5. CASE SessionRejected(s)
  <2>1. <<Signal("other")>> \in Seq(Ups)
    BY FrameTypes DEF Codes
  <2>2. /\ cli' \in [Socket -> {"unused", "connecting", "open", "closing", "closed"}]
        /\ cut' \in [Socket -> BOOLEAN]
        /\ up' \in [Socket -> Seq(Ups)]
        /\ lost' \in SUBSET (1..MaxMsgs)
    BY <1>5, <2>1, CloseClientType DEF SessionRejected
  <2>3. down' \in [Socket -> Seq(Downs)]
    BY <1>2, <1>5 DEF SessionRejected
  <2>4. SocketType'
    BY <1>5, <2>2, <2>3 DEF SessionRejected, SocketType
  <2>5. <<>> \in Seq(1..MaxMsgs)
    OBVIOUS
  <2>6. ClientType'
    BY <1>5, <2>5 DEF SessionRejected, EnterClosed, Causes, ClientType
  <2>7. QED
    BY <1>0, <1>5, <2>2, <2>4, <2>6 DEF SessionRejected, RoomType, HistoryType
<1>6. CASE AuthRejected(s)
  <2>1. SocketType'
    BY <1>2, <1>6 DEF AuthRejected, SocketType
  <2>2. QED
    BY <1>0, <1>6, <2>1 DEF AuthRejected, ClientType, RoomType, HistoryType
<1>7. CASE ClientCloseEvent(s)
  <2>1. PICK k \in Codes :
          /\ AfterClose(k)
          /\ up' = [up EXCEPT ![s] =
                      IF cli[s] = "open" /\ ~cut[s] THEN Append(@, Signal(k)) ELSE @]
    BY <1>7 DEF ClientCloseEvent, CloseCode
  <2>2. ClientType'
    BY <1>7, <2>1, AfterCloseType DEF ClientCloseEvent
  <2>3. Append(up[s], Signal(k)) \in Seq(Ups)
    BY FrameTypes DEF SocketType
  <2>4. up' \in [Socket -> Seq(Ups)]
    BY <2>1, <2>3 DEF SocketType
  <2>5. down' \in [Socket -> Seq(Downs)]
    BY <1>7 DEF ClientCloseEvent, SocketType
  <2>6. SocketType'
    BY <1>7, <2>4, <2>5 DEF ClientCloseEvent, SocketType
  <2>7. QED
    BY <1>0, <1>7, <2>2, <2>6 DEF ClientCloseEvent, RoomType, HistoryType
<1>8. QED
  BY <1>1, <1>3, <1>4, <1>5, <1>6, <1>7 DEF ClientEvent

LEMMA AppActsType ==
  ASSUME TypeOK, AppActs
  PROVE  TypeOK'
<1> USE TypeParts, NextTypeParts
<1>1. Flags'
  BY DEF TypeOK, Flags, AppActs, SendNow, SendBuffered, AppCloses, AppGivesUp, EnterClosed
<1>2. ASSUME NEW r \in BOOLEAN, Sends(r)
      PROVE  /\ next \in 1..MaxMsgs
             /\ next' \in 1..(MaxMsgs + 1)
             /\ reliable' \in SUBSET (1..MaxMsgs)
  BY <1>2, ClientAssumption DEF Sends, HistoryType
<1>3. ASSUME NEW r \in BOOLEAN, SendNow(r) PROVE TypeOK'
  <2>1. next \in 1..MaxMsgs
    BY <1>2, <1>3 DEF SendNow
  <2>2. <<User(next)>> \in Seq(Ups)
    BY <2>1, FrameTypes
  <2>3. CASE ws = 0
    <3>1. up' = up /\ lost' \in SUBSET (1..MaxMsgs)
      BY <1>3, <2>2, <2>3, WriteNoSocket DEF SendNow
    <3>2. SocketType' /\ ClientType' /\ RoomType'
      BY <1>3, <3>1 DEF SendNow, SocketType, ClientType, RoomType
    <3>3. HistoryType'
      BY <1>2, <1>3, <3>1 DEF SendNow, HistoryType
    <3>4. QED
      BY <1>1, <3>2, <3>3
  <2>4. CASE ws \in Socket
    <3>1. up' \in [Socket -> Seq(Ups)] /\ lost' \in SUBSET (1..MaxMsgs)
      BY <1>3, <2>2, <2>4, WriteType DEF SendNow
    <3>2. SocketType' /\ ClientType' /\ RoomType'
      BY <1>3, <3>1 DEF SendNow, SocketType, ClientType, RoomType
    <3>3. HistoryType'
      BY <1>2, <1>3, <3>1 DEF SendNow, HistoryType
    <3>4. QED
      BY <1>1, <3>2, <3>3
  <2>5. QED
    BY <2>3, <2>4 DEF ClientType
<1>4. <<>> \in Seq(1..MaxMsgs)
  OBVIOUS
<1>5. CASE SendBuffered
  <2>0. next \in 1..MaxMsgs
    BY <1>2, <1>5 DEF SendBuffered
  <2>1. Append(out, next) \in Seq(1..MaxMsgs)
    BY <2>0 DEF ClientType
  <2>2. ClientType'
    BY <1>4, <1>5, <2>1 DEF SendBuffered, EnterClosed, ClientType, Causes
  <2>3. SocketType' /\ RoomType'
    BY <1>5 DEF SendBuffered, SocketType, RoomType
  <2>4. HistoryType'
    BY <1>2, <1>5 DEF SendBuffered, HistoryType
  <2>5. QED
    BY <1>1, <2>2, <2>3, <2>4
<1>6. /\ <<Signal("leave"), Signal("consented")>> \in Seq(Ups)
      /\ <<Signal("other")>> \in Seq(Ups)
      /\ <<>> \in Seq(Ups)
  BY FrameTypes DEF Codes
<1>7. CASE AppCloses
  <2>1. PICK frames \in Seq(Ups) : CloseClient(ws, frames)
    BY <1>6, <1>7 DEF AppCloses, LeaveAndClose
  <2>2. ClientType' /\ RoomType'
    BY <1>7 DEF AppCloses, ClientType, RoomType
  <2>3. SocketType' /\ HistoryType'
    BY <1>7, <2>1, CloseClientType, CloseNoSocket
       DEF AppCloses, ClientType, SocketType, HistoryType
  <2>4. QED
    BY <1>1, <2>2, <2>3
<1>8. CASE AppGivesUp
  <2>1. ClientType' /\ RoomType'
    BY <1>4, <1>8 DEF AppGivesUp, EnterClosed, ClientType, RoomType, Causes
  <2>2. SocketType' /\ HistoryType'
    BY <1>6, <1>8, CloseClientType DEF AppGivesUp, ClientType, SocketType, HistoryType
  <2>3. QED
    BY <1>1, <2>1, <2>2
<1>9. QED
  BY <1>3, <1>5, <1>7, <1>8 DEF AppActs

LEMMA RoomType1 ==
  ASSUME TypeOK, NEW s \in Socket,
         Upgrades(s) \/ AuthSettles(s) \/ LinkBreaks(s)
  PROVE  TypeOK'
<1> USE TypeParts, NextTypeParts
<1>1. Flags'
  <2>1. CASE Upgrades(s)
    BY <2>1 DEF Flags, Upgrades, RoomOpens, RoomResumes, RoomRefuses
  <2>2. CASE AuthSettles(s)
    BY <2>2 DEF Flags, AuthSettles, RoomAccepts, RoomRejects
  <2>3. CASE LinkBreaks(s)
    BY <2>3 DEF Flags, LinkBreaks
  <2>4. QED
    BY <2>1, <2>2, <2>3
<1>2. /\ Signal("session") \in Downs
      /\ <<Signal("session")>> \in Seq(Downs)
      /\ <<Signal("auth_error"), Signal("consented")>> \in Seq(Downs)
      /\ \A k \in Codes : <<Signal("auth_error"), Signal(k)>> \in Seq(Downs)
  BY FrameTypes DEF Codes
<1>3. ClientType'
  BY DEF ClientType, Upgrades, AuthSettles, RoomOpens, RoomResumes, RoomRefuses,
         RoomAccepts, RoomRejects, LinkBreaks
<1>4. CASE RoomOpens(s)
  BY <1>1, <1>3, <1>4 DEF RoomOpens, SocketType, RoomType, HistoryType
<1>5. CASE RoomResumes(s)
  <2>1. Append(down[s], Signal("session")) \in Seq(Downs)
    BY <1>2 DEF SocketType
  <2>2. SocketType'
    BY <1>5, <2>1 DEF RoomResumes, SocketType
  <2>3. QED
    BY <1>1, <1>3, <1>5, <2>2 DEF RoomResumes, RoomType, HistoryType
<1>6. CASE RoomRefuses(s)
  <2>1. down[s] \o <<Signal("auth_error"), Signal("consented")>> \in Seq(Downs)
    BY <1>2 DEF SocketType
  <2>2. SocketType'
    BY <1>6, <2>1 DEF RoomRefuses, SocketType
  <2>3. QED
    BY <1>1, <1>3, <1>6, <2>2 DEF RoomRefuses, RoomType, HistoryType
<1>7. CASE RoomAccepts(s)
  <2>1. SocketType'
    BY <1>2, <1>7, RoomWritesType DEF RoomAccepts, SocketType
  <2>2. RoomType' /\ HistoryType'
    BY <1>7 DEF RoomAccepts, RoomType, HistoryType, Flags
  <2>3. QED
    BY <1>1, <1>3, <2>1, <2>2
<1>8. CASE RoomRejects(s)
  <2>1. SocketType'
    BY <1>2, <1>8, RoomClosesType DEF RoomRejects, SocketType
  <2>2. QED
    BY <1>1, <1>3, <1>8, <2>1 DEF RoomRejects, RoomType, HistoryType
<1>9. CASE LinkBreaks(s)
  BY <1>1, <1>3, <1>9 DEF LinkBreaks, SocketType, RoomType, HistoryType
<1>10. QED
  BY <1>4, <1>5, <1>6, <1>7, <1>8, <1>9 DEF Upgrades, AuthSettles

LEMMA RoomEventType ==
  ASSUME TypeOK, NEW s \in Socket, RoomEvent(s)
  PROVE  TypeOK'
<1> USE TypeParts, NextTypeParts
<1>1. Flags'
  BY DEF TypeOK, Flags, RoomEvent, RoomReads, RoomCloseEvent, AfterRoomClose
<1>2. ClientType'
  BY DEF ClientType, RoomEvent, RoomReads, RoomCloseEvent
<1>3. CASE RoomReads(s)
  <2>1. up[s] \in Seq(Ups) /\ up[s] # <<>>
    BY <1>3 DEF RoomReads, SocketType
  <2>2. Tail(up[s]) \in Seq(Ups) /\ Head(up[s]) \in Ups
    BY <2>1
  <2>3. Head(up[s]).kind = "user" => Head(up[s]).n \in 1..MaxMsgs
    BY <2>2 DEF Ups, User, Signal, Codes
  <2>4. up' \in [Socket -> Seq(Ups)]
    BY <1>3, <2>2 DEF RoomReads, SocketType
  <2>5. <<Signal("consented")>> \in Seq(Downs)
    BY FrameTypes DEF Codes
  <2>6. /\ srv' \in [Socket -> {"unused", "open", "closing", "closed"}]
        /\ down' \in [Socket -> Seq(Downs)]
    BY <1>3, <2>5, RoomClosesType DEF RoomReads, SocketType
  <2>7. SocketType'
    BY <1>3, <2>4, <2>6 DEF RoomReads, SocketType
  <2>8. Head(up[s]).kind = "user" => Append(received, Head(up[s]).n) \in Seq(1..MaxMsgs)
    BY <2>3 DEF RoomType
  <2>9. received' \in Seq(1..MaxMsgs)
    BY <1>3, <2>8 DEF RoomReads, RoomType
  <2>10. RoomType'
    BY <1>3, <2>9 DEF RoomReads, RoomType
  <2>11. lost' \in SUBSET (1..MaxMsgs)
    BY <1>3, <2>3 DEF RoomReads, HistoryType
  <2>12. HistoryType'
    BY <1>3, <2>11 DEF RoomReads, HistoryType
  <2>13. QED
    BY <1>1, <1>2, <2>7, <2>10, <2>12
<1>4. CASE RoomCloseEvent(s)
  <2>1. \A k \in Codes : Append(down[s], Signal(k)) \in Seq(Downs)
    BY FrameTypes DEF SocketType
  <2>2. down' \in [Socket -> Seq(Downs)]
    BY <1>4, <2>1 DEF RoomCloseEvent, CloseCode, SocketType
  <2>3. <<>> \in Seq(Ups)
    OBVIOUS
  <2>4. SocketType'
    BY <1>4, <2>2, <2>3 DEF RoomCloseEvent, SocketType
  <2>5. RoomType'
    BY <1>4 DEF RoomCloseEvent, AfterRoomClose, RoomType
  <2>6. Messages(up[s]) \subseteq 1..MaxMsgs
    BY MessagesType DEF SocketType
  <2>7. HistoryType'
    BY <1>4, <2>6 DEF RoomCloseEvent, HistoryType
  <2>8. QED
    BY <1>1, <1>2, <2>4, <2>5, <2>7
<1>5. QED
  BY <1>3, <1>4 DEF RoomEvent

LEMMA OtherStepsType ==
  ASSUME TypeOK,
         BackoffFires \/ UptimeFires \/ WindowEnds \/ RoomEvicts \/ RoomStops
  PROVE  TypeOK'
<1> USE TypeParts, NextTypeParts
<1>1. Flags'
  BY DEF TypeOK, Flags, BackoffFires, UptimeFires, WindowEnds, RoomEvicts, RoomStops
<1>2. CASE BackoffFires
  <2>1. tries + 1 \in Nat
    BY DEF HistoryType
  <2>2. QED
    BY <1>1, <1>2, <2>1 DEF BackoffFires, ClientType, SocketType, RoomType, HistoryType
<1>3. CASE UptimeFires
  <2>1. 0 \in 0..MaxRetries
    BY ClientAssumption
  <2>2. QED
    BY <1>1, <1>3, <2>1 DEF UptimeFires, ClientType, SocketType, RoomType, HistoryType
<1>4. CASE WindowEnds
  BY <1>1, <1>4 DEF WindowEnds, ClientType, SocketType, RoomType, HistoryType
<1>5. \A k \in Codes : <<Signal(k)>> \in Seq(Downs)
  BY FrameTypes
<1>6. CASE RoomEvicts
  <2>1. SocketType'
    BY <1>5, <1>6, RoomClosesType DEF RoomEvicts, SocketType, Codes
  <2>2. QED
    BY <1>1, <1>6, <2>1 DEF RoomEvicts, ClientType, RoomType, HistoryType
<1>7. CASE RoomStops
  <2>1. SocketType'
    BY <1>5, <1>7, RoomClosesType DEF RoomStops, SocketType, Codes
  <2>2. QED
    BY <1>1, <1>7, <2>1 DEF RoomStops, ClientType, RoomType, HistoryType
<1>8. QED
  BY <1>2, <1>3, <1>4, <1>6, <1>7

LEMMA NextType == TypeOK /\ [Next]_vars => TypeOK'
<1> SUFFICES ASSUME TypeOK, [Next]_vars PROVE TypeOK'
  OBVIOUS
<1>1. CASE UNCHANGED vars
  <2>1. ClientType' /\ Flags'
    BY <1>1, TypeParts DEF ClientType, Flags
  <2>2. SocketType' /\ RoomType' /\ HistoryType'
    BY <1>1, TypeParts DEF SocketType, RoomType, HistoryType
  <2>3. QED
    BY <2>1, <2>2, NextTypeParts
<1>2. ASSUME NEW s \in Socket, ClientEvent(s) PROVE TypeOK'
  BY <1>2, ClientEventType
<1>3. ASSUME NEW s \in Socket, Upgrades(s) \/ AuthSettles(s) \/ LinkBreaks(s) PROVE TypeOK'
  BY <1>3, RoomType1
<1>4. ASSUME NEW s \in Socket, RoomEvent(s) PROVE TypeOK'
  BY <1>4, RoomEventType
<1>5. CASE BackoffFires \/ UptimeFires \/ WindowEnds \/ RoomEvicts \/ RoomStops
  BY <1>5, OtherStepsType
<1>6. CASE AppActs
  BY <1>6, AppActsType
<1>7. QED
  BY <1>1, <1>2, <1>3, <1>4, <1>5, <1>6 DEF Next

\* Every variable of the client, its websockets and its seat keeps its type; in particular
\* retryCount never exceeds the cap.
THEOREM ClientTypeCorrect == Spec => []TypeOK
BY InitType, NextType, PTL DEF Spec

-----------------------------------------------------------------------------
(* Reconnection attempts.                                                  *)

\* retryCount and the attempts really made, by state; an attempt under way is the only
\* websocket that lives, and a pending backoff timer means that there is none.
Alive(s) == cli[s] \in {"connecting", "open", "closing"}

CapInv ==
  /\ state \in {"connecting", "open"} => retries = 0 /\ tries = 0
  /\ state = "reconnecting" => retries = IF backoff THEN tries + 1 ELSE tries
  /\ tries <= MaxRetries
  /\ cause = "reconnect-failed" => tries = MaxRetries
  /\ cause = "none" <=> state # "closed"
  /\ backoff => state = "reconnecting" /\ \A s \in Socket : ~Alive(s)
  /\ uptime => state = "open"
  /\ state # "closed" => \A s \in Socket : Alive(s) => s = ws

\* The variables CapInv is about.
capVars == <<state, ws, retries, uptime, backoff, cause, cli, tries>>

LEMMA InitCap == Init => CapInv
BY ClientAssumption DEF Init, CapInv, Alive

LEMMA SchedulesWithinCap ==
  ASSUME TypeOK, NEW n \in 0..MaxRetries, StartReconnect(n)
  PROVE  \/ /\ state' = "reconnecting" /\ cause' = cause /\ backoff' = TRUE
            /\ uptime' = FALSE
            /\ retries' = n + 1 /\ n < MaxRetries
         \/ /\ state' = "closed" /\ cause' = "reconnect-failed" /\ backoff' = FALSE
            /\ uptime' = FALSE
            /\ n = MaxRetries
<1>1. CASE n >= MaxRetries
  BY <1>1, ClientAssumption DEF StartReconnect, EnterClosed
<1>2. CASE ~(n >= MaxRetries)
  BY <1>2, ClientAssumption DEF StartReconnect, Schedule
<1>3. QED
  BY <1>1, <1>2

LEMMA CloseEventCap ==
  ASSUME TypeOK, CapInv, NEW s \in Socket, ClientCloseEvent(s)
  PROVE  CapInv'
<1>1. PICK k \in Codes : AfterClose(k)
  BY DEF ClientCloseEvent, CloseCode
<1>2. /\ Alive(s)
      /\ \A x \in Socket : Alive(x)' => Alive(x) /\ x # s
      /\ tries' = tries
  BY DEF ClientCloseEvent, Alive, TypeOK
<1>3. backoff = FALSE
  BY <1>2 DEF CapInv, TypeOK
<1>4. CASE state = "closed"
  BY <1>1, <1>2, <1>3, <1>4 DEF AfterClose, CapInv
<1>5. \A x \in Socket : state # "closed" => ~Alive(x)'
  BY <1>2 DEF CapInv
<1>6. /\ 0 \in 0..MaxRetries /\ retries \in 0..MaxRetries
      /\ tries \in Nat
  BY ClientAssumption DEF TypeOK
<1>7. CASE state = "reconnecting"
  <2>1. StartReconnect(retries) /\ retries = tries
    BY <1>1, <1>3, <1>7 DEF AfterClose, CapInv
  <2>2. QED
    BY <1>2, <1>5, <1>6, <1>7, <2>1, SchedulesWithinCap, ClientAssumption DEF CapInv
<1>8. CASE state = "open" /\ k # "consented"
  <2>1. PICK n \in {retries, 0} : StartReconnect(n)
    BY <1>1, <1>8 DEF AfterClose
  <2>2. n = 0 /\ tries = 0
    BY <1>8, <2>1 DEF CapInv
  <2>3. QED
    BY <1>2, <1>5, <1>6, <1>8, <2>1, <2>2, SchedulesWithinCap, ClientAssumption DEF CapInv
<1>9. CASE state = "connecting" \/ (state = "open" /\ k = "consented")
  BY <1>1, <1>2, <1>5, <1>9 DEF AfterClose, EnterClosed, CapInv
<1>10. QED
  BY <1>4, <1>7, <1>8, <1>9 DEF TypeOK

LEMMA ClientEventCap ==
  ASSUME TypeOK, CapInv, NEW s \in Socket, ClientEvent(s)
  PROVE  CapInv'
<1>1. CASE Opened(s)
  <2>1. \A x \in Socket : Alive(x)' => Alive(x)
    BY <1>1 DEF Opened, Alive, TypeOK
  <2>2. QED
    BY <1>1, <2>1 DEF Opened, OpenedOn, CapInv
<1>2. CASE SessionOpens(s)
  <2>1. backoff = FALSE
    BY <1>2 DEF SessionOpens, Reads, CapInv, Alive, TypeOK
  <2>2. retries' = 0 /\ tries' = 0 /\ 0 <= MaxRetries
    BY <1>2, ClientAssumption DEF SessionOpens, ResetRetries, CapInv
  <2>3. \A x \in Socket : Alive(x)' => Alive(x)
    BY <1>2 DEF SessionOpens, Alive
  <2>4. QED
    BY <1>2, <2>1, <2>2, <2>3, ClientAssumption DEF SessionOpens, CapInv
<1>3. CASE SessionIgnored(s) \/ AuthRejected(s)
  BY <1>3 DEF SessionIgnored, AuthRejected, CapInv, Alive
<1>4. CASE SessionRejected(s)
  BY <1>4 DEF SessionRejected, EnterClosed, CapInv
<1>5. CASE ClientCloseEvent(s)
  BY <1>5, CloseEventCap
<1>6. QED
  BY <1>1, <1>2, <1>3, <1>4, <1>5 DEF ClientEvent

LEMMA AppActsCap ==
  ASSUME TypeOK, CapInv, AppActs
  PROVE  CapInv'
<1>1. ASSUME NEW r \in BOOLEAN, SendNow(r) PROVE CapInv'
  BY <1>1 DEF SendNow, CapInv, Alive
<1>2. CASE SendBuffered
  BY <1>2 DEF SendBuffered, EnterClosed, CapInv, Alive
<1>3. CASE AppCloses
  <2>1. \A x \in Socket : Alive(x)' => Alive(x)
    BY <1>3 DEF AppCloses, LeaveAndClose, CloseClient, Alive, TypeOK
  <2>2. QED
    BY <1>3, <2>1 DEF AppCloses, CapInv
<1>4. CASE AppGivesUp
  BY <1>4 DEF AppGivesUp, EnterClosed, CapInv
<1>5. QED
  BY <1>1, <1>2, <1>3, <1>4 DEF AppActs

LEMMA TimersCap ==
  ASSUME TypeOK, CapInv, BackoffFires \/ UptimeFires
  PROVE  CapInv'
<1>1. CASE BackoffFires
  <2>1. PICK s \in Socket :
          /\ ws' = s
          /\ cli' = [cli EXCEPT ![s] = "connecting"]
    BY <1>1 DEF BackoffFires
  <2>2. \A x \in Socket : Alive(x)' => x = s
    BY <1>1, <2>1 DEF BackoffFires, CapInv, Alive, TypeOK
  <2>3. /\ state' = "reconnecting" /\ backoff' = FALSE
        /\ retries' = tries' /\ tries' <= MaxRetries
    BY <1>1 DEF BackoffFires, CapInv, TypeOK
  <2>4. QED
    BY <1>1, <2>1, <2>2, <2>3 DEF BackoffFires, CapInv
<1>2. CASE UptimeFires
  BY <1>2 DEF UptimeFires, CapInv, Alive
<1>3. QED
  BY <1>1, <1>2

LEMMA NextCap == TypeOK /\ CapInv /\ [Next]_vars => CapInv'
<1> SUFFICES ASSUME TypeOK, CapInv, [Next]_vars PROVE CapInv'
  OBVIOUS
<1>1. ASSUME UNCHANGED capVars PROVE CapInv'
  BY <1>1 DEF capVars, CapInv, Alive
<1>2. CASE UNCHANGED vars
  BY <1>1, <1>2 DEF capVars
<1>3. ASSUME NEW s \in Socket,
             Upgrades(s) \/ AuthSettles(s) \/ RoomEvent(s) \/ LinkBreaks(s)
      PROVE  UNCHANGED capVars
  BY <1>3 DEF capVars, Upgrades, AuthSettles, RoomEvent, RoomOpens, RoomResumes, RoomRefuses,
              RoomAccepts, RoomRejects, RoomReads, RoomCloseEvent, LinkBreaks
<1>4. CASE WindowEnds \/ RoomEvicts \/ RoomStops
  BY <1>1, <1>4 DEF capVars, WindowEnds, RoomEvicts, RoomStops
<1>5. CASE Next
  BY <1>1, <1>3, <1>4, <1>5, ClientEventCap, AppActsCap, TimersCap DEF Next
<1>6. QED
  BY <1>2, <1>5

\* The client never makes more attempts than the cap since its last session frame, and it
\* reports "reconnect-failed" only when it has made them all, however websockets open,
\* fail and close and whatever timer fires in between.
THEOREM CapRespected == Spec => []GivesUpAtTheCap
<1>1. CapInv => GivesUpAtTheCap
  BY DEF CapInv, GivesUpAtTheCap
<1>2. QED
  BY <1>1, InitType, NextType, InitCap, NextCap, PTL DEF Spec

-----------------------------------------------------------------------------
(* Order of the messages.                                                  *)

Below(A, B) == \A a \in A, b \in B : a < b

\* A sequence of numbers, and the user frames of a sequence of frames, are increasing.
Increasing(q) == \A i, j \in DOMAIN q : i < j => q[i] < q[j]
Sorted(q) ==
  \A i, j \in DOMAIN q : i < j /\ q[i].kind = "user" /\ q[j].kind = "user" => q[i].n < q[j].n

\* What lies ahead of a message lies ahead of it on every leg of its way: with the room,
\* on the routed websocket, in the buffer, not yet sent.
OrderInv ==
  /\ Increasing(received) /\ Increasing(out)
  /\ \A s \in Socket : Sorted(up[s])
  /\ Below(Range(received), {next}) /\ Below(Range(out), {next})
  /\ \A s \in Socket : Below(Messages(up[s]), {next})
  /\ \A s \in Socket : Below(Messages(up[s]), Range(out))
  /\ Below(Range(received), Range(out))
  /\ \A s \in Socket : route = s => Below(Range(received), Messages(up[s]))
  /\ \A s \in Socket : srv[s] = "unused" => Messages(up[s]) = {} /\ cli[s] # "open"
  /\ state = "open" => out = <<>>

LEMMA MessagesConcat ==
  ASSUME NEW q \in Seq(Ups), NEW r \in Seq(Ups)
  PROVE  Messages(q \o r) = Messages(q) \cup Messages(r)
<1>1. /\ DOMAIN (q \o r) = 1..(Len(q) + Len(r))
      /\ DOMAIN q = 1..Len(q) /\ DOMAIN r = 1..Len(r)
      /\ Len(q) \in Nat /\ Len(r) \in Nat
      /\ \A i \in 1..(Len(q) + Len(r)) :
           (q \o r)[i] = IF i <= Len(q) THEN q[i] ELSE r[i - Len(q)]
  BY ConcatProperties, LenProperties
<1>2. ASSUME NEW m \in Messages(q \o r) PROVE m \in Messages(q) \cup Messages(r)
  <2>1. PICK i \in 1..(Len(q) + Len(r)) : (q \o r)[i].kind = "user" /\ m = (q \o r)[i].n
    BY <1>1 DEF Messages
  <2>2. CASE i <= Len(q)
    BY <1>1, <2>1, <2>2 DEF Messages
  <2>3. CASE ~(i <= Len(q))
    <3>1. i - Len(q) \in 1..Len(r)
      BY <1>1, <2>3
    <3>2. QED
      BY <1>1, <2>1, <2>3, <3>1 DEF Messages
  <2>4. QED
    BY <2>2, <2>3
<1>3. ASSUME NEW m \in Messages(q) PROVE m \in Messages(q \o r)
  <2>1. PICK i \in 1..Len(q) : q[i].kind = "user" /\ m = q[i].n
    BY <1>1 DEF Messages
  <2>2. i \in 1..(Len(q) + Len(r)) /\ (q \o r)[i] = q[i]
    BY <1>1
  <2>3. QED
    BY <1>1, <2>1, <2>2 DEF Messages
<1>4. ASSUME NEW m \in Messages(r) PROVE m \in Messages(q \o r)
  <2>1. PICK i \in 1..Len(r) : r[i].kind = "user" /\ m = r[i].n
    BY <1>1 DEF Messages
  <2>2. /\ i + Len(q) \in 1..(Len(q) + Len(r))
        /\ ~(i + Len(q) <= Len(q)) /\ (i + Len(q)) - Len(q) = i
    BY <1>1
  <2>3. (q \o r)[i + Len(q)] = r[i]
    BY <1>1, <2>2
  <2>4. QED
    BY <1>1, <2>1, <2>2, <2>3 DEF Messages
<1>5. QED
  BY <1>2, <1>3, <1>4

LEMMA SortedConcat ==
  ASSUME NEW q \in Seq(Ups), NEW r \in Seq(Ups), Sorted(q), Sorted(r),
         Below(Messages(q), Messages(r))
  PROVE  Sorted(q \o r)
<1>1. /\ DOMAIN (q \o r) = 1..(Len(q) + Len(r))
      /\ DOMAIN q = 1..Len(q) /\ DOMAIN r = 1..Len(r)
      /\ Len(q) \in Nat /\ Len(r) \in Nat
      /\ \A i \in 1..(Len(q) + Len(r)) :
           (q \o r)[i] = IF i <= Len(q) THEN q[i] ELSE r[i - Len(q)]
  BY ConcatProperties, LenProperties
<1>2. SUFFICES ASSUME NEW i \in 1..(Len(q) + Len(r)), NEW j \in 1..(Len(q) + Len(r)),
                      i < j, (q \o r)[i].kind = "user", (q \o r)[j].kind = "user"
               PROVE  (q \o r)[i].n < (q \o r)[j].n
  BY <1>1 DEF Sorted
<1>3. CASE j <= Len(q)
  BY <1>1, <1>2, <1>3 DEF Sorted
<1>4. CASE i <= Len(q) /\ ~(j <= Len(q))
  <2>1. j - Len(q) \in 1..Len(r)
    BY <1>1, <1>4
  <2>2. (q \o r)[i] = q[i] /\ (q \o r)[j] = r[j - Len(q)]
    BY <1>1, <1>4
  <2>3. i \in DOMAIN q /\ j - Len(q) \in DOMAIN r
    BY <1>1, <1>4, <2>1
  <2>4. q[i].n \in Messages(q)
    BY <1>2, <2>2, <2>3 DEF Messages
  <2>5. r[j - Len(q)].n \in Messages(r)
    BY <1>2, <2>2, <2>3 DEF Messages
  <2>6. QED
    BY <2>2, <2>4, <2>5 DEF Below
<1>5. CASE ~(i <= Len(q))
  <2>1. /\ i - Len(q) \in 1..Len(r) /\ j - Len(q) \in 1..Len(r)
        /\ i - Len(q) < j - Len(q) /\ ~(j <= Len(q))
    BY <1>1, <1>2, <1>5
  <2>2. (q \o r)[i] = r[i - Len(q)] /\ (q \o r)[j] = r[j - Len(q)]
    BY <1>1, <1>5, <2>1
  <2>3. QED
    BY <1>1, <1>2, <2>1, <2>2 DEF Sorted
<1>6. QED
  BY <1>3, <1>4, <1>5

LEMMA SortedTail ==
  ASSUME NEW q \in Seq(Ups), q # <<>>, Sorted(q)
  PROVE  /\ Sorted(Tail(q))
         /\ Messages(Tail(q)) \subseteq Messages(q)
         /\ Head(q).kind = "user" =>
              Head(q).n \in Messages(q) /\ Below({Head(q).n}, Messages(Tail(q)))
<1>1. /\ Tail(q) \in Seq(Ups) /\ Head(q) = q[1]
      /\ Len(q) \in Nat \ {0} /\ DOMAIN q = 1..Len(q)
      /\ DOMAIN Tail(q) = 1..(Len(q) - 1)
      /\ \A i \in 1..(Len(q) - 1) : Tail(q)[i] = q[i + 1]
  <2>1. Len(q) \in Nat \ {0}
    BY EmptySeq, LenProperties
  <2>2. QED
    BY <2>1, HeadTailProperties, LenProperties
<1>2. \A i \in 1..(Len(q) - 1) : i + 1 \in 1..Len(q) /\ 1 < i + 1
  BY <1>1
<1>3. Sorted(Tail(q))
  BY <1>1, <1>2 DEF Sorted
<1>4. Messages(Tail(q)) \subseteq Messages(q)
  BY <1>1, <1>2 DEF Messages
<1>5. ASSUME Head(q).kind = "user"
      PROVE  Head(q).n \in Messages(q) /\ Below({Head(q).n}, Messages(Tail(q)))
  <2>1. 1 \in DOMAIN q
    BY <1>1
  <2>2. Head(q).n \in Messages(q)
    BY <1>1, <1>5, <2>1 DEF Messages
  <2>3. ASSUME NEW m \in Messages(Tail(q)) PROVE Head(q).n < m
    <3>1. PICK i \in 1..(Len(q) - 1) : Tail(q)[i].kind = "user" /\ m = Tail(q)[i].n
      BY <1>1 DEF Messages
    <3>2. QED
      BY <1>1, <1>2, <1>5, <2>1, <3>1 DEF Sorted
  <2>4. QED
    BY <2>2, <2>3 DEF Below
<1>6. QED
  BY <1>3, <1>4, <1>5

\* One more number at the end.
LEMMA IncreasingAppend ==
  ASSUME NEW q \in Seq(1..MaxMsgs), Increasing(q), NEW n \in 1..MaxMsgs, Below(Range(q), {n})
  PROVE  Increasing(Append(q, n)) /\ Range(Append(q, n)) = Range(q) \cup {n}
<1>1. /\ Len(q) \in Nat /\ DOMAIN q = 1..Len(q)
      /\ DOMAIN Append(q, n) = 1..(Len(q) + 1)
      /\ \A i \in 1..Len(q) : Append(q, n)[i] = q[i]
      /\ Append(q, n)[Len(q) + 1] = n
  BY AppendProperties, LenProperties
<1>2. \A i \in 1..(Len(q) + 1) : i \in 1..Len(q) \/ i = Len(q) + 1
  BY <1>1
<1>3. Range(Append(q, n)) = Range(q) \cup {n}
  BY <1>1, <1>2 DEF Range
<1>4. \A i \in 1..Len(q) : q[i] < n
  BY <1>1 DEF Below, Range
<1>5. \A i, j \in 1..(Len(q) + 1) : i < j => i \in 1..Len(q)
  BY <1>1
<1>6. QED
  BY <1>1, <1>2, <1>3, <1>4, <1>5 DEF Increasing

\* No websocket carries new messages, no used one is taken for unused, and a websocket
\* gets routed only when it is new.
QuietOnWire ==
  /\ \A s \in Socket : Sorted(up'[s]) /\ Messages(up'[s]) \subseteq Messages(up[s])
  /\ \A s \in Socket : route' = s => route = s \/ srv[s] = "unused"
  /\ \A s \in Socket :
       srv'[s] = "unused" => srv[s] = "unused" /\ (cli'[s] = "open" => cli[s] = "open")

LEMMA QuietStep ==
  ASSUME TypeOK, OrderInv, QuietOnWire, UNCHANGED <<received, next>>,
         out' = out \/ out' = <<>>, state' = "open" => out' = <<>>
  PROVE  OrderInv'
<1>1. Range(out') \subseteq Range(out) /\ Increasing(out')
  BY DEF OrderInv, Increasing, Range
<1>2. \A s \in Socket : Messages(up'[s]) \subseteq Messages(up[s])
  BY DEF QuietOnWire
<1>3. Below(Range(out'), {next'}) /\ Below(Range(received'), Range(out'))
  BY <1>1 DEF OrderInv, Below
<1>4. \A s \in Socket : Below(Messages(up'[s]), {next'}) /\ Below(Messages(up'[s]), Range(out'))
  BY <1>1, <1>2 DEF OrderInv, Below
<1>5. ASSUME NEW s \in Socket, route' = s PROVE Below(Range(received'), Messages(up'[s]))
  <2>1. CASE route = s
    BY <1>2, <2>1 DEF OrderInv, Below
  <2>2. CASE srv[s] = "unused"
    BY <1>2, <2>2 DEF OrderInv, Below
  <2>3. QED
    BY <1>5, <2>1, <2>2 DEF QuietOnWire
<1>6. \A s \in Socket : srv'[s] = "unused" => Messages(up'[s]) = {} /\ cli'[s] # "open"
  BY <1>2 DEF QuietOnWire, OrderInv
<1>7. QED
  BY <1>1, <1>3, <1>4, <1>5, <1>6 DEF OrderInv, QuietOnWire

\* Frames without messages behind those of one websocket.
LEMMA QuietFrames ==
  ASSUME TypeOK, OrderInv, NEW s \in Socket, NEW k \in Codes
  PROVE  /\ Sorted(Append(up[s], Signal(k)))
         /\ Messages(Append(up[s], Signal(k))) = Messages(up[s])
         /\ Sorted(up[s] \o <<Signal("leave"), Signal(k)>>)
         /\ Messages(up[s] \o <<Signal("leave"), Signal(k)>>) = Messages(up[s])
<1>1. up[s] \in Seq(Ups) /\ Sorted(up[s])
  BY DEF TypeOK, OrderInv
<1>2. ASSUME NEW r \in Seq(Ups), \A i \in DOMAIN r : r[i].kind # "user"
      PROVE  Sorted(up[s] \o r) /\ Messages(up[s] \o r) = Messages(up[s])
  <2>0. Sorted(r)
    BY <1>2 DEF Sorted
  <2>1. Messages(r) = {}
    <3>1. {j \in DOMAIN r : r[j].kind = "user"} = {}
      BY <1>2
    <3>2. QED
      BY <3>1 DEF Messages
  <2>2. Messages(up[s] \o r) = Messages(up[s])
    <3>1. Messages(up[s] \o r) = Messages(up[s]) \cup Messages(r)
      BY <1>1, MessagesConcat
    <3>2. QED
      BY <2>1, <3>1
  <2>3. Below(Messages(up[s]), Messages(r))
    BY <2>1 DEF Below
  <2>4. QED
    BY <1>1, <1>2, <2>0, <2>2, <2>3, SortedConcat
<1>3. /\ <<Signal(k)>> \in Seq(Ups) /\ <<Signal("leave"), Signal(k)>> \in Seq(Ups)
      /\ Signal(k).kind # "user" /\ Signal("leave").kind # "user"
      /\ Signal(k) \in Ups
  BY FrameTypes DEF Codes, Signal
<1>4. Append(up[s], Signal(k)) = up[s] \o <<Signal(k)>>
  BY <1>1, <1>3
<1>5. \A i \in DOMAIN <<Signal(k)>> : <<Signal(k)>>[i].kind # "user"
  BY <1>3
<1>6. \A i \in DOMAIN <<Signal("leave"), Signal(k)>> :
        <<Signal("leave"), Signal(k)>>[i].kind # "user"
  <2>1. DOMAIN <<Signal("leave"), Signal(k)>> = {1, 2}
    OBVIOUS
  <2>2. QED
    BY <1>3, <2>1
<1>7. Sorted(Append(up[s], Signal(k))) /\ Messages(Append(up[s], Signal(k))) = Messages(up[s])
  <2>1. /\ Sorted(up[s] \o <<Signal(k)>>)
        /\ Messages(up[s] \o <<Signal(k)>>) = Messages(up[s])
    BY <1>2, <1>3, <1>5
  <2>2. QED
    BY <1>4, <2>1
<1>8. /\ Sorted(up[s] \o <<Signal("leave"), Signal(k)>>)
      /\ Messages(up[s] \o <<Signal("leave"), Signal(k)>>) = Messages(up[s])
  BY <1>2, <1>3, <1>6
<1>9. QED
  BY <1>7, <1>8

\* socket.close(), with or without a leave message, is quiet.
LEMMA CloseClientQuiet ==
  ASSUME TypeOK, OrderInv, NEW s \in Socket, UNCHANGED <<srv, route>>,
         NEW frames \in {<<>>, <<Signal("other")>>, <<Signal("leave"), Signal("consented")>>},
         CloseClient(s, frames)
  PROVE  QuietOnWire
<1>1. /\ Append(up[s], Signal("other")) = up[s] \o <<Signal("other")>>
      /\ up[s] \o <<>> = up[s]
  <2>1. up[s] \in Seq(Ups) /\ Signal("other") \in Ups
    BY FrameTypes DEF TypeOK, Codes
  <2>2. QED
    BY <2>1
<1>2. Sorted(up[s] \o frames) /\ Messages(up[s] \o frames) = Messages(up[s])
  BY <1>1, QuietFrames DEF OrderInv, Codes
<1>3. up' = up \/ up' = [up EXCEPT ![s] = up[s] \o frames]
  BY DEF CloseClient, Write
<1>4. \A x \in Socket : cli'[x] = "open" => cli[x] = "open"
  BY DEF CloseClient, TypeOK
<1>5. QED
  BY <1>2, <1>3, <1>4 DEF QuietOnWire, OrderInv, TypeOK

LEMMA InitOrder == Init => OrderInv
<1> SUFFICES ASSUME Init PROVE OrderInv
  OBVIOUS
<1>1. Messages(<<>>) = {} /\ Sorted(<<>>) /\ Increasing(<<>>)
  BY DEF Messages, Sorted, Increasing
<1>2. Range(received) = {} /\ Range(out) = {}
  BY DEF Init, Range
<1>3. \A s \in Socket : Messages(up[s]) = {} /\ Sorted(up[s]) /\ cli[s] # "open"
  BY <1>1 DEF Init
<1>4. QED
  BY <1>1, <1>2, <1>3 DEF Init, OrderInv, Below

\* Nothing is written to the room.
LEMMA NothingWritten ==
  ASSUME TypeOK, OrderInv, up' = up,
         \A s \in Socket : route' = s => route = s \/ srv[s] = "unused",
         \A s \in Socket :
           srv'[s] = "unused" => srv[s] = "unused" /\ (cli'[s] = "open" => cli[s] = "open")
  PROVE  QuietOnWire
BY DEF QuietOnWire, OrderInv

\* The room's steps that read no frame, and the links.
LEMMA RoomQuiet ==
  ASSUME TypeOK, OrderInv, NEW s \in Socket,
         \/ Upgrades(s) \/ AuthSettles(s) \/ RoomCloseEvent(s) \/ LinkBreaks(s)
         \/ WindowEnds \/ RoomEvicts \/ RoomStops
  PROVE  OrderInv'
<1>1. UNCHANGED <<state, out, cli, received, next>>
  BY DEF Upgrades, AuthSettles, RoomOpens, RoomResumes, RoomRefuses, RoomAccepts,
         RoomRejects, RoomCloseEvent, LinkBreaks, WindowEnds, RoomEvicts, RoomStops
<1>2. \A x \in Socket : route' = x => route = x \/ srv[x] = "unused"
  BY SocketsAreNumbers DEF Upgrades, AuthSettles, RoomOpens, RoomResumes, RoomRefuses,
         RoomAccepts, RoomRejects, RoomCloseEvent, LinkBreaks, WindowEnds, RoomEvicts,
         RoomStops, Arrives
<1>3. \A x \in Socket : srv'[x] = "unused" => srv[x] = "unused"
  BY DEF TypeOK, Upgrades, AuthSettles, RoomOpens, RoomResumes, RoomRefuses, RoomAccepts,
         RoomRejects, RoomCloseEvent, LinkBreaks, WindowEnds, RoomEvicts, RoomStops,
         RoomCloses
<1>4. CASE up' = up
  <2>1. QuietOnWire
    BY <1>1, <1>2, <1>3, <1>4, NothingWritten
  <2>2. QED
    BY <1>1, <2>1, QuietStep DEF OrderInv
<1>5. CASE RoomCloseEvent(s)
  <2>1. up' = [up EXCEPT ![s] = <<>>]
    BY <1>5 DEF RoomCloseEvent
  <2>2. Sorted(<<>>) /\ Messages(<<>>) = {}
    BY DEF Sorted, Messages
  <2>3. \A x \in Socket : Sorted(up'[x]) /\ Messages(up'[x]) \subseteq Messages(up[x])
    BY <2>1, <2>2 DEF TypeOK, OrderInv
  <2>4. QuietOnWire
    BY <1>1, <1>2, <1>3, <2>3 DEF QuietOnWire
  <2>5. QED
    BY <1>1, <2>4, QuietStep DEF OrderInv
<1>6. QED
  BY <1>4, <1>5 DEF Upgrades, AuthSettles, RoomOpens, RoomResumes, RoomRefuses, RoomAccepts,
         RoomRejects, LinkBreaks, WindowEnds, RoomEvicts, RoomStops

\* A close event leaves the buffer or empties it, and opens nothing.
LEMMA AfterCloseOut ==
  ASSUME TypeOK, OrderInv, NEW k \in Codes, AfterClose(k)
  PROVE  (out' = out \/ out' = <<>>) /\ state' # "open"
BY DEF AfterClose, StartReconnect, Schedule, EnterClosed, TypeOK

\* The client's steps that write no message.
LEMMA ClientQuiet ==
  ASSUME TypeOK, OrderInv, NEW s \in Socket,
         \/ Opened(s) \/ SessionIgnored(s) \/ SessionRejected(s) \/ AuthRejected(s)
         \/ ClientCloseEvent(s) \/ BackoffFires \/ UptimeFires
         \/ AppCloses \/ AppGivesUp
  PROVE  OrderInv'
<1>1. UNCHANGED <<srv, route, received, next>>
  BY DEF Opened, SessionIgnored, SessionRejected, AuthRejected, ClientCloseEvent,
         BackoffFires, UptimeFires, AppCloses, AppGivesUp
<1>2. CASE Opened(s)
  <2>1. Sorted(Append(up[s], Signal("other")))
        /\ Messages(Append(up[s], Signal("other"))) = Messages(up[s])
    BY QuietFrames DEF Codes
  <2>2. \A x \in Socket : Sorted(up'[x]) /\ Messages(up'[x]) \subseteq Messages(up[x])
    BY <1>2, <2>1 DEF Opened, OrderInv, TypeOK
  <2>3. \A x \in Socket : cli'[x] = "open" => cli[x] = "open" \/ srv[x] # "unused"
    BY <1>2 DEF Opened, TypeOK
  <2>4. QuietOnWire
    BY <1>1, <2>2, <2>3 DEF QuietOnWire
  <2>5. state' = state /\ out' = out
    BY <1>2 DEF Opened, OpenedOn
  <2>6. QED
    BY <1>1, <2>4, <2>5, QuietStep DEF OrderInv
<1>3. CASE SessionIgnored(s) \/ AuthRejected(s) \/ UptimeFires
  <2>1. UNCHANGED <<state, out, up, cli>>
    BY <1>3 DEF SessionIgnored, AuthRejected, UptimeFires
  <2>2. QuietOnWire
    BY <1>1, <2>1, NothingWritten
  <2>3. QED
    BY <1>1, <2>1, <2>2, QuietStep DEF OrderInv
<1>4. CASE SessionRejected(s)
  <2>1. QuietOnWire
    BY <1>1, <1>4, CloseClientQuiet DEF SessionRejected
  <2>2. QED
    BY <1>1, <1>4, <2>1, QuietStep DEF SessionRejected, EnterClosed
<1>5. CASE ClientCloseEvent(s)
  <2>1. PICK k \in Codes :
          /\ AfterClose(k)
          /\ up' = [up EXCEPT ![s] =
                      IF cli[s] = "open" /\ ~cut[s] THEN Append(@, Signal(k)) ELSE @]
    BY <1>5 DEF ClientCloseEvent, CloseCode
  <2>2. Sorted(Append(up[s], Signal(k))) /\ Messages(Append(up[s], Signal(k))) = Messages(up[s])
    BY QuietFrames
  <2>3. \A x \in Socket : Sorted(up'[x]) /\ Messages(up'[x]) \subseteq Messages(up[x])
    BY <2>1, <2>2 DEF OrderInv, TypeOK
  <2>4. \A x \in Socket : cli'[x] = "open" => cli[x] = "open"
    BY <1>5 DEF ClientCloseEvent, TypeOK
  <2>5. QuietOnWire
    BY <1>1, <2>3, <2>4 DEF QuietOnWire
  <2>6. QED
    BY <1>1, <2>1, <2>5, AfterCloseOut, QuietStep
<1>6. CASE BackoffFires
  <2>1. \A x \in Socket : cli'[x] = "open" => cli[x] = "open"
    BY <1>6 DEF BackoffFires, TypeOK
  <2>2. UNCHANGED <<state, out, up>>
    BY <1>6 DEF BackoffFires
  <2>3. QuietOnWire
    BY <1>1, <2>1, <2>2, NothingWritten
  <2>4. QED
    BY <1>1, <2>2, <2>3, QuietStep DEF OrderInv
<1>7. <<>> \in Seq(Ups) /\ <<Signal("other")>> \in Seq(Ups)
      /\ <<Signal("leave"), Signal("consented")>> \in Seq(Ups)
  BY FrameTypes DEF Codes
<1>8. ASSUME NEW frames \in {<<>>, <<Signal("other")>>, <<Signal("leave"), Signal("consented")>>},
             CloseClient(ws, frames)
      PROVE  QuietOnWire
  <2>1. CASE ws \in Socket
    BY <1>1, <1>8, <2>1, CloseClientQuiet
  <2>2. CASE ws = 0
    <3>1. up' = up /\ cli' = cli
      BY <1>7, <1>8, <2>2, CloseNoSocket
    <3>2. QED
      BY <1>1, <3>1, NothingWritten
  <2>3. QED
    BY <2>1, <2>2 DEF TypeOK
<1>9. CASE AppCloses
  <2>1. QuietOnWire
    BY <1>8, <1>9 DEF AppCloses, LeaveAndClose
  <2>2. UNCHANGED <<state, out>>
    BY <1>9 DEF AppCloses
  <2>3. QED
    BY <1>1, <2>1, <2>2, QuietStep DEF OrderInv
<1>10. CASE AppGivesUp
  <2>1. CASE ws = 0
    <3>1. UNCHANGED <<cli, up>>
      BY <1>10, <2>1 DEF AppGivesUp
    <3>2. QuietOnWire
      BY <1>1, <3>1, NothingWritten
    <3>3. QED
      BY <1>1, <1>10, <3>2, QuietStep DEF AppGivesUp, EnterClosed
  <2>2. CASE ws # 0
    <3>1. QuietOnWire
      BY <1>8, <1>10, <2>2 DEF AppGivesUp
    <3>2. QED
      BY <1>1, <1>10, <3>1, QuietStep DEF AppGivesUp, EnterClosed
  <2>3. QED
    BY <2>1, <2>2
<1>11. QED
  BY <1>2, <1>3, <1>4, <1>5, <1>6, <1>9, <1>10

\* What is written behind everything else, and is newer than all of it, keeps the order.
LEMMA WriteOrder ==
  ASSUME TypeOK, OrderInv, NEW s \in Socket, NEW frames \in Seq(Ups), Write(s, frames),
         Sorted(frames), Below(Messages(up[s]), Messages(frames)),
         Below(Range(received), Messages(frames))
  PROVE  /\ \A x \in Socket : Sorted(up'[x])
         /\ \A x \in Socket : Messages(up'[x]) \subseteq Messages(up[x]) \cup Messages(frames)
         /\ \A x \in Socket : route = x => Below(Range(received), Messages(up'[x]))
         /\ \A x \in Socket : srv[x] = "unused" => up'[x] = up[x]
<1>1. up[s] \in Seq(Ups) /\ Sorted(up[s])
  BY DEF TypeOK, OrderInv
<1>2. /\ Sorted(up[s] \o frames)
      /\ Messages(up[s] \o frames) = Messages(up[s]) \cup Messages(frames)
  BY <1>1, SortedConcat, MessagesConcat
<1>3. up' = up \/ (up' = [up EXCEPT ![s] = up[s] \o frames] /\ cli[s] = "open")
  BY DEF Write, Carries
<1>4. \A x \in Socket : Sorted(up'[x])
  BY <1>2, <1>3 DEF OrderInv, TypeOK
<1>5. \A x \in Socket : Messages(up'[x]) \subseteq Messages(up[x]) \cup Messages(frames)
  BY <1>2, <1>3 DEF TypeOK
<1>6. \A x \in Socket : route = x => Below(Range(received), Messages(up'[x]))
  BY <1>5 DEF OrderInv, Below
<1>7. \A x \in Socket : srv[x] = "unused" => up'[x] = up[x]
  BY <1>3 DEF OrderInv, TypeOK
<1>8. QED
  BY <1>4, <1>5, <1>6, <1>7

\* The flush: the frames of the buffer, in its order.
LEMMA FlushFramesOrder ==
  ASSUME TypeOK, OrderInv, NEW frames, frames = [i \in DOMAIN out |-> User(out[i])]
  PROVE  Sorted(frames) /\ Messages(frames) = Range(out)
<1>1. DOMAIN frames = DOMAIN out /\ \A i \in DOMAIN out : frames[i].kind = "user" /\ frames[i].n = out[i]
  BY DEF User
<1>2. Sorted(frames)
  BY <1>1 DEF Sorted, OrderInv, Increasing
<1>3. Messages(frames) = {out[i] : i \in DOMAIN out}
  BY <1>1 DEF Messages
<1>4. QED
  BY <1>2, <1>3 DEF Range

LEMMA SessionOpensOrder ==
  ASSUME TypeOK, OrderInv, NEW s \in Socket, SessionOpens(s)
  PROVE  OrderInv'
<1> DEFINE frames == [i \in DOMAIN out |-> User(out[i])]
<1>1. UNCHANGED <<cli, srv, route, received, next>> /\ out' = <<>> /\ Write(s, frames)
  BY DEF SessionOpens, FlushOut
<1>2. Sorted(frames) /\ Messages(frames) = Range(out) /\ frames \in Seq(Ups)
  BY FlushFramesOrder, FlushFramesType
<1> HIDE DEF frames
<1>3. /\ \A x \in Socket : Sorted(up'[x])
      /\ \A x \in Socket : Messages(up'[x]) \subseteq Messages(up[x]) \cup Range(out)
      /\ \A x \in Socket : route = x => Below(Range(received), Messages(up'[x]))
      /\ \A x \in Socket : srv[x] = "unused" => up'[x] = up[x]
  BY <1>1, <1>2, WriteOrder DEF OrderInv
<1>4. Range(out') = {} /\ Increasing(out')
  BY <1>1 DEF Range, Increasing
<1>5. \A x \in Socket : Below(Messages(up'[x]), {next'})
  BY <1>1, <1>3 DEF OrderInv, Below
<1>6. Below(Range(out'), {next'}) /\ Below(Range(received'), Range(out'))
  BY <1>4 DEF Below
<1>7. \A x \in Socket : Below(Messages(up'[x]), Range(out'))
  BY <1>4 DEF Below
<1>8. QED
  BY <1>1, <1>3, <1>4, <1>5, <1>6, <1>7 DEF OrderInv

\* The numbers of messages are numbers.
LEMMA RangesAreNumbers ==
  ASSUME TypeOK
  PROVE  Range(received) \subseteq Nat /\ Range(out) \subseteq Nat
<1>1. \A q \in Seq(1..MaxMsgs) : \A i \in DOMAIN q : q[i] \in Nat
  <2>1. 1..MaxMsgs \subseteq Nat
    BY ClientAssumption
  <2>2. \A q \in Seq(1..MaxMsgs) : \A i \in 1..Len(q) : q[i] \in 1..MaxMsgs
    BY ElementOfSeq
  <2>3. QED
    BY <2>1, <2>2, LenProperties
<1>2. QED
  BY <1>1 DEF TypeOK, Range

LEMMA SendNowOrder ==
  ASSUME TypeOK, OrderInv, NEW r \in BOOLEAN, SendNow(r)
  PROVE  OrderInv'
<1>1. /\ UNCHANGED <<state, out, cli, srv, route, received>> /\ Write(ws, <<User(next)>>)
      /\ out = <<>> /\ next \in 1..MaxMsgs /\ next' = next + 1
  BY ClientAssumption DEF SendNow, Sends, OrderInv, TypeOK
<1>2. <<User(next)>> \in Seq(Ups)
  BY <1>1, FrameTypes
<1>3. Sorted(<<User(next)>>) /\ Messages(<<User(next)>>) = {next}
  <2>1. DOMAIN <<User(next)>> = {1} /\ <<User(next)>>[1].kind = "user" /\ <<User(next)>>[1].n = next
    BY DEF User
  <2>2. Sorted(<<User(next)>>)
    BY <2>1 DEF Sorted
  <2>3. QED
    BY <2>1, <2>2 DEF Messages
<1>4. /\ \A x \in Socket : Sorted(up'[x])
      /\ \A x \in Socket : Messages(up'[x]) \subseteq Messages(up[x]) \cup {next}
      /\ \A x \in Socket : route = x => Below(Range(received), Messages(up'[x]))
      /\ \A x \in Socket : srv[x] = "unused" => up'[x] = up[x]
  <2>1. CASE ws \in Socket
    <3>1. Below(Messages(up[ws]), {next}) /\ Below(Range(received), {next})
      BY <2>1 DEF OrderInv
    <3>2. QED
      BY <1>1, <1>2, <1>3, <2>1, <3>1, WriteOrder
  <2>2. CASE ws = 0
    <3>1. up' = up
      BY <1>1, <1>2, <2>2, WriteNoSocket
    <3>2. QED
      BY <3>1 DEF OrderInv
  <2>3. QED
    BY <2>1, <2>2 DEF TypeOK
<1>5. Range(out') = {} /\ Increasing(out')
  BY <1>1 DEF Range, Increasing
<1>6. \A m \in Nat : m < next => m < next'
  BY <1>1
<1>7. Range(received) \subseteq Nat /\ \A x \in Socket : Messages(up[x]) \subseteq Nat
  <2>1. Range(received) \subseteq Nat
    BY RangesAreNumbers
  <2>2. \A x \in Socket : Messages(up[x]) \subseteq Nat
    BY MessagesType DEF TypeOK
  <2>3. QED
    BY <2>1, <2>2
<1>8. Below(Range(received'), {next'})
  BY <1>1, <1>6, <1>7 DEF OrderInv, Below
<1>9. \A x \in Socket : Below(Messages(up'[x]), {next'})
  <2>1. next < next'
    BY <1>1
  <2>2. QED
    BY <1>4, <1>6, <1>7, <2>1 DEF OrderInv, Below
<1>10. /\ Below(Range(out'), {next'}) /\ Below(Range(received'), Range(out'))
       /\ \A x \in Socket : Below(Messages(up'[x]), Range(out'))
  BY <1>5 DEF Below
<1>11. QED
  BY <1>1, <1>4, <1>5, <1>8, <1>9, <1>10 DEF OrderInv

LEMMA SendBufferedOrder ==
  ASSUME TypeOK, OrderInv, SendBuffered
  PROVE  OrderInv'
<1>1. /\ UNCHANGED <<up, cli, srv, route, received>>
      /\ next \in 1..MaxMsgs /\ next' = next + 1
      /\ state # "open"
  BY ClientAssumption DEF SendBuffered, Sends, TypeOK
<1>2. \A m \in Nat : m < next => m < next'
  BY <1>1
<1>3. /\ Range(received) \subseteq Nat /\ Range(out) \subseteq Nat
      /\ \A x \in Socket : Messages(up[x]) \subseteq Nat
  <2>1. Range(received) \subseteq Nat /\ Range(out) \subseteq Nat
    BY RangesAreNumbers
  <2>2. \A x \in Socket : Messages(up[x]) \subseteq Nat
    BY MessagesType DEF TypeOK
  <2>3. QED
    BY <2>1, <2>2
<1>4. Below(Range(received'), {next'})
  BY <1>1, <1>2, <1>3 DEF OrderInv, Below
<1>5. \A x \in Socket : Below(Messages(up'[x]), {next'})
  BY <1>1, <1>2, <1>3 DEF OrderInv, Below
<1>6. CASE out' = <<>>
  <2>1. Range(out') = {} /\ Increasing(out')
    BY <1>6 DEF Range, Increasing
  <2>2. /\ Below(Range(out'), {next'}) /\ Below(Range(received'), Range(out'))
        /\ \A x \in Socket : Below(Messages(up'[x]), Range(out'))
    BY <2>1 DEF Below
  <2>3. QED
    BY <1>1, <1>4, <1>5, <1>6, <2>1, <2>2 DEF OrderInv
<1>7. CASE out' = Append(out, next) /\ state' = state
  <2>1. Increasing(out') /\ Range(out') = Range(out) \cup {next}
    BY <1>1, <1>7, IncreasingAppend DEF OrderInv, TypeOK
  <2>2. next < next'
    BY <1>1
  <2>3. Below(Range(out'), {next'})
    BY <1>2, <1>3, <2>1, <2>2 DEF OrderInv, Below
  <2>4. /\ Below(Range(received'), Range(out'))
        /\ \A x \in Socket : Below(Messages(up'[x]), Range(out'))
    BY <1>1, <2>1 DEF OrderInv, Below
  <2>5. QED
    BY <1>1, <1>4, <1>5, <1>7, <2>1, <2>3, <2>4 DEF OrderInv
<1>8. QED
  BY <1>6, <1>7 DEF SendBuffered, EnterClosed

\* The room reads the oldest frame of the routed websocket.
LEMMA RoomReadsOrder ==
  ASSUME TypeOK, OrderInv, NEW s \in Socket, RoomReads(s)
  PROVE  OrderInv'
<1> DEFINE f == Head(up[s])
<1>1. /\ up[s] \in Seq(Ups) /\ up[s] # <<>> /\ srv[s] # "unused"
      /\ up' = [up EXCEPT ![s] = Tail(up[s])]
      /\ UNCHANGED <<state, out, cli, route, next>>
  BY DEF RoomReads, TypeOK
<1>2. \A x \in Socket : srv'[x] = "unused" => srv[x] = "unused"
  BY DEF RoomReads, RoomCloses, TypeOK
<1>3. /\ Sorted(Tail(up[s]))
      /\ Messages(Tail(up[s])) \subseteq Messages(up[s])
      /\ f.kind = "user" => f.n \in Messages(up[s]) /\ Below({f.n}, Messages(Tail(up[s])))
  BY <1>1, SortedTail DEF OrderInv
<1>4. \A x \in Socket : Sorted(up'[x]) /\ Messages(up'[x]) \subseteq Messages(up[x])
  BY <1>1, <1>3 DEF OrderInv, TypeOK
<1>5. QuietOnWire
  BY <1>1, <1>2, <1>4 DEF QuietOnWire
<1>6. CASE received' = received
  BY <1>1, <1>5, <1>6, QuietStep DEF OrderInv
<1>7. CASE received' = Append(received, f.n) /\ route = s /\ f.kind = "user"
  <2>1. f.n \in 1..MaxMsgs /\ f.n \in Messages(up[s])
    BY <1>1, <1>3, <1>7, MessagesType
  <2>2. Below(Range(received), {f.n})
    BY <1>7, <2>1 DEF OrderInv, Below
  <2>3. Increasing(received') /\ Range(received') = Range(received) \cup {f.n}
    BY <1>7, <2>1, <2>2, IncreasingAppend DEF OrderInv, TypeOK
  <2>4. Below(Range(received'), {next'}) /\ Below(Range(received'), Range(out'))
    BY <1>1, <2>1, <2>3 DEF OrderInv, Below
  <2>5. Below(Range(received'), Messages(up'[s]))
    <3>1. up'[s] = Tail(up[s])
      BY <1>1 DEF TypeOK
    <3>2. QED
      BY <1>3, <1>7, <2>3, <3>1 DEF OrderInv, Below
  <2>6. \A x \in Socket : route' = x => Below(Range(received'), Messages(up'[x]))
    BY <1>1, <1>7, <2>5
  <2>7. \A x \in Socket : Below(Messages(up'[x]), {next'}) /\ Below(Messages(up'[x]), Range(out'))
    BY <1>1, <1>4 DEF OrderInv, Below
  <2>8. \A x \in Socket : srv'[x] = "unused" => Messages(up'[x]) = {} /\ cli'[x] # "open"
    BY <1>1, <1>2, <1>4 DEF OrderInv
  <2>9. QED
    BY <1>1, <1>4, <2>3, <2>4, <2>6, <2>7, <2>8 DEF OrderInv
<1>8. QED
  BY <1>6, <1>7 DEF RoomReads

LEMMA NextOrder == TypeOK /\ OrderInv /\ [Next]_vars => OrderInv'
<1> SUFFICES ASSUME TypeOK, OrderInv, [Next]_vars PROVE OrderInv'
  OBVIOUS
<1>1. CASE UNCHANGED vars
  BY <1>1 DEF OrderInv
<1>2. ASSUME NEW s \in Socket, ClientEvent(s) PROVE OrderInv'
  BY <1>2, ClientQuiet, SessionOpensOrder DEF ClientEvent
<1>3. ASSUME NEW s \in Socket,
             Upgrades(s) \/ AuthSettles(s) \/ RoomEvent(s) \/ LinkBreaks(s)
      PROVE  OrderInv'
  BY <1>3, RoomQuiet, RoomReadsOrder DEF RoomEvent
<1>4. CASE AppActs
  BY <1>4, SocketsAreNumbers, ClientQuiet, SendNowOrder, SendBufferedOrder DEF AppActs
<1>5. CASE BackoffFires \/ UptimeFires \/ WindowEnds \/ RoomEvicts \/ RoomStops
  BY <1>5, SocketsAreNumbers, ClientQuiet, RoomQuiet
<1>6. QED
  BY <1>1, <1>2, <1>3, <1>4, <1>5 DEF Next

\* The room's onMessage sees the messages of a client in the order of its send() calls and
\* none twice, through buffering, flushes, drops and any number of reconnections.
THEOREM OrderKept == Spec => []InOrder
<1>1. OrderInv => InOrder
  BY DEF OrderInv, Increasing, InOrder
<1>2. QED
  BY <1>1, InitType, NextType, InitOrder, NextOrder, PTL DEF Spec

-----------------------------------------------------------------------------
(* Joining: what the room does with the sockets it accepted.               *)

\* The room accepted s: its session frame is on its way, or was read.
Carried(q) == \E i \in DOMAIN q : q[i] = Signal("session")
Accepted(s) == s \in joined \/ Carried(down[s])

\* The seat follows the accepted socket that is open: the room leaves it for another one
\* only after it has closed.
SeatFollows ==
  \A s \in Socket : Accepted(s) =>
    /\ s \notin authing /\ srv[s] # "unused"
    /\ srv[s] = "open" => present /\ rtoken = s
    /\ srv[s] \in {"open", "closing"} /\ present => rsock = s /\ route = s

\* The seat's jwt is presented once, on the first socket, and before it is accepted there
\* is nothing to come back to.
OneOpening ==
  /\ authing \subseteq {1}
  /\ \A s \in Socket : asks[s] = 0 /\ cli[s] # "unused" => s = 1
  /\ 1 \in authing => srv[1] # "unused" /\ (srv[1] # "closed" => route = 1)
  /\ 1 \in authing \/ srv[1] = "unused" => ~present /\ \A s \in Socket : ~Accepted(s)

\* Who is open has joined on his websocket and holds its token; who reconnects has one.
TokenHeld ==
  /\ state = "open" => ws \in joined /\ token = ws
  /\ state = "reconnecting" => token # 0

JoinInv == SeatFollows /\ OneOpening /\ TokenHeld

LEMMA InitJoin == Init => JoinInv
<1> SUFFICES ASSUME Init PROVE JoinInv
  OBVIOUS
<1>1. \A s \in Socket : ~Accepted(s)
  BY DEF Init, Accepted, Carried
<1>2. \A s \in Socket : asks[s] = 0 /\ cli[s] # "unused" => s = 1
  BY DEF Init
<1>3. QED
  BY <1>1, <1>2 DEF Init, JoinInv, SeatFollows, OneOpening, TokenHeld

LEMMA TailCarries ==
  ASSUME NEW q \in Seq(Downs), q # <<>>, Carried(Tail(q)) PROVE Carried(q)
<1>1. /\ Len(q) \in Nat /\ DOMAIN q = 1..Len(q) /\ DOMAIN Tail(q) = 1..(Len(q) - 1)
      /\ \A i \in 1..(Len(q) - 1) : Tail(q)[i] = q[i + 1]
  BY HeadTailProperties, LenProperties
<1>2. PICK i \in 1..(Len(q) - 1) : q[i + 1] = Signal("session")
  BY <1>1 DEF Carried
<1>3. i + 1 \in DOMAIN q
  BY <1>1
<1>4. QED
  BY <1>2, <1>3 DEF Carried

LEMMA ConcatCarries ==
  ASSUME NEW q \in Seq(Downs), NEW r \in Seq(Downs)
  PROVE  Carried(q \o r) <=> Carried(q) \/ Carried(r)
<1>1. /\ DOMAIN (q \o r) = 1..(Len(q) + Len(r))
      /\ DOMAIN q = 1..Len(q) /\ DOMAIN r = 1..Len(r)
      /\ Len(q) \in Nat /\ Len(r) \in Nat
      /\ \A i \in 1..(Len(q) + Len(r)) :
           (q \o r)[i] = IF i <= Len(q) THEN q[i] ELSE r[i - Len(q)]
  BY ConcatProperties, LenProperties
<1>2. ASSUME Carried(q \o r) PROVE Carried(q) \/ Carried(r)
  <2>1. PICK i \in 1..(Len(q) + Len(r)) : (q \o r)[i] = Signal("session")
    BY <1>1, <1>2 DEF Carried
  <2>2. CASE i <= Len(q)
    BY <1>1, <2>1, <2>2 DEF Carried
  <2>3. CASE ~(i <= Len(q))
    <3>1. i - Len(q) \in 1..Len(r)
      BY <1>1, <2>3
    <3>2. QED
      BY <1>1, <2>1, <2>3, <3>1 DEF Carried
  <2>4. QED
    BY <2>2, <2>3
<1>3. ASSUME Carried(q) PROVE Carried(q \o r)
  <2>1. PICK i \in 1..Len(q) : q[i] = Signal("session")
    BY <1>1, <1>3 DEF Carried
  <2>2. i \in 1..(Len(q) + Len(r)) /\ (q \o r)[i] = q[i]
    BY <1>1
  <2>3. QED
    BY <1>1, <2>1, <2>2 DEF Carried
<1>4. ASSUME Carried(r) PROVE Carried(q \o r)
  <2>1. PICK i \in 1..Len(r) : r[i] = Signal("session")
    BY <1>1, <1>4 DEF Carried
  <2>2. i + Len(q) \in 1..(Len(q) + Len(r)) /\ (q \o r)[i + Len(q)] = r[i]
    BY <1>1
  <2>3. QED
    BY <1>1, <2>1, <2>2 DEF Carried
<1>5. QED
  BY <1>2, <1>3, <1>4

\* Frames that carry no session frame.
LEMMA OtherFrames ==
  /\ ~Carried(<<>>)
  /\ \A k \in Codes : <<Signal(k)>> \in Seq(Downs) /\ ~Carried(<<Signal(k)>>)
  /\ \A k \in Codes : /\ <<Signal("auth_error"), Signal(k)>> \in Seq(Downs)
                      /\ ~Carried(<<Signal("auth_error"), Signal(k)>>)
<1>1. ~Carried(<<>>)
  BY DEF Carried
<1>2. ASSUME NEW k \in Codes
      PROVE  /\ <<Signal(k)>> \in Seq(Downs) /\ ~Carried(<<Signal(k)>>)
             /\ <<Signal("auth_error"), Signal(k)>> \in Seq(Downs)
             /\ ~Carried(<<Signal("auth_error"), Signal(k)>>)
  <2>1. Signal(k) \in Downs /\ Signal("auth_error") \in Downs
    BY FrameTypes
  <2>2. Signal(k) # Signal("session") /\ Signal("auth_error") # Signal("session")
    BY DEF Signal, Codes
  <2>3. DOMAIN <<Signal(k)>> = {1} /\ DOMAIN <<Signal("auth_error"), Signal(k)>> = {1, 2}
    OBVIOUS
  <2>4. QED
    BY <2>1, <2>2, <2>3 DEF Carried
<1>3. QED
  BY <1>1, <1>2

\* No socket is accepted, opened or routed, and none that is accepted and open loses the
\* seat.
SeatStays ==
  /\ UNCHANGED <<route, rsock, rtoken>>
  /\ authing' \subseteq authing
  /\ present' => present
  /\ \A s \in Socket :
       /\ Accepted(s)' => Accepted(s)
       /\ srv'[s] = "unused" => srv[s] = "unused"
       /\ srv'[s] = "open" => srv[s] = "open"
       /\ srv'[s] = "closed" <=> srv[s] = "closed"
       /\ asks'[s] = 0 /\ cli'[s] # "unused" => asks[s] = 0 /\ cli[s] # "unused"
       /\ Accepted(s) /\ srv'[s] = "open" => present'

LEMMA StaysSeat ==
  ASSUME TypeOK, TypeOK', SeatFollows, OneOpening, SeatStays
  PROVE  SeatFollows' /\ OneOpening'
<1>1. /\ \A s \in Socket : srv[s] \in {"unused", "open", "closing", "closed"}
      /\ \A s \in Socket : srv'[s] \in {"unused", "open", "closing", "closed"}
      /\ 1 \in Socket
  BY SocketsAreNumbers DEF TypeOK
<1>2. SeatFollows'
  BY <1>1 DEF SeatFollows, SeatStays
<1>3. OneOpening'
  BY <1>1 DEF OneOpening, SeatStays
<1>4. QED
  BY <1>2, <1>3

\* What the room writes behind the frames of some sockets carries no session frame.
LEMMA WritesAccepted ==
  ASSUME TypeOK, NEW S, NEW frames \in Seq(Downs), ~Carried(frames), RoomWrites(S, frames)
  PROVE  \A s \in Socket : Carried(down'[s]) => Carried(down[s])
<1>1. \A s \in Socket : down[s] \in Seq(Downs)
  BY DEF TypeOK
<1>2. \A s \in Socket : down'[s] = down[s] \/ down'[s] = down[s] \o frames
  BY DEF RoomWrites
<1>3. QED
  BY <1>1, <1>2, ConcatCarries

LEMMA ClosesSeat ==
  ASSUME TypeOK, NEW S, NEW frames \in Seq(Downs), ~Carried(frames), RoomCloses(S, frames)
  PROVE  \A s \in Socket :
           /\ Carried(down'[s]) => Carried(down[s])
           /\ srv'[s] = "unused" => srv[s] = "unused"
           /\ srv'[s] = "open" => srv[s] = "open" /\ s \notin S
           /\ srv'[s] = "closed" <=> srv[s] = "closed"
<1>1. \A s \in Socket : Carried(down'[s]) => Carried(down[s])
  BY WritesAccepted DEF RoomCloses
<1>2. srv' = [s \in Socket |-> IF s \in S /\ srv[s] = "open" THEN "closing" ELSE srv[s]]
  BY DEF RoomCloses
<1>3. QED
  BY <1>1, <1>2

\* The client's steps leave the room's view of the seat alone.
LEMMA ClientStays ==
  ASSUME TypeOK, SeatFollows, [Next]_vars,
         UNCHANGED <<route, rsock, rtoken, authing, present, srv>>,
         \A s \in Socket : s \in joined' => s \in joined \/ Carried(down[s]),
         \A s \in Socket : Carried(down'[s]) => Carried(down[s]),
         \A s \in Socket :
           asks'[s] = 0 /\ cli'[s] # "unused" => asks[s] = 0 /\ cli[s] # "unused"
  PROVE  SeatStays
BY DEF SeatStays, SeatFollows, Accepted

\* The client reads a frame.
LEMMA ReadsAccepted ==
  ASSUME TypeOK, NEW s \in Socket, NEW kind, Reads(s, kind)
  PROVE  /\ \A x \in Socket : Carried(down'[x]) => Carried(down[x])
         /\ kind = "session" => Carried(down[s])
<1>1. /\ down[s] \in Seq(Downs) /\ down[s] # <<>> /\ Head(down[s]) = Signal(kind)
      /\ down' = [down EXCEPT ![s] = Tail(down[s])]
  BY DEF Reads, TypeOK
<1>2. 1 \in DOMAIN down[s] /\ down[s][1] = Head(down[s])
  BY <1>1, HeadTailProperties, LenProperties, EmptySeq
<1>3. \A x \in Socket : Carried(down'[x]) => Carried(down[x])
  BY <1>1, TailCarries DEF TypeOK
<1>4. kind = "session" => Carried(down[s])
  BY <1>1, <1>2 DEF Carried
<1>5. QED
  BY <1>3, <1>4

LEMMA ClientEventSeat ==
  ASSUME TypeOK, SeatFollows, [Next]_vars, TokenHeld, CapInv,
         \/ \E s \in Socket : ClientEvent(s)
         \/ BackoffFires \/ UptimeFires \/ AppActs
         \/ \E s \in Socket : LinkBreaks(s)
         \/ UNCHANGED vars
  PROVE  SeatStays
<1>1. UNCHANGED <<route, rsock, rtoken, authing, present, srv>>
  BY DEF ClientEvent, Opened, SessionOpens, SessionIgnored, SessionRejected, AuthRejected,
         ClientCloseEvent, BackoffFires, UptimeFires, AppActs, SendNow, SendBuffered,
         AppCloses, AppGivesUp, LinkBreaks
<1>2. /\ \A s \in Socket : s \in joined' => s \in joined \/ Carried(down[s])
      /\ \A s \in Socket : Carried(down'[s]) => Carried(down[s])
  <2>1. CASE UNCHANGED <<joined, down>>
    BY <2>1
  <2>2. ASSUME NEW s \in Socket, SessionOpens(s)
        PROVE  /\ \A x \in Socket : x \in joined' => x \in joined \/ Carried(down[x])
               /\ \A x \in Socket : Carried(down'[x]) => Carried(down[x])
    BY <2>2, ReadsAccepted DEF SessionOpens
  <2>3. ASSUME NEW s \in Socket,
               SessionIgnored(s) \/ SessionRejected(s) \/ AuthRejected(s)
        PROVE  /\ \A x \in Socket : x \in joined' => x \in joined \/ Carried(down[x])
               /\ \A x \in Socket : Carried(down'[x]) => Carried(down[x])
    BY <2>3, ReadsAccepted DEF SessionIgnored, SessionRejected, AuthRejected
  <2>4. ASSUME NEW s \in Socket, ClientCloseEvent(s)
        PROVE  /\ \A x \in Socket : x \in joined' => x \in joined \/ Carried(down[x])
               /\ \A x \in Socket : Carried(down'[x]) => Carried(down[x])
    BY <2>4, OtherFrames DEF ClientCloseEvent, TypeOK
  <2>5. QED
    BY <2>1, <2>2, <2>3, <2>4
    DEF ClientEvent, Opened, BackoffFires, UptimeFires, AppActs, SendNow, SendBuffered,
        AppCloses, AppGivesUp, LinkBreaks
<1>3. \A s \in Socket :
        asks'[s] = 0 /\ cli'[s] # "unused" => asks[s] = 0 /\ cli[s] # "unused"
  <2>1. CASE BackoffFires
    <3>1. PICK s \in Socket :
            /\ cli' = [cli EXCEPT ![s] = "connecting"]
            /\ asks' = [asks EXCEPT ![s] = token]
      BY <2>1 DEF BackoffFires
    <3>2. token # 0
      BY <2>1 DEF BackoffFires, CapInv, TokenHeld
    <3>3. QED
      BY <3>1, <3>2 DEF TypeOK
  <2>2. ASSUME NEW s \in Socket, NEW frames, CloseClient(s, frames)
        PROVE  \A x \in Socket : cli'[x] # "unused" => cli[x] # "unused"
    BY <2>2 DEF CloseClient, TypeOK
  <2>3. CASE AppActs
    <3>1. UNCHANGED asks
      BY <2>3 DEF AppActs, SendNow, SendBuffered, AppCloses, AppGivesUp
    <3>2. CASE AppCloses \/ AppGivesUp
      <4>1. ASSUME NEW frames, CloseClient(ws, frames)
            PROVE  \A x \in Socket : cli'[x] # "unused" => cli[x] # "unused"
        BY <4>1 DEF CloseClient, TypeOK
      <4>2. QED
        BY <3>1, <3>2, <4>1 DEF AppCloses, AppGivesUp, LeaveAndClose
    <3>3. CASE UNCHANGED cli
      BY <3>1, <3>3
    <3>4. QED
      BY <2>3, <3>2, <3>3 DEF AppActs, SendNow, SendBuffered
  <2>4. ASSUME NEW s \in Socket, ClientEvent(s)
        PROVE  \A x \in Socket :
                 asks'[x] = 0 /\ cli'[x] # "unused" => asks[x] = 0 /\ cli[x] # "unused"
    BY <2>2, <2>4 DEF ClientEvent, Opened, SessionOpens, SessionIgnored, SessionRejected,
       AuthRejected, ClientCloseEvent, TypeOK
  <2>5. CASE UptimeFires \/ UNCHANGED vars \/ \E s \in Socket : LinkBreaks(s)
    BY <2>5 DEF UptimeFires, LinkBreaks
  <2>6. QED
    BY <2>1, <2>3, <2>4, <2>5
<1>4. QED
  BY <1>1, <1>2, <1>3, ClientStays

\* Steps of the room that accept nothing.
LEMMA RoomStays ==
  ASSUME TypeOK, SeatFollows, NEW s \in Socket,
         \/ RoomRejects(s) \/ RoomRefuses(s) \/ RoomReads(s)
         \/ WindowEnds \/ RoomEvicts \/ RoomStops
  PROVE  SeatStays
<1>1. /\ UNCHANGED <<route, rsock, rtoken, joined, asks, cli>>
      /\ authing' \subseteq authing
  BY DEF RoomRejects, RoomRefuses, RoomReads, WindowEnds, RoomEvicts, RoomStops
<1>2. CASE RoomRejects(s)
  <2>1. PICK k \in Codes : RoomCloses({s}, <<Signal("auth_error"), Signal(k)>>)
    BY <1>2 DEF RoomRejects
  <2>2. \A x \in Socket :
          /\ Carried(down'[x]) => Carried(down[x])
          /\ srv'[x] = "unused" => srv[x] = "unused"
          /\ srv'[x] = "open" => srv[x] = "open"
          /\ srv'[x] = "closed" <=> srv[x] = "closed"
    BY <2>1, ClosesSeat, OtherFrames
  <2>3. UNCHANGED present
    BY <1>2 DEF RoomRejects
  <2>4. QED
    BY <1>1, <2>2, <2>3 DEF SeatStays, SeatFollows, Accepted
<1>3. CASE RoomRefuses(s)
  <2>1. /\ srv[s] = "unused" /\ srv' = [srv EXCEPT ![s] = "closing"] /\ UNCHANGED present
        /\ \/ down' = down
           \/ down' = [down EXCEPT ![s] = @ \o <<Signal("auth_error"), Signal("consented")>>]
    BY <1>3 DEF RoomRefuses, Arrives, TypeOK
  <2>2. Carried(down[s] \o <<Signal("auth_error"), Signal("consented")>>) => Carried(down[s])
    BY OtherFrames, ConcatCarries, ZenonT(30) DEF TypeOK, Codes
  <2>3. \A x \in Socket : Carried(down'[x]) => Carried(down[x])
    BY <2>1, <2>2 DEF TypeOK
  <2>4. QED
    BY <1>1, <2>1, <2>3 DEF SeatStays, SeatFollows, Accepted, TypeOK
<1>4. CASE RoomReads(s)
  <2>1. \/ UNCHANGED <<srv, down>>
        \/ RoomCloses({rsock}, <<Signal("consented")>>)
    BY <1>4 DEF RoomReads
  <2>2. \A x \in Socket :
          /\ Carried(down'[x]) => Carried(down[x])
          /\ srv'[x] = "unused" => srv[x] = "unused"
          /\ srv'[x] = "open" => srv[x] = "open"
          /\ srv'[x] = "closed" <=> srv[x] = "closed"
    BY <2>1, ClosesSeat, OtherFrames DEF Codes
  <2>3. UNCHANGED present
    BY <1>4 DEF RoomReads
  <2>4. QED
    BY <1>1, <2>2, <2>3 DEF SeatStays, SeatFollows, Accepted
<1>5. CASE WindowEnds
  <2>1. present /\ rsock = 0 /\ UNCHANGED <<srv, down>>
    BY <1>5 DEF WindowEnds
  <2>2. QED
    BY <1>1, <2>1, SocketsAreNumbers DEF SeatStays, SeatFollows, Accepted
<1>6. CASE RoomEvicts \/ RoomStops
  <2>1. PICK S \in {{rsock}, Socket}, k \in Codes : RoomCloses(S, <<Signal(k)>>)
    BY <1>6 DEF RoomEvicts, RoomStops, Codes
  <2>2. \A x \in Socket :
          /\ Carried(down'[x]) => Carried(down[x])
          /\ srv'[x] = "unused" => srv[x] = "unused"
          /\ srv'[x] = "open" => srv[x] = "open" /\ x \notin S
          /\ srv'[x] = "closed" <=> srv[x] = "closed"
    BY <2>1, ClosesSeat, OtherFrames
  <2>3. ~present'
    BY <1>6 DEF RoomEvicts, RoomStops
  <2>4. \A x \in Socket : Accepted(x) => srv'[x] # "open"
    BY <2>2 DEF SeatFollows
  <2>5. QED
    BY <1>1, <2>2, <2>3, <2>4 DEF SeatStays, Accepted
<1>7. QED
  BY <1>2, <1>3, <1>4, <1>5, <1>6

LEMMA OpensSeat ==
  ASSUME TypeOK, SeatFollows, OneOpening, NEW s \in Socket, RoomOpens(s)
  PROVE  SeatFollows' /\ OneOpening'
<1>1. /\ srv[s] = "unused" /\ s = 1
      /\ \A x \in Socket : srv'[x] = IF x = s THEN "open" ELSE srv[x]
      /\ route' = s /\ authing' = authing \cup {s}
      /\ UNCHANGED <<present, rsock, rtoken, joined, down, asks, cli>>
  BY DEF RoomOpens, Arrives, OneOpening, TypeOK
<1>2. ~present /\ \A x \in Socket : ~Accepted(x)
  BY <1>1 DEF OneOpening
<1>3. \A x \in Socket : Accepted(x)' <=> Accepted(x)
  BY <1>1 DEF Accepted
<1>4. QED
  BY <1>1, <1>2, <1>3 DEF SeatFollows, OneOpening

LEMMA AcceptsSeat ==
  ASSUME TypeOK, SeatFollows, OneOpening, NEW s \in Socket, RoomAccepts(s)
  PROVE  SeatFollows' /\ OneOpening'
<1>1. /\ s \in authing /\ s = 1 /\ authing' = authing \ {s}
      /\ present' = TRUE /\ rsock' = s /\ rtoken' = s
      /\ UNCHANGED <<srv, route, joined, asks, cli>>
      /\ RoomWrites({s}, <<Signal("session")>>)
  BY DEF RoomAccepts, OneOpening
<1>2. ~present /\ \A x \in Socket : ~Accepted(x)
  BY <1>1 DEF OneOpening
<1>3. \A x \in Socket : Accepted(x)' => x = s
  BY <1>1, <1>2 DEF Accepted, RoomWrites
<1>4. Accepted(s)' => srv[s] # "unused" /\ (srv[s] # "closed" => route = s)
  BY <1>1 DEF OneOpening
<1>5. QED
  BY <1>1, <1>3, <1>4 DEF SeatFollows, OneOpening

LEMMA ResumesSeat ==
  ASSUME TypeOK, SeatFollows, OneOpening, NEW s \in Socket, RoomResumes(s)
  PROVE  SeatFollows' /\ OneOpening'
<1>1. /\ srv[s] = "unused" /\ present /\ rsock = 0
      /\ \A x \in Socket : srv'[x] = IF x = s THEN "open" ELSE srv[x]
      /\ \A x \in Socket : x # s => down'[x] = down[x]
      /\ route' = s /\ rsock' = s /\ rtoken' = s
      /\ UNCHANGED <<present, authing, joined, asks, cli>>
  BY DEF RoomResumes, Arrives, Resumable, TypeOK
<1>2. 1 \notin authing /\ srv[1] # "unused" /\ 1 \in Socket /\ 0 \notin Socket
  BY <1>1, SocketsAreNumbers DEF OneOpening
<1>3. \A x \in Socket : x # s /\ Accepted(x)' => Accepted(x)
  BY <1>1 DEF Accepted
<1>4. SeatFollows'
  <2>1. ASSUME NEW x \in Socket, Accepted(x)', x # s
        PROVE  /\ x \notin authing /\ srv[x] # "unused" /\ srv[x] \notin {"open", "closing"}
    BY <1>1, <1>2, <1>3, <2>1 DEF SeatFollows
  <2>2. s \notin authing
    BY <1>2 DEF OneOpening
  <2>3. QED
    BY <1>1, <2>1, <2>2 DEF SeatFollows
<1>5. OneOpening'
  BY <1>1, <1>2 DEF OneOpening
<1>6. QED
  BY <1>4, <1>5

LEMMA CloseEventSeat ==
  ASSUME TypeOK, SeatFollows, OneOpening, NEW s \in Socket, RoomCloseEvent(s)
  PROVE  SeatFollows' /\ OneOpening'
<1>1. PICK k \in Codes :
        /\ down' = [down EXCEPT ![s] = IF srv[s] = "open" /\ ~cut[s]
                                       THEN Append(@, Signal(k)) ELSE @]
        /\ route' = IF route = s THEN 0 ELSE route
        /\ IF route = s /\ present THEN AfterRoomClose(k) ELSE UNCHANGED <<present, rsock>>
  BY DEF RoomCloseEvent, CloseCode
<1>2. /\ srv[s] \in {"open", "closing"}
      /\ \A x \in Socket : srv'[x] = IF x = s THEN "closed" ELSE srv[x]
      /\ UNCHANGED <<rtoken, authing, joined, asks, cli>>
  BY DEF RoomCloseEvent, TypeOK
<1>3. \A x \in Socket : Accepted(x)' => Accepted(x)
  <2>1. down[s] \in Seq(Downs) /\ <<Signal(k)>> \in Seq(Downs) /\ ~Carried(<<Signal(k)>>)
    BY OtherFrames DEF TypeOK
  <2>2. Append(down[s], Signal(k)) = down[s] \o <<Signal(k)>>
    BY <2>1
  <2>3. Carried(Append(down[s], Signal(k))) => Carried(down[s])
    BY <2>1, <2>2, ConcatCarries
  <2>4. QED
    BY <1>1, <1>2, <2>3 DEF Accepted, TypeOK
<1>4. /\ present' => present
      /\ route # s => UNCHANGED <<present, rsock, route>>
  BY <1>1 DEF AfterRoomClose
<1>5. SeatFollows'
  BY <1>2, <1>3, <1>4 DEF SeatFollows
<1>6. OneOpening'
  BY <1>2, <1>3, <1>4, SocketsAreNumbers DEF OneOpening
<1>7. QED
  BY <1>5, <1>6

LEMMA NextSeat ==
  TypeOK /\ TypeOK' /\ CapInv /\ JoinInv /\ [Next]_vars => SeatFollows' /\ OneOpening'
<1> SUFFICES ASSUME TypeOK, TypeOK', CapInv, JoinInv, [Next]_vars
             PROVE  SeatFollows' /\ OneOpening'
  OBVIOUS
<1>1. SeatFollows /\ OneOpening /\ TokenHeld
  BY DEF JoinInv
<1>2. ASSUME SeatStays PROVE SeatFollows' /\ OneOpening'
  BY <1>1, <1>2, StaysSeat
<1>3. CASE \/ \E s \in Socket : ClientEvent(s) \/ LinkBreaks(s)
           \/ BackoffFires \/ UptimeFires \/ AppActs \/ UNCHANGED vars
  <2>1. SeatStays
    BY <1>1, <1>3, ClientEventSeat
  <2>2. QED
    BY <1>2, <2>1
<1>4. ASSUME NEW s \in Socket,
             Upgrades(s) \/ AuthSettles(s) \/ RoomEvent(s)
      PROVE  SeatFollows' /\ OneOpening'
  BY <1>1, <1>2, <1>4, RoomStays, OpensSeat, AcceptsSeat, ResumesSeat, CloseEventSeat
  DEF Upgrades, AuthSettles, RoomEvent
<1>5. CASE WindowEnds \/ RoomEvicts \/ RoomStops
  BY <1>1, <1>2, <1>5, RoomStays, SocketsAreNumbers
<1>6. QED
  BY <1>3, <1>4, <1>5 DEF Next

\* The client's half: a session frame opens the connection it was read on.
LEMMA NextToken == TypeOK /\ CapInv /\ TokenHeld /\ [Next]_vars => TokenHeld'
<1> SUFFICES ASSUME TypeOK, CapInv, TokenHeld, [Next]_vars PROVE TokenHeld'
  OBVIOUS
<1>1. CASE UNCHANGED <<state, ws, token, joined>>
  BY <1>1 DEF TokenHeld
<1>2. ASSUME NEW s \in Socket, SessionOpens(s) PROVE TokenHeld'
  <2>1. cli[s] = "open" /\ state # "closed"
    BY <1>2 DEF SessionOpens, Reads
  <2>2. ws = s
    BY <2>1 DEF CapInv, Alive
  <2>3. QED
    BY <1>2, <2>2 DEF SessionOpens, TakeToken, TokenHeld
<1>3. ASSUME NEW s \in Socket, ClientCloseEvent(s) PROVE TokenHeld'
  <2>1. PICK k \in Codes : AfterClose(k)
    BY <1>3 DEF ClientCloseEvent, CloseCode
  <2>2. state' # "open" /\ UNCHANGED token
    BY <1>3, <2>1
    DEF AfterClose, StartReconnect, Schedule, EnterClosed, ClientCloseEvent, TypeOK
  <2>3. state' = "reconnecting" => state = "reconnecting" \/ token # 0
    BY <2>1 DEF AfterClose, EnterClosed
  <2>4. QED
    BY <2>2, <2>3 DEF TokenHeld
<1>4. ASSUME NEW s \in Socket, SessionIgnored(s) \/ SessionRejected(s) PROVE TokenHeld'
  BY <1>4 DEF SessionIgnored, SessionRejected, EnterClosed, TokenHeld
<1>5. ASSUME NEW s \in Socket, Opened(s) \/ AuthRejected(s) PROVE TokenHeld'
  BY <1>5 DEF Opened, OpenedOn, AuthRejected, TokenHeld
<1>6. CASE BackoffFires
  BY <1>6 DEF BackoffFires, CapInv, TokenHeld
<1>7. CASE AppActs
  <2>1. CASE state' = "closed"
    BY <2>1 DEF TokenHeld
  <2>2. QED
    BY <1>1, <1>7, <2>1 DEF AppActs, SendNow, SendBuffered, AppCloses, AppGivesUp, EnterClosed
<1>8. CASE UptimeFires \/ WindowEnds \/ RoomEvicts \/ RoomStops \/ UNCHANGED vars
  BY <1>1, <1>8 DEF UptimeFires, WindowEnds, RoomEvicts, RoomStops
<1>9. ASSUME NEW s \in Socket,
             Upgrades(s) \/ AuthSettles(s) \/ RoomEvent(s) \/ LinkBreaks(s)
      PROVE  UNCHANGED <<state, ws, token, joined>>
  BY <1>9 DEF Upgrades, AuthSettles, RoomEvent, RoomOpens, RoomResumes, RoomRefuses,
              RoomAccepts, RoomRejects, RoomReads, RoomCloseEvent, LinkBreaks
<1>10. QED
  BY <1>1, <1>2, <1>3, <1>4, <1>5, <1>6, <1>7, <1>8, <1>9 DEF Next, ClientEvent

LEMMA JoinInvariant == Spec => [](TypeOK /\ CapInv /\ JoinInv)
<1>1. Init => TypeOK /\ CapInv /\ JoinInv
  BY InitType, InitCap, InitJoin
<1>2. TypeOK /\ CapInv /\ JoinInv /\ [Next]_vars => (TypeOK /\ CapInv /\ JoinInv)'
  <2>1. TypeOK /\ CapInv /\ JoinInv /\ [Next]_vars => TypeOK' /\ CapInv' /\ TokenHeld'
    BY NextType, NextCap, NextToken DEF JoinInv
  <2>2. QED
    BY <2>1, NextSeat DEF JoinInv
<1>3. QED
  BY <1>1, <1>2, PTL DEF Spec

\* A connection its user sees as open has joined on both ends: as long as its websocket is
\* healthy the room tracks the client on it, listens to it, and holds the client's token.
THEOREM OpenIsJoined == Spec => []OpenMeansJoined
<1>1. TypeOK /\ JoinInv => OpenMeansJoined
  <2> SUFFICES ASSUME TypeOK, JoinInv, state = "open" PROVE
        /\ token # 0
        /\ cli[ws] = "open" /\ srv[ws] = "open" /\ ~cut[ws] =>
             present /\ rsock = ws /\ route = ws /\ rtoken = token
    BY DEF OpenMeansJoined
  <2>1. ws \in joined /\ ws \in Socket /\ token = ws
    BY DEF JoinInv, TokenHeld, TypeOK
  <2>2. QED
    BY <2>1, SocketsAreNumbers DEF JoinInv, SeatFollows, Accepted
<1>2. QED
  BY <1>1, JoinInvariant, PTL

-----------------------------------------------------------------------------
(* Where the messages are.                                                 *)

InTransit ==
  Range(received) \cup Range(out) \cup lost \cup UNION {Messages(up[s]) : s \in Socket}

\* Messages are written only to a websocket whose session frame has been read.
WrittenAfterJoin == \A s \in Socket : Messages(up[s]) # {} => s \in joined

LEMMA InitVanish == Init => WrittenAfterJoin /\ NothingVanishes
<1> SUFFICES ASSUME Init PROVE WrittenAfterJoin /\ NothingVanishes
  OBVIOUS
<1>1. \A s \in Socket : Messages(up[s]) = {}
  BY DEF Init, Messages
<1>2. reliable = {}
  BY DEF Init
<1>3. QED
  BY <1>1, <1>2 DEF WrittenAfterJoin, NothingVanishes

\* A step that loses sight of no message.
LEMMA VanishStep ==
  ASSUME WrittenAfterJoin, NothingVanishes, joined \subseteq joined',
         state' # "closed" => state # "closed",
         \A s \in Socket : Messages(up'[s]) # {} => Messages(up[s]) # {} \/ s \in joined',
         state' # "closed" => InTransit \subseteq InTransit',
         state' # "closed" => reliable' \subseteq reliable \cup InTransit'
  PROVE  WrittenAfterJoin' /\ NothingVanishes'
<1>1. NothingVanishes <=> (state # "closed" => reliable \subseteq InTransit)
  BY DEF NothingVanishes, InTransit
<1>2. NothingVanishes' <=> (state' # "closed" => reliable' \subseteq InTransit')
  BY DEF NothingVanishes, InTransit
<1>3. QED
  BY <1>1, <1>2 DEF WrittenAfterJoin

\* Frames without messages are written, if any.
Silent ==
  /\ UNCHANGED <<received, reliable>>
  /\ lost \subseteq lost' /\ joined \subseteq joined'
  /\ state' # "closed" => state # "closed" /\ out' = out
  /\ \A s \in Socket : Messages(up'[s]) = Messages(up[s])

LEMMA SilentVanish ==
  ASSUME WrittenAfterJoin, NothingVanishes, Silent
  PROVE  WrittenAfterJoin' /\ NothingVanishes'
<1>1. state' # "closed" => InTransit \subseteq InTransit'
  BY DEF Silent, InTransit
<1>2. QED
  BY <1>1, VanishStep DEF Silent

\* What is written behind the frames of s is on its way, or lost at once.
LEMMA WriteMessages ==
  ASSUME TypeOK, NEW s \in Socket, NEW frames \in Seq(Ups), Write(s, frames)
  PROVE  /\ \A x \in Socket : Messages(up[x]) \subseteq Messages(up'[x])
         /\ \A x \in Socket \ {s} : Messages(up'[x]) = Messages(up[x])
         /\ Messages(up'[s]) \subseteq Messages(up[s]) \cup Messages(frames)
         /\ Messages(frames) \subseteq Messages(up'[s]) \cup lost'
         /\ lost \subseteq lost'
         /\ Messages(frames) = {} => lost' = lost
<1>1. up[s] \in Seq(Ups) /\ Messages(up[s] \o frames) = Messages(up[s]) \cup Messages(frames)
  BY MessagesConcat DEF TypeOK
<1>2. CASE Carries(s)
  <2>1. lost' = lost /\ \A x \in Socket : up'[x] = IF x = s THEN up[s] \o frames ELSE up[x]
    BY <1>2 DEF Write, TypeOK
  <2>2. QED
    BY <1>1, <2>1
<1>3. CASE ~Carries(s)
  BY <1>3 DEF Write
<1>4. QED
  BY <1>2, <1>3

\* Close frames and leave messages carry no message.
LEMMA SignalMessages ==
  ASSUME NEW frames \in {<<>>, <<Signal("other")>>, <<Signal("consented")>>,
                         <<Signal("leave"), Signal("consented")>>}
  PROVE  frames \in Seq(Ups) /\ Messages(frames) = {}
<1>1. frames \in Seq(Ups)
  <2>1. Signal("other") \in Ups /\ Signal("consented") \in Ups /\ Signal("leave") \in Ups
    BY FrameTypes DEF Codes
  <2>2. /\ <<>> \in Seq(Ups) /\ <<Signal("other")>> \in Seq(Ups)
        /\ <<Signal("consented")>> \in Seq(Ups)
    BY <2>1
  <2>3. <<Signal("leave"), Signal("consented")>> \in Seq(Ups)
    BY <2>1
  <2>4. QED
    BY <2>2, <2>3
<1>2. \A i \in DOMAIN frames : frames[i].kind # "user"
  <2>1. CASE frames = <<>>
    BY <2>1
  <2>2. CASE frames \in {<<Signal("other")>>, <<Signal("consented")>>}
    <3>1. DOMAIN frames = {1} /\ frames[1] \in {Signal("other"), Signal("consented")}
      BY <2>2
    <3>2. QED
      BY <3>1 DEF Signal
  <2>3. CASE frames = <<Signal("leave"), Signal("consented")>>
    <3>1. DOMAIN frames = {1, 2} /\ frames[1] = Signal("leave") /\ frames[2] = Signal("consented")
      BY <2>3
    <3>2. QED
      BY <3>1 DEF Signal
  <2>4. QED
    BY <2>1, <2>2, <2>3
<1>3. QED
  BY <1>1, <1>2 DEF Messages

LEMMA CloseSilent ==
  ASSUME TypeOK, NEW s \in Socket,
         NEW frames \in {<<>>, <<Signal("other")>>, <<Signal("leave"), Signal("consented")>>},
         CloseClient(s, frames)
  PROVE  lost' = lost /\ \A x \in Socket : Messages(up'[x]) = Messages(up[x])
<1>1. frames \in Seq(Ups) /\ Messages(frames) = {} /\ Write(s, frames)
  BY SignalMessages DEF CloseClient
<1>2. QED
  BY <1>1, WriteMessages

LEMMA SignalAppended ==
  ASSUME NEW q \in Seq(Ups), NEW k \in Codes
  PROVE  Messages(Append(q, Signal(k))) = Messages(q)
<1>1. <<Signal(k)>> \in Seq(Ups) /\ Messages(<<Signal(k)>>) = {}
  BY SignalMessages DEF Codes
<1>2. Signal(k) \in Ups
  BY FrameTypes
<1>3. Append(q, Signal(k)) = q \o <<Signal(k)>>
  BY <1>2, AppendIsConcat
<1>4. Messages(q \o <<Signal(k)>>) = Messages(q) \cup Messages(<<Signal(k)>>)
  BY <1>1, MessagesConcat
<1>5. QED
  BY <1>1, <1>3, <1>4

LEMMA RangeAppend ==
  ASSUME NEW q \in Seq(1..MaxMsgs), NEW n \in 1..MaxMsgs
  PROVE  Range(Append(q, n)) = Range(q) \cup {n}
<1>1. /\ Len(q) \in Nat /\ DOMAIN q = 1..Len(q)
      /\ DOMAIN Append(q, n) = 1..(Len(q) + 1)
      /\ \A i \in 1..Len(q) : Append(q, n)[i] = q[i]
      /\ Append(q, n)[Len(q) + 1] = n
  BY AppendProperties, LenProperties
<1>2. \A i \in 1..(Len(q) + 1) : i \in 1..Len(q) \/ i = Len(q) + 1
  BY <1>1
<1>3. QED
  BY <1>1, <1>2 DEF Range

\* Taking the first frame off a websocket takes the message it carries, and no other.
LEMMA TailMessages ==
  ASSUME NEW q \in Seq(Ups), q # <<>>
  PROVE  Messages(q) \subseteq Messages(Tail(q))
                               \cup (IF Head(q).kind = "user" THEN {Head(q).n} ELSE {})
<1>1. /\ Len(q) \in Nat /\ DOMAIN q = 1..Len(q) /\ DOMAIN Tail(q) = 1..(Len(q) - 1)
      /\ \A i \in 1..(Len(q) - 1) : Tail(q)[i] = q[i + 1]
      /\ Head(q) = q[1]
  BY HeadTailProperties, LenProperties
<1>2. SUFFICES ASSUME NEW i \in 1..Len(q), q[i].kind = "user"
               PROVE  q[i].n \in Messages(Tail(q))
                                 \cup (IF Head(q).kind = "user" THEN {Head(q).n} ELSE {})
  BY <1>1 DEF Messages
<1>3. CASE i = 1
  BY <1>1, <1>2, <1>3
<1>4. CASE i # 1
  <2>1. i - 1 \in 1..(Len(q) - 1) /\ (i - 1) + 1 = i
    BY <1>1, <1>4
  <2>2. Tail(q)[i - 1] = q[i]
    BY <1>1, <2>1
  <2>3. q[i].n \in Messages(Tail(q))
    BY <1>1, <1>2, <2>1, <2>2 DEF Messages
  <2>4. QED
    BY <2>3
<1>5. QED
  BY <1>3, <1>4

VanishInv == WrittenAfterJoin /\ NothingVanishes

\* The flush puts the buffer on the websocket, or counts it as lost.
LEMMA SessionOpensVanish ==
  ASSUME TypeOK, OrderInv, VanishInv, NEW s \in Socket, SessionOpens(s)
  PROVE  VanishInv'
<1> DEFINE frames == [i \in DOMAIN out |-> User(out[i])]
<1>1. /\ UNCHANGED <<received, reliable>> /\ Write(s, frames)
      /\ joined' = joined \cup {s} /\ state # "closed"
  BY DEF SessionOpens, FlushOut
<1>2. Messages(frames) = Range(out) /\ frames \in Seq(Ups)
  BY FlushFramesOrder, FlushFramesType
<1> HIDE DEF frames
<1>3. /\ \A x \in Socket : Messages(up[x]) \subseteq Messages(up'[x])
      /\ \A x \in Socket \ {s} : Messages(up'[x]) = Messages(up[x])
      /\ Range(out) \subseteq Messages(up'[s]) \cup lost'
      /\ lost \subseteq lost'
  BY <1>1, <1>2, WriteMessages
<1>4. InTransit \subseteq InTransit'
  BY <1>1, <1>3 DEF InTransit
<1>5. QED
  BY <1>1, <1>3, <1>4, VanishStep DEF VanishInv

LEMMA SendNowVanish ==
  ASSUME TypeOK, TokenHeld, VanishInv, NEW r \in BOOLEAN, SendNow(r)
  PROVE  VanishInv'
<1>1. /\ UNCHANGED <<received, out, joined, state>> /\ Write(ws, <<User(next)>>)
      /\ ws \in joined /\ ws \in Socket /\ state = "open"
      /\ reliable' \subseteq reliable \cup {next} /\ next \in 1..MaxMsgs
  BY ClientAssumption DEF SendNow, Sends, TokenHeld, TypeOK
<1>2. <<User(next)>> \in Seq(Ups) /\ Messages(<<User(next)>>) = {next}
  <2>1. User(next) \in Ups
    BY <1>1, FrameTypes
  <2>2. DOMAIN <<User(next)>> = {1} /\ <<User(next)>>[1].kind = "user" /\ <<User(next)>>[1].n = next
    BY DEF User
  <2>3. QED
    BY <2>1, <2>2 DEF Messages
<1>3. /\ \A x \in Socket : Messages(up[x]) \subseteq Messages(up'[x])
      /\ \A x \in Socket \ {ws} : Messages(up'[x]) = Messages(up[x])
      /\ {next} \subseteq Messages(up'[ws]) \cup lost'
      /\ lost \subseteq lost'
  BY <1>1, <1>2, WriteMessages
<1>4. InTransit \subseteq InTransit' /\ next \in InTransit'
  BY <1>1, <1>3 DEF InTransit
<1>5. QED
  BY <1>1, <1>3, <1>4, VanishStep DEF VanishInv

LEMMA SendBufferedVanish ==
  ASSUME TypeOK, VanishInv, SendBuffered
  PROVE  VanishInv'
<1>1. /\ UNCHANGED <<received, up, lost, joined>>
      /\ state \in {"connecting", "reconnecting"}
      /\ reliable' \subseteq reliable \cup {next} /\ next \in 1..MaxMsgs
      /\ state' = "closed" \/ out' = Append(out, next)
  BY ClientAssumption DEF SendBuffered, Sends, EnterClosed, TypeOK
<1>2. state' # "closed" => Range(out') = Range(out) \cup {next}
  BY <1>1, RangeAppend DEF TypeOK
<1>3. state' # "closed" => InTransit \subseteq InTransit' /\ next \in InTransit'
  BY <1>1, <1>2 DEF InTransit
<1>4. QED
  BY <1>1, <1>3, VanishStep DEF VanishInv

\* A message that arrives belongs to a session the room still listens to, or to a seat
\* that was given up.
LEMMA RoomReadsVanish ==
  ASSUME TypeOK, JoinInv, VanishInv, NEW s \in Socket, RoomReads(s)
  PROVE  VanishInv'
<1> DEFINE f == Head(up[s])
<1>1. /\ srv[s] \in {"open", "closing"} /\ up[s] # <<>> /\ up[s] \in Seq(Ups)
      /\ up' = [up EXCEPT ![s] = Tail(up[s])]
      /\ UNCHANGED <<state, out, reliable, joined>>
  BY DEF RoomReads, TypeOK
<1>2. /\ received' = received \/ received' = Append(received, f.n)
      /\ lost' = lost \/ lost' = lost \cup {f.n}
  BY DEF RoomReads
<1>3. f.kind = "user" => f.n \in Messages(up[s]) /\ f.n \in 1..MaxMsgs
  <2>1. 1 \in DOMAIN up[s] /\ up[s][1] = f
    BY <1>1, HeadTailProperties, LenProperties, EmptySeq
  <2>2. f.kind = "user" => f.n \in Messages(up[s])
    BY <2>1 DEF Messages
  <2>3. QED
    BY <1>1, <2>2, MessagesType
<1>4. ASSUME f.kind = "user"
      PROVE  \/ received' = Append(received, f.n)
             \/ lost' = lost \cup {f.n}
  <2>1. s \in joined
    BY <1>3, <1>4 DEF VanishInv, WrittenAfterJoin
  <2>2. s \notin authing /\ (present => route = s /\ rsock # 0)
    BY <1>1, <2>1, SocketsAreNumbers DEF JoinInv, SeatFollows, Accepted
  <2>3. QED
    BY <1>4, <2>2 DEF RoomReads
<1>5. \A n \in 1..MaxMsgs : Range(Append(received, n)) = Range(received) \cup {n}
  BY RangeAppend DEF TypeOK
<1>6. f.kind # "user" => received' = received
  BY DEF RoomReads
<1>7. Range(received) \subseteq Range(received') /\ lost \subseteq lost'
  BY <1>2, <1>3, <1>5, <1>6
<1>8. f.kind = "user" => f.n \in Range(received') \cup lost'
  BY <1>3, <1>4, <1>5
<1>9. /\ \A x \in Socket \ {s} : up'[x] = up[x]
      /\ up'[s] = Tail(up[s])
  BY <1>1 DEF TypeOK
<1>10. /\ Messages(up[s]) \subseteq Messages(Tail(up[s]))
                                   \cup (IF f.kind = "user" THEN {f.n} ELSE {})
       /\ Messages(Tail(up[s])) \subseteq Messages(up[s])
  <2>1. Messages(Tail(up[s])) \subseteq Messages(up[s])
    <3>1. /\ Len(up[s]) \in Nat /\ DOMAIN up[s] = 1..Len(up[s])
          /\ DOMAIN Tail(up[s]) = 1..(Len(up[s]) - 1)
          /\ \A i \in 1..(Len(up[s]) - 1) : Tail(up[s])[i] = up[s][i + 1]
      BY <1>1, HeadTailProperties, LenProperties
    <3>2. \A i \in 1..(Len(up[s]) - 1) : i + 1 \in 1..Len(up[s])
      BY <3>1
    <3>3. QED
      BY <3>1, <3>2 DEF Messages
  <2>2. QED
    BY <1>1, <2>1, TailMessages
<1> HIDE DEF f
<1>11. InTransit \subseteq InTransit'
  <2>1. \A x \in Socket : Messages(up[x]) \subseteq InTransit'
    BY <1>8, <1>9, <1>10 DEF InTransit
  <2>2. QED
    BY <1>1, <1>7, <2>1 DEF InTransit
<1>12. QED
  BY <1>1, <1>9, <1>10, <1>11, VanishStep DEF VanishInv

LEMMA CloseEventVanish ==
  ASSUME TypeOK, VanishInv, NEW s \in Socket, RoomCloseEvent(s)
  PROVE  VanishInv'
<1>1. /\ \A x \in Socket : up'[x] = IF x = s THEN <<>> ELSE up[x]
      /\ lost' = lost \cup Messages(up[s])
      /\ UNCHANGED <<state, out, received, reliable, joined>>
  BY DEF RoomCloseEvent, TypeOK
<1>2. Messages(<<>>) = {}
  BY DEF Messages
<1>3. InTransit \subseteq InTransit'
  BY <1>1 DEF InTransit
<1>4. QED
  BY <1>1, <1>2, <1>3, VanishStep DEF VanishInv

LEMMA OthersSilent ==
  ASSUME TypeOK, TokenHeld, NEW s \in Socket,
         \/ Opened(s) \/ SessionIgnored(s) \/ SessionRejected(s) \/ AuthRejected(s)
         \/ ClientCloseEvent(s) \/ Upgrades(s) \/ AuthSettles(s) \/ LinkBreaks(s)
         \/ BackoffFires \/ UptimeFires \/ AppCloses \/ AppGivesUp
         \/ WindowEnds \/ RoomEvicts \/ RoomStops \/ UNCHANGED vars
  PROVE  Silent
<1>1. CASE UNCHANGED <<received, reliable, lost, joined, state, out, up>>
  BY <1>1 DEF Silent
<1>2. CASE \/ SessionIgnored(s) \/ AuthRejected(s) \/ Upgrades(s) \/ AuthSettles(s)
           \/ LinkBreaks(s) \/ BackoffFires \/ UptimeFires
           \/ WindowEnds \/ RoomEvicts \/ RoomStops \/ UNCHANGED vars
  BY <1>1, <1>2
  DEF SessionIgnored, AuthRejected, Upgrades, RoomOpens, RoomResumes, RoomRefuses,
      AuthSettles, RoomAccepts, RoomRejects, LinkBreaks, BackoffFires, UptimeFires,
      WindowEnds, RoomEvicts, RoomStops
<1>3. up \in [Socket -> Seq(Ups)]
  BY DEF TypeOK
<1>4. \A k \in Codes : Messages(Append(up[s], Signal(k))) = Messages(up[s])
  BY <1>3, SignalAppended
<1>5. CASE Opened(s)
  <2>1. up' = up \/ up' = [up EXCEPT ![s] = up[s]]
                 \/ up' = [up EXCEPT ![s] = Append(up[s], Signal("other"))]
    BY <1>3, <1>5 DEF Opened
  <2>2. \A x \in Socket : Messages(up'[x]) = Messages(up[x])
    BY <1>3, <1>4, <2>1 DEF Codes
  <2>3. QED
    BY <1>5, <2>2 DEF Opened, OpenedOn, Silent
<1>6. CASE ClientCloseEvent(s)
  <2>1. PICK k \in Codes :
          /\ AfterClose(k)
          /\ up' = [up EXCEPT ![s] =
                      IF cli[s] = "open" /\ ~cut[s] THEN Append(@, Signal(k)) ELSE @]
    BY <1>6 DEF ClientCloseEvent, CloseCode
  <2>2. \A x \in Socket : Messages(up'[x]) = Messages(up[x])
    BY <1>3, <1>4, <2>1
  <2>3. state' # "closed" => state # "closed" /\ out' = out
    BY <2>1 DEF AfterClose, EnterClosed, StartReconnect, Schedule
  <2>4. QED
    BY <1>6, <2>2, <2>3 DEF ClientCloseEvent, Silent
<1>7. CASE SessionRejected(s)
  <2>1. lost' = lost /\ \A x \in Socket : Messages(up'[x]) = Messages(up[x])
    BY <1>7, CloseSilent DEF SessionRejected
  <2>2. QED
    BY <1>7, <2>1 DEF SessionRejected, EnterClosed, Silent
<1>8. CASE AppCloses
  <2>1. ws \in Socket /\ UNCHANGED <<state, out, received, reliable, joined>>
    BY <1>8 DEF AppCloses, TokenHeld, TypeOK
  <2>2. PICK frames \in {<<>>, <<Signal("leave"), Signal("consented")>>} :
          CloseClient(ws, frames)
    BY <1>8 DEF AppCloses, LeaveAndClose
  <2>3. lost' = lost /\ \A x \in Socket : Messages(up'[x]) = Messages(up[x])
    BY <2>1, <2>2, CloseSilent
  <2>4. QED
    BY <2>1, <2>3 DEF Silent
<1>9. CASE AppGivesUp
  <2>1. state' = "closed" /\ UNCHANGED <<received, reliable, joined>>
    BY <1>9 DEF AppGivesUp, EnterClosed
  <2>2. CASE ws = 0
    BY <1>9, <2>1, <2>2 DEF AppGivesUp, Silent
  <2>3. CASE ws # 0
    <3>1. ws \in Socket /\ CloseClient(ws, <<Signal("other")>>)
      BY <1>9, <2>3 DEF AppGivesUp, TypeOK
    <3>2. lost' = lost /\ \A x \in Socket : Messages(up'[x]) = Messages(up[x])
      BY <3>1, CloseSilent
    <3>3. QED
      BY <2>1, <3>2 DEF Silent
  <2>4. QED
    BY <2>2, <2>3
<1>10. QED
  BY <1>2, <1>5, <1>6, <1>7, <1>8, <1>9

LEMMA NextVanish ==
  TypeOK /\ OrderInv /\ JoinInv /\ VanishInv /\ [Next]_vars => VanishInv'
<1> SUFFICES ASSUME TypeOK, OrderInv, JoinInv, VanishInv, [Next]_vars PROVE VanishInv'
  OBVIOUS
<1>1. TokenHeld /\ 1 \in Socket
  BY SocketsAreNumbers DEF JoinInv
<1>2. ASSUME Silent PROVE VanishInv'
  BY <1>2, SilentVanish DEF VanishInv
<1>3. ASSUME NEW s \in Socket, ClientEvent(s) PROVE VanishInv'
  BY <1>1, <1>2, <1>3, OthersSilent, SessionOpensVanish DEF ClientEvent
<1>4. ASSUME NEW s \in Socket,
             Upgrades(s) \/ AuthSettles(s) \/ RoomEvent(s) \/ LinkBreaks(s)
      PROVE  VanishInv'
  BY <1>1, <1>2, <1>4, OthersSilent, RoomReadsVanish, CloseEventVanish DEF RoomEvent
<1>5. CASE AppActs
  BY <1>1, <1>2, <1>5, OthersSilent, SendNowVanish, SendBufferedVanish DEF AppActs
<1>6. CASE BackoffFires \/ UptimeFires \/ WindowEnds \/ RoomEvicts \/ RoomStops
           \/ UNCHANGED vars
  BY <1>1, <1>2, <1>6, OthersSilent
<1>7. QED
  BY <1>3, <1>4, <1>5, <1>6 DEF Next

\* No reliable message is dropped silently: until the connection is closed it is with the
\* room, buffered, under way, or was lost with the websocket or the seat it was sent to.
THEOREM ReliableIsAccountedFor == Spec => []NothingVanishes
<1>1. TypeOK /\ OrderInv /\ [Next]_vars => OrderInv'
  BY NextOrder
<1>2. VanishInv => NothingVanishes
  BY DEF VanishInv
<1>3. Init => OrderInv /\ VanishInv
  BY InitOrder, InitVanish DEF VanishInv
<1>4. QED
  BY <1>1, <1>2, <1>3, JoinInvariant, NextVanish, PTL DEF Spec

=============================================================================
