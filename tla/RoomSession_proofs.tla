------------------------- MODULE RoomSession_proofs -------------------------
(***************************************************************************)
(* Proofs about RoomSession, for every set of clients and sockets.         *)
(***************************************************************************)
EXTENDS RoomSession, SequenceTheorems, TLAPS

\* Abbreviates the variable groups wherever UNCHANGED has to be expanded.
USE DEF vars, transport, record, room, history, Subscribers

-----------------------------------------------------------------------------
(* Type correctness.                                                       *)

\* An eviction keeps the maps well typed, whatever set of records it is given.
LEMMA ForgetType ==
  ASSUME TypeOK, NEW R, Forget(R)
  PROVE  /\ alive' \in [Socket -> BOOLEAN]
         /\ timer' \in [Socket -> BOOLEAN]
         /\ sessionTokens' \in [Socket -> Client \cup {NoClient}]
         /\ clients' \in [Client -> Socket \cup {NoSocket}]
         /\ left' \in [Socket -> Nat]
         /\ reported' \in SUBSET Client
BY DEF TypeOK, Forget

LEMMA CloseType ==
  ASSUME TypeOK, NEW S, Close(S)
  PROVE  ready' \in [Socket -> States]
BY DEF TypeOK, Close, States

\* Counters stay natural numbers when one of them moves by one.
LEMMA CountUp ==
  ASSUME NEW f \in [Socket -> Nat], NEW r \in Socket
  PROVE  [f EXCEPT ![r] = @ + 1] \in [Socket -> Nat]
OBVIOUS

LEMMA CountDown ==
  ASSUME NEW f \in [Socket -> Nat], NEW r \in Socket, f[r] > 0
  PROVE  [f EXCEPT ![r] = @ - 1] \in [Socket -> Nat]
<1>1. f[r] - 1 \in Nat
  OBVIOUS
<1>2. QED
  BY <1>1

\* A connection whose onAuth is pending was resolved to a client.
Resolved == \A s \in authing : owner[s] \in Client

LEMMA DeliverType ==
  ASSUME TypeOK, NEW W, NEW B, Deliver(W, B)
  PROVE  TypeOK'
<1>1. /\ sent' \in [Socket -> Seq(Nat)]
      /\ buffer' \in [Socket -> Seq(Nat)]
      /\ next' \in Nat
  BY DEF TypeOK, Deliver
<1>2. PICK R : Forget(R)
  BY DEF Deliver
<1>3. QED
  BY <1>1, <1>2, ForgetType DEF TypeOK, Deliver

LEMMA InitType == Init => TypeOK /\ Resolved
BY RoomAssumption DEF Init, TypeOK, States, Resolved

LEMMA NextType == TypeOK /\ Resolved /\ [Next]_vars => TypeOK'
<1> SUFFICES ASSUME TypeOK, Resolved, [Next]_vars PROVE TypeOK'
  OBVIOUS
<1>1. ASSUME NEW s \in Socket, NEW c \in Client, Open(s, c) PROVE TypeOK'
  BY <1>1 DEF TypeOK, Open, Adopt, Presented, Diverts, Unsubscribed, States
<1>2. ASSUME NEW s \in Socket, NEW c \in Client, RejectDuplicate(s, c) PROVE TypeOK'
  BY <1>2 DEF TypeOK, RejectDuplicate, Adopt, Presented, Diverts, Unsubscribed, States
<1>24. ASSUME NEW s \in Socket, RejectSession(s) PROVE TypeOK'
  BY <1>24 DEF TypeOK, RejectSession, States
<1>25. ASSUME NEW s \in Socket, NEW c \in Client, RejectNamed(s, c) PROVE TypeOK'
  BY <1>25 DEF TypeOK, RejectNamed, Adopt, Diverts, Unsubscribed, States
<1>3. ASSUME NEW s \in Socket, AuthAccept(s) PROVE TypeOK'
  <2>1. owner[s] \in Client
    BY <1>3 DEF AuthAccept, Resolved
  <2>2. QED
    BY <1>3, <2>1 DEF TypeOK, AuthAccept
<1>4. ASSUME NEW s \in Socket, AuthReject(s) PROVE TypeOK'
  BY <1>4, CloseType DEF TypeOK, AuthReject
<1>5. ASSUME NEW s \in Socket, NEW c \in Client, Reconnect(s, c) PROVE TypeOK'
  <2> DEFINE r == clients[c]
  <2>1. r \in Socket
    BY <1>5 DEF TypeOK, Reconnect
  <2>2. sent[r] \o buffer[r] \in Seq(Nat)
    BY <2>1 DEF TypeOK
  <2>3. sent' \in [Socket -> Seq(Nat)] /\ buffer' \in [Socket -> Seq(Nat)]
    <3>1. Flush(r)
      BY <1>5 DEF Reconnect
    <3> HIDE DEF r
    <3>2. sent' = [sent EXCEPT ![r] = sent[r] \o buffer[r]]
      BY <3>1 DEF Flush
    <3>3. buffer' = [buffer EXCEPT ![r] = <<>>]
      BY <3>1 DEF Flush
    <3>4. <<>> \in Seq(Nat)
      OBVIOUS
    <3>5. sent \in [Socket -> Seq(Nat)] /\ buffer \in [Socket -> Seq(Nat)]
      BY DEF TypeOK
    <3>6. QED
      BY <2>1, <2>2, <3>2, <3>3, <3>4, <3>5
  <2>4. /\ sessionTokens' \in [Socket -> Client \cup {NoClient}]
        /\ token' \in [Socket -> Socket]
    BY <1>5, <2>1 DEF TypeOK, Reconnect, Rotate
  <2>5. /\ ready' \in [Socket -> States]
        /\ owner' \in [Socket -> Client \cup {NoClient}]
        /\ clientSockets' \in [Client -> Socket \cup {NoSocket}]
        /\ subs' \in SUBSET Socket
        /\ timer' \in [Socket -> BOOLEAN]
        /\ socket' \in [Socket -> Socket \cup {NoSocket}]
        /\ reported' \in SUBSET Client
    BY <1>5, <2>1 DEF TypeOK, Reconnect, Adopt, Unsubscribed, CancelWindow, States
  <2>6. QED
    BY <1>5, <2>3, <2>4, <2>5 DEF TypeOK, Reconnect
<1>6. ASSUME NEW s \in Socket, PeerActs(s) PROVE TypeOK'
  <2>1. ASSUME NEW k \in Codes, PeerCloses(s, k) PROVE TypeOK'
    BY <2>1 DEF TypeOK, PeerCloses, States
  <2>2. CASE LeaveFrame(s)
    BY <2>2, CloseType DEF TypeOK, LeaveFrame
  <2>3. QED
    BY <1>6, <2>1, <2>2 DEF PeerActs
<1>7. ASSUME NEW s \in Socket, CloseStale(s) PROVE TypeOK'
  BY <1>7 DEF TypeOK, CloseStale, States
<1>8. ASSUME NEW s \in Socket, CloseUntracked(s) PROVE TypeOK'
  BY <1>8 DEF TypeOK, CloseUntracked, States
<1>9. ASSUME NEW s \in Socket, CloseLeave(s) PROVE TypeOK'
  <2> DEFINE r == clients[owner[s]]
  <2>1. Forget({r})
    BY <1>9 DEF CloseLeave
  <2>2. buffer' \in [Socket -> Seq(Nat)] /\ ready' \in [Socket -> States]
    <3>1. r \in Socket
      BY <1>9 DEF TypeOK, CloseLeave, IsCurrent
    <3>2. \A x \in Socket : ready'[x] \in States
      BY <1>9, <3>1 DEF TypeOK, CloseLeave, States
    <3>3. ready' = [x \in Socket |-> ready'[x]]
      BY <1>9 DEF CloseLeave
    <3>4. buffer \in [Socket -> Seq(Nat)] /\ <<>> \in Seq(Nat)
      BY DEF TypeOK
    <3>5. buffer' = [buffer EXCEPT ![r] = <<>>]
      BY <1>9 DEF CloseLeave
    <3> HIDE DEF r
    <3>6. QED
      BY <3>1, <3>2, <3>3, <3>4, <3>5
  <2>3. QED
    BY <1>9, <2>1, <2>2, ForgetType DEF TypeOK, CloseLeave
<1>10. ASSUME NEW s \in Socket, CloseDrop(s) PROVE TypeOK'
  <2> DEFINE r == clients[owner[s]]
  <2>1. r \in Socket /\ owner[s] \in Client
    BY <1>10 DEF TypeOK, CloseDrop, IsCurrent
  <2>2. dropping' \in [Socket -> Nat]
    BY <1>10, <2>1, CountUp DEF TypeOK, CloseDrop
  <2>3. QED
    BY <1>10, <2>1, <2>2 DEF TypeOK, CloseDrop, States
<1>11. ASSUME NEW r \in Socket, Evict(r)
       PROVE  /\ ready' \in [Socket -> States]
              /\ buffer' \in [Socket -> Seq(Nat)]
  <2>1. buffer' \in [Socket -> Seq(Nat)]
    BY <1>11 DEF TypeOK, Evict
  <2>2. QED
    BY <1>11, <2>1, CloseType DEF Evict
<1>12. ASSUME NEW r \in Socket, AllowReconnection(r) PROVE TypeOK'
  <2>1. dropping' \in [Socket -> Nat]
    BY <1>12 DEF TypeOK, AllowReconnection
  <2>2. stray' \in [Socket -> Nat] /\ timer' \in [Socket -> BOOLEAN]
    <3>1. [stray EXCEPT ![r] = @ + 1] \in [Socket -> Nat]
      BY CountUp DEF TypeOK
    <3>2. \/ stray' = stray
          \/ stray' = [stray EXCEPT ![r] = @ + 1]
      BY <1>12 DEF TypeOK, AllowReconnection
    <3>3. timer' \in [Socket -> BOOLEAN]
      BY <1>12 DEF TypeOK, AllowReconnection
    <3>4. QED
      BY <3>1, <3>2, <3>3 DEF TypeOK
  <2>3. QED
    BY <1>12, <2>1, <2>2 DEF TypeOK, AllowReconnection
<1>13. ASSUME NEW r \in Socket, DropEnds(r) PROVE dropping' \in [Socket -> Nat]
  BY <1>13, CountDown DEF TypeOK, DropEnds
<1>14. ASSUME NEW r \in Socket, DropSettles(r) PROVE TypeOK'
  <2>1. DropEnds(r)
    BY <1>14 DEF DropSettles, DropEvicts, DropReturns, DropThrows
  <2>2. CASE DropEvicts(r)
    BY <2>1, <2>2, <1>11, <1>13, ForgetType DEF TypeOK, DropEvicts, Evict
  <2>3. CASE DropReturns(r)
    BY <2>1, <2>3, <1>13 DEF TypeOK, DropReturns
  <2>4. CASE DropThrows(r)
    BY <2>1, <2>4, <1>13 DEF TypeOK, DropThrows
  <2>5. QED
    BY <1>14, <2>2, <2>3, <2>4 DEF DropSettles
<1>15. ASSUME NEW r \in Socket, TimerFires(r) PROVE TypeOK'
  BY <1>15, <1>11, ForgetType DEF TypeOK, TimerFires, Evict
<1>16. ASSUME NEW r \in Socket, StrayFires(r) PROVE TypeOK'
  <2>1. stray' \in [Socket -> Nat]
    BY <1>16 DEF TypeOK, StrayFires
  <2>2. QED
    BY <1>16, <2>1, <1>11, ForgetType DEF TypeOK, StrayFires, Evict
<1>17. ASSUME NEW r \in Socket, NEW reliable \in BOOLEAN, Send(r, reliable) PROVE TypeOK'
  BY <1>17, DeliverType DEF Send
<1>18. ASSUME AppBroadcasts PROVE TypeOK'
  BY <1>18, DeliverType DEF AppBroadcasts, Broadcast, BroadcastExcept
<1>19. ASSUME NEW r \in Socket, Disconnect(r) PROVE TypeOK'
  BY <1>19, <1>11, ForgetType DEF TypeOK, Disconnect, Evict
<1>20. CASE StopBegins
  BY <1>20 DEF TypeOK, StopBegins
<1>21. CASE StopEnds
  <2>1. /\ buffer' \in [Socket -> Seq(Nat)]
        /\ left' \in [Socket -> Nat]
    BY <1>21 DEF TypeOK, StopEnds
  <2>2. QED
    BY <1>21, <2>1, CloseType DEF TypeOK, StopEnds
<1>22. CASE UNCHANGED vars
  BY <1>22 DEF TypeOK
<1>23. QED
  BY <1>1, <1>2, <1>3, <1>4, <1>5, <1>6, <1>7, <1>8, <1>9, <1>10, <1>12, <1>14, <1>15,
     <1>16, <1>17, <1>18, <1>19, <1>20, <1>21, <1>22, <1>24, <1>25
  DEF Next, Connect, Authorise, Closed, AppActs

LEMMA NextResolved == TypeOK /\ Resolved /\ [Next]_vars => Resolved'
<1> SUFFICES ASSUME TypeOK, Resolved, [Next]_vars PROVE Resolved'
  OBVIOUS
<1>1. ASSUME NEW s \in Socket, Connect(s) PROVE Resolved'
  <2>1. ASSUME NEW c \in Client, Open(s, c) PROVE Resolved'
    BY <2>1 DEF TypeOK, Open, Adopt, Resolved
  <2>2. ASSUME NEW c \in Client, RejectDuplicate(s, c) PROVE Resolved'
    BY <2>2 DEF TypeOK, RejectDuplicate, Adopt, Resolved
  <2>3. ASSUME NEW c \in Client, Reconnect(s, c) PROVE Resolved'
    BY <2>3 DEF TypeOK, Reconnect, Adopt, Resolved
  <2>4. CASE RejectSession(s)
    BY <2>4 DEF RejectSession, Resolved
  <2>5. ASSUME NEW c \in Client, RejectNamed(s, c) PROVE Resolved'
    BY <2>5 DEF TypeOK, RejectNamed, Adopt, Resolved
  <2>6. QED
    BY <1>1, <2>1, <2>2, <2>3, <2>4, <2>5 DEF Connect
<1>2. ASSUME ~(\E s \in Socket : Connect(s)) PROVE owner' = owner /\ authing' \subseteq authing
  BY <1>2
  DEF Next, Authorise, AuthAccept, AuthReject, PeerActs, PeerCloses, LeaveFrame, Closed,
      CloseStale, CloseUntracked, CloseLeave, CloseDrop, AppActs, AllowReconnection,
      Disconnect, Send, DropSettles, DropEvicts, DropReturns, DropThrows, TimerFires,
      StrayFires, AppBroadcasts, Broadcast, BroadcastExcept, Deliver, StopBegins, StopEnds
<1>3. QED
  BY <1>1, <1>2 DEF Resolved

\* Every map, set and counter of the room and its transport keeps its type.
THEOREM TypeCorrect == Spec => []TypeOK
BY InitType, NextType, NextResolved, PTL DEF Spec

-----------------------------------------------------------------------------
(* Seats: who is in the room's map, who has left.                          *)

\* Used sockets stay used.
UsedStaysUsed == \A s \in Socket : ready'[s] = "unused" => ready[s] = "unused"

\* The variables of the seat and token invariants, but for those an eviction writes.
SeatFrame ==
  /\ UNCHANGED <<owner, token, authing, shared>>
  /\ UsedStaysUsed
  /\ phase' = "stopped" <=> phase = "stopped"

\* A step that is none of the other kinds writes none of those variables.
Quiet == SeatFrame /\ UNCHANGED <<alive, left, clients, sessionTokens, reported>>

LEMMA CloseUses ==
  ASSUME TypeOK, NEW S, Close(S)
  PROVE  UsedStaysUsed
BY DEF TypeOK, Close, UsedStaysUsed

\* The kinds of steps, as the invariants below see them.
LEMMA StepKinds ==
  ASSUME TypeOK, [Next]_vars
  PROVE  \/ \E s \in Socket, c \in Client : Open(s, c) \/ Reconnect(s, c)
         \/ \E s \in Socket, c \in Client : RejectDuplicate(s, c) \/ RejectNamed(s, c)
         \/ \E s \in Socket : AuthAccept(s) \/ AuthReject(s)
         \/ SeatFrame /\ \E R \in SUBSET Socket : Forget(R)
         \/ StopEnds
         \/ Quiet
<1> DEFINE Evicts == SeatFrame /\ \E R \in SUBSET Socket : Forget(R)
<1>1. ASSUME NEW s \in Socket, PeerActs(s) PROVE Quiet
  <2>1. ASSUME NEW k \in Codes, PeerCloses(s, k) PROVE Quiet
    BY <2>1 DEF TypeOK, PeerCloses, Quiet, SeatFrame, UsedStaysUsed
  <2>2. CASE LeaveFrame(s)
    BY <2>2, CloseUses DEF LeaveFrame, Quiet, SeatFrame
  <2>3. QED
    BY <1>1, <2>1, <2>2 DEF PeerActs
<1>2. ASSUME NEW s \in Socket, CloseCodes(s) # {}, ready' = [ready EXCEPT ![s] = "closed"]
      PROVE  UsedStaysUsed
  BY <1>2 DEF TypeOK, CloseCodes, UsedStaysUsed
<1>3. ASSUME NEW s \in Socket, Closed(s) PROVE Evicts \/ Quiet
  <2>1. CASE CloseStale(s)
    BY <2>1, <1>2 DEF CloseStale, Quiet, SeatFrame
  <2>2. CASE CloseUntracked(s)
    BY <2>2, <1>2 DEF CloseUntracked, Quiet, SeatFrame
  <2>3. CASE CloseDrop(s)
    <3>1. CloseCodes(s) # {}
      BY <2>3 DEF CloseDrop
    <3>2. QED
      BY <2>3, <3>1, <1>2 DEF CloseDrop, Quiet, SeatFrame
  <2>4. CASE CloseLeave(s)
    <3>1. clients[owner[s]] \in Socket /\ Forget({clients[owner[s]]})
      BY <2>4 DEF TypeOK, CloseLeave, IsCurrent
    <3>2. UsedStaysUsed
      <4>1. ready[s] # "unused"
        BY <2>4 DEF CloseLeave, CloseCodes
      <4>2. QED
        BY <2>4, <4>1 DEF TypeOK, CloseLeave, UsedStaysUsed
    <3>3. QED
      BY <2>4, <3>1, <3>2 DEF CloseLeave, SeatFrame
  <2>5. QED
    BY <1>3, <2>1, <2>2, <2>3, <2>4 DEF Closed
<1>4. ASSUME NEW r \in Socket, Evict(r), UNCHANGED <<owner, token, authing, shared, phase>>
      PROVE  Evicts
  BY <1>4, CloseUses DEF Evict, SeatFrame
<1>5. ASSUME NEW r \in Socket, AppActs(r) PROVE Evicts \/ Quiet
  <2>1. CASE AllowReconnection(r)
    BY <2>1 DEF AllowReconnection, Quiet, SeatFrame, UsedStaysUsed
  <2>2. CASE Disconnect(r)
    BY <2>2, <1>4 DEF Disconnect
  <2>3. ASSUME NEW reliable \in BOOLEAN, Send(r, reliable) PROVE Evicts
    BY <2>3 DEF Send, Deliver, SeatFrame, UsedStaysUsed
  <2>4. QED
    BY <1>5, <2>1, <2>2, <2>3 DEF AppActs
<1>6. ASSUME NEW r \in Socket, DropSettles(r) PROVE Evicts \/ Quiet
  <2>1. CASE DropEvicts(r)
    BY <2>1, <1>4 DEF DropEvicts
  <2>2. CASE DropReturns(r) \/ DropThrows(r)
    BY <2>2 DEF DropReturns, DropThrows, Quiet, SeatFrame, UsedStaysUsed
  <2>3. QED
    BY <1>6, <2>1, <2>2 DEF DropSettles
<1>7. ASSUME NEW r \in Socket, TimerFires(r) \/ StrayFires(r) PROVE Evicts
  BY <1>7, <1>4 DEF TimerFires, StrayFires
<1>8. CASE AppBroadcasts
  <2>1. PICK W \in SUBSET Socket, B \in SUBSET Socket : Deliver(W, B)
    BY <1>8 DEF AppBroadcasts, Broadcast, BroadcastExcept
  <2>2. Evicts
    BY <2>1 DEF Deliver, SeatFrame, UsedStaysUsed
  <2>3. QED
    BY <2>2
<1>9. CASE StopBegins \/ UNCHANGED vars
  BY <1>9 DEF StopBegins, Quiet, SeatFrame, UsedStaysUsed
<1>10. ASSUME NEW s \in Socket, RejectSession(s) PROVE Quiet
  BY <1>10 DEF TypeOK, RejectSession, Quiet, SeatFrame, UsedStaysUsed
<1>11. QED
  BY <1>1, <1>3, <1>5, <1>6, <1>7, <1>8, <1>9, <1>10 DEF Next, Connect, Authorise

\* A record is alive only after its onAuth accepted; it is left at most once.
RecordsOnce ==
  \A s \in Socket :
    /\ ready[s] = "unused" => s \notin authing /\ left[s] = 0
    /\ s \in authing => left[s] = 0
    /\ alive[s] => left[s] = 0 /\ owner[s] \in Client /\ s \notin authing
                    /\ ready[s] # "unused"
    /\ left[s] <= 1

\* What the room's map holds is alive and its owner's.
MapIsAlive ==
  \A c \in Client : clients[c] # NoSocket =>
    owner[clients[c]] = c /\ alive[clients[c]]

\* A seat never presented twice at once is used by one connection only.
OneUser ==
  \A s \in Socket : owner[s] \notin shared =>
    /\ alive[s] => clients[owner[s]] = s
    /\ s \in authing => /\ clients[owner[s]] = NoSocket
                        /\ \A x \in authing : owner[x] = owner[s] => x = s

\* A connection that presents the jwt of a seat in use is filed under that seat.
SharedAreDiverted == shared \subseteq diverted

SeatInv ==
  TypeOK /\ Resolved /\ RecordsOnce /\ MapIsAlive /\ OneUser /\ SharedAreDiverted

LEMMA InitSeat == Init => SeatInv
BY InitType, RoomAssumption
DEF Init, SeatInv, RecordsOnce, MapIsAlive, OneUser, SharedAreDiverted

LEMMA NextDiverted == SharedAreDiverted /\ [Next]_vars => SharedAreDiverted'
<1> SUFFICES ASSUME SharedAreDiverted, [Next]_vars PROVE SharedAreDiverted'
  OBVIOUS
<1>1. ASSUME NEW s \in Socket, Connect(s) PROVE SharedAreDiverted'
  BY <1>1
  DEF Connect, Open, RejectDuplicate, RejectNamed, RejectSession, Reconnect, Presented,
      Diverts, SharedAreDiverted
<1>2. ASSUME ~(\E s \in Socket : Connect(s)) PROVE UNCHANGED <<shared, diverted>>
  BY <1>2
  DEF Next, Authorise, AuthAccept, AuthReject, PeerActs, PeerCloses, LeaveFrame, Closed,
      CloseStale, CloseUntracked, CloseLeave, CloseDrop, AppActs, AllowReconnection,
      Disconnect, Send, DropSettles, DropEvicts, DropReturns, DropThrows, TimerFires,
      StrayFires, AppBroadcasts, Broadcast, BroadcastExcept, Deliver, StopBegins, StopEnds
<1>3. QED
  BY <1>1, <1>2 DEF SharedAreDiverted

\* Counting one departure for each of a set of records that had none.
LEMMA RecordsLeave ==
  ASSUME TypeOK, RecordsOnce, UsedStaysUsed, UNCHANGED <<owner, authing>>,
         NEW E \in SUBSET Socket,
         \A r \in E : left[r] = 0 /\ r \notin authing /\ ready[r] # "unused",
         \A s \in Socket : alive'[s] => alive[s] /\ s \notin E,
         left' = [r \in Socket |-> IF r \in E THEN left[r] + 1 ELSE left[r]]
  PROVE  RecordsOnce'
<1> SUFFICES ASSUME NEW s \in Socket
             PROVE  /\ ready'[s] = "unused" => s \notin authing /\ left'[s] = 0
                    /\ s \in authing => left'[s] = 0
                    /\ alive'[s] => left'[s] = 0 /\ owner[s] \in Client
                                     /\ s \notin authing /\ ready'[s] # "unused"
                    /\ left'[s] <= 1
  BY DEF RecordsOnce
<1>1. CASE s \in E
  <2>1. left'[s] = 1
    BY <1>1
  <2>2. QED
    BY <1>1, <2>1 DEF UsedStaysUsed
<1>2. CASE s \notin E
  BY <1>2 DEF RecordsOnce, UsedStaysUsed
<1>3. QED
  BY <1>1, <1>2

LEMMA NextSeat == SeatInv /\ [Next]_vars => SeatInv'
<1> SUFFICES ASSUME SeatInv, [Next]_vars PROVE (RecordsOnce /\ MapIsAlive /\ OneUser)'
  BY NextType, NextResolved, NextDiverted DEF SeatInv
<1> USE DEF SeatInv
<1>1. ASSUME NEW s \in Socket, NEW c \in Client, Open(s, c)
      PROVE  (RecordsOnce /\ MapIsAlive /\ OneUser)'
  <2> USE <1>1 DEF Open, Adopt
  <2>1. RecordsOnce'
    BY DEF TypeOK, RecordsOnce
  <2>2. MapIsAlive'
    BY DEF TypeOK, RecordsOnce, MapIsAlive
  <2>3. OneUser'
    <3> SUFFICES ASSUME NEW x \in Socket, owner'[x] \notin shared'
                 PROVE  /\ alive[x] => clients[owner'[x]] = x
                        /\ x \in authing' =>
                             /\ clients[owner'[x]] = NoSocket
                             /\ \A y \in authing' : owner'[y] = owner'[x] => y = x
      BY DEF OneUser
    <3>1. shared \subseteq shared' /\ (c \notin shared' => SeatFree(c))
      BY DEF Presented
    <3>2. s \notin authing /\ ~alive[s] /\ authing \subseteq Socket
      BY DEF TypeOK, RecordsOnce
    <3>3. owner'[s] = c /\ \A y \in Socket \ {s} : owner'[y] = owner[y]
      BY DEF TypeOK
    <3>4. CASE x = s
      BY <3>1, <3>2, <3>3, <3>4 DEF SeatFree
    <3>5. CASE x # s
      BY <3>1, <3>2, <3>3, <3>5 DEF OneUser, SeatFree
    <3>6. QED
      BY <3>4, <3>5
  <2>4. QED
    BY <2>1, <2>2, <2>3
<1>2. ASSUME NEW s \in Socket, NEW c \in Client, RejectDuplicate(s, c) \/ RejectNamed(s, c)
      PROVE  (RecordsOnce /\ MapIsAlive /\ OneUser)'
  <2>1. /\ ready[s] = "unused"
        /\ ready' = [ready EXCEPT ![s] = "closing"]
        /\ owner' = [owner EXCEPT ![s] = c]
        /\ UNCHANGED <<alive, left, authing, clients>>
        /\ shared \subseteq shared'
    BY <1>2 DEF RejectDuplicate, RejectNamed, Adopt, Presented
  <2>2. s \notin authing /\ ~alive[s] /\ authing \subseteq Socket
    BY <2>1 DEF RecordsOnce, TypeOK
  <2>3. \A y \in Socket : owner'[y] = IF y = s THEN c ELSE owner[y]
    BY <2>1 DEF TypeOK
  <2>4. RecordsOnce'
    BY <2>1, <2>2 DEF TypeOK, RecordsOnce
  <2>5. MapIsAlive'
    BY <2>1, <2>2 DEF TypeOK, MapIsAlive
  <2>6. OneUser'
    <3> SUFFICES ASSUME NEW x \in Socket, owner'[x] \notin shared'
                 PROVE  /\ alive[x] => clients[owner'[x]] = x
                        /\ x \in authing =>
                             /\ clients[owner'[x]] = NoSocket
                             /\ \A y \in authing : owner'[y] = owner'[x] => y = x
      BY <2>1 DEF OneUser
    <3>1. CASE x = s
      BY <2>2, <3>1
    <3>2. CASE x # s
      BY <2>1, <2>2, <2>3, <3>2 DEF OneUser
    <3>3. QED
      BY <3>1, <3>2
  <2>7. QED
    BY <2>4, <2>5, <2>6
<1>3. ASSUME NEW s \in Socket, AuthAccept(s)
      PROVE  (RecordsOnce /\ MapIsAlive /\ OneUser)'
  <2> USE <1>3 DEF AuthAccept
  <2>1. owner[s] \in Client /\ clients' = [clients EXCEPT ![owner[s]] = s]
    BY DEF Resolved
  <2>2. RecordsOnce'
    BY <2>1 DEF TypeOK, RecordsOnce
  <2>3. MapIsAlive'
    BY <2>1 DEF TypeOK, RecordsOnce, MapIsAlive
  <2>4. OneUser'
    <3> SUFFICES ASSUME NEW x \in Socket, owner[x] \notin shared
                 PROVE  /\ alive'[x] => clients'[owner[x]] = x
                        /\ x \in authing' =>
                             /\ clients'[owner[x]] = NoSocket
                             /\ \A y \in authing' : owner[y] = owner[x] => y = x
      BY DEF OneUser
    <3>1. x # s /\ alive[x] => owner[x] # owner[s] /\ clients[owner[x]] = x
      BY <2>1, RoomAssumption DEF TypeOK, RecordsOnce, OneUser
    <3>2. x # s /\ x \in authing => owner[x] # owner[s]
      BY <2>1 DEF TypeOK, OneUser
    <3>3. alive'[x] => clients'[owner[x]] = x
      BY <2>1, <3>1 DEF TypeOK, RecordsOnce
    <3>4. x \in authing' => clients'[owner[x]] = NoSocket
      BY <2>1, <3>2 DEF TypeOK, OneUser, Resolved
    <3>5. x \in authing' => \A y \in authing' : owner[y] = owner[x] => y = x
      BY DEF TypeOK, OneUser
    <3>6. QED
      BY <3>3, <3>4, <3>5
  <2>5. QED
    BY <2>2, <2>3, <2>4
<1>4. ASSUME NEW s \in Socket, AuthReject(s)
      PROVE  (RecordsOnce /\ MapIsAlive /\ OneUser)'
  <2>1. UsedStaysUsed
    BY <1>4, CloseUses DEF AuthReject
  <2>2. QED
    BY <1>4, <2>1
    DEF AuthReject, TypeOK, RecordsOnce, MapIsAlive, OneUser, UsedStaysUsed
<1>5. ASSUME NEW s \in Socket, NEW c \in Client, Reconnect(s, c)
      PROVE  (RecordsOnce /\ MapIsAlive /\ OneUser)'
  <2>1. /\ ready[s] = "unused"
        /\ ready' = [ready EXCEPT ![s] = "open"]
        /\ owner' = [owner EXCEPT ![s] = c]
        /\ UNCHANGED <<alive, left, authing, clients, shared>>
    BY <1>5 DEF Reconnect, Adopt
  <2>2. s \notin authing /\ ~alive[s]
    BY <2>1 DEF RecordsOnce
  <2>3. RecordsOnce'
    BY <2>1, <2>2 DEF TypeOK, RecordsOnce
  <2>4. MapIsAlive'
    BY <2>1, <2>2 DEF TypeOK, MapIsAlive
  <2>5. OneUser'
    BY <2>1, <2>2, SMTT(20) DEF TypeOK, OneUser
  <2>6. QED
    BY <2>3, <2>4, <2>5
<1>6. ASSUME SeatFrame, NEW R \in SUBSET Socket, Forget(R)
      PROVE  (RecordsOnce /\ MapIsAlive /\ OneUser)'
  <2> DEFINE E == Evictable(R)
  <2>1. /\ E \in SUBSET Socket /\ \A r \in E : alive[r] /\ left[r] = 0
        /\ alive' = [r \in Socket |-> alive[r] /\ r \notin E]
        /\ left' = [r \in Socket |-> IF r \in E THEN left[r] + 1 ELSE left[r]]
        /\ clients' = [c \in Client |->
                         IF \E r \in E : owner[r] = c THEN NoSocket ELSE clients[c]]
    BY <1>6 DEF Forget, Evictable, RecordsOnce
  <2> HIDE DEF E
  <2>2. RecordsOnce'
    <3>1. \A r \in E : left[r] = 0
      BY <2>1
    <3>2. \A s \in Socket : alive'[s] => alive[s] /\ s \notin E
      BY <2>1
    <3>3. \A r \in E : r \notin authing /\ ready[r] # "unused"
      BY <2>1 DEF RecordsOnce
    <3>4. QED
      BY <1>6, <2>1, <3>1, <3>2, <3>3, RecordsLeave DEF SeatFrame
  <2>3. MapIsAlive'
    BY <1>6, <2>1 DEF TypeOK, MapIsAlive, SeatFrame
  <2>4. OneUser'
    <3> SUFFICES ASSUME NEW x \in Socket, owner[x] \notin shared
                 PROVE  /\ alive'[x] => clients'[owner[x]] = x
                        /\ x \in authing =>
                             /\ clients'[owner[x]] = NoSocket
                             /\ \A y \in authing : owner[y] = owner[x] => y = x
      BY <1>6 DEF OneUser, SeatFrame
    <3>1. alive[x] /\ x \notin E => \A r \in E : owner[r] # owner[x]
      BY <2>1 DEF OneUser
    <3>2. alive'[x] => clients'[owner[x]] = x
      BY <2>1, <3>1 DEF TypeOK, RecordsOnce, OneUser
    <3>3. QED
      BY <2>1, <3>2 DEF TypeOK, Resolved, OneUser
  <2>5. QED
    BY <2>2, <2>3, <2>4
<1>7. CASE StopEnds
  <2> DEFINE all == {r \in Socket : Seated(r)}
  <2>1. /\ \A r \in all : alive[r] /\ left[r] = 0
        /\ \A r \in Socket : alive[r] /\ owner[r] \notin shared => r \in all
    <3>1. \A r \in all : alive[r]
      BY RoomAssumption DEF Seated, MapIsAlive
    <3>2. \A r \in Socket : alive[r] /\ owner[r] \notin shared => Seated(r)
      BY DEF Seated, RecordsOnce, OneUser
    <3>3. QED
      BY <3>1, <3>2 DEF RecordsOnce
  <2>2. /\ clients' = [c \in Client |-> NoSocket]
        /\ alive' = [r \in Socket |-> alive[r] /\ r \notin all]
        /\ left' = [r \in Socket |-> IF r \in all THEN left[r] + 1 ELSE left[r]]
        /\ UNCHANGED <<owner, authing, shared>>
        /\ UsedStaysUsed
    BY <1>7, CloseUses DEF StopEnds
  <2> HIDE DEF all
  <2>3. RecordsOnce'
    <3>1. \A r \in all : left[r] = 0 /\ r \notin authing /\ ready[r] # "unused"
      BY <2>1 DEF all, RecordsOnce
    <3>2. \A s \in Socket : alive'[s] => alive[s] /\ s \notin all
      BY <2>2
    <3>3. QED
      BY <2>2, <3>1, <3>2, RecordsLeave DEF all
  <2>4. MapIsAlive'
    BY <2>2 DEF MapIsAlive
  <2>5. OneUser'
    BY <2>1, <2>2 DEF TypeOK, Resolved, OneUser
  <2>6. QED
    BY <2>3, <2>4, <2>5
<1>8. CASE Quiet
  BY <1>8 DEF Quiet, SeatFrame, UsedStaysUsed, RecordsOnce, MapIsAlive, OneUser
<1>9. QED
  BY <1>1, <1>2, <1>3, <1>4, <1>5, <1>6, <1>7, <1>8, StepKinds

LEMMA SeatInvariant == Spec => []SeatInv
BY InitSeat, NextSeat, PTL DEF Spec

\* evictClient and stopRoom between them call onLeave exactly once per client that
\* joined, exactly when it leaves the room's map, whatever the order of closes,
\* drops, timers, overflows, disconnects and the stop.
THEOREM LeaveOnce == Spec => []LeavesExactlyOnce
<1>1. SeatInv => LeavesExactlyOnce
  <2> SUFFICES ASSUME SeatInv, NEW r \in Socket
               PROVE  /\ left[r] <= 1
                      /\ alive[r] => left[r] = 0
                      /\ alive[r] /\ owner[r] \notin shared => clients[owner[r]] = r
                      /\ Seated(r) => alive[r]
    BY DEF LeavesExactlyOnce
  <2>1. Seated(r) => alive[r]
    BY RoomAssumption DEF SeatInv, MapIsAlive, Seated
  <2>2. QED
    BY <2>1 DEF SeatInv, RecordsOnce, OneUser
<1>2. QED
  BY <1>1, SeatInvariant, PTL

-----------------------------------------------------------------------------
(* Session tokens, and what the parent server knows.                       *)

\* No two live records have the same token, and none has that of a socket that
\* has not joined.
TokensDistinct ==
  /\ \A r \in Socket : alive[r] => ready[token[r]] # "unused" /\ token[r] \notin authing
  /\ \A r, x \in Socket : alive[r] /\ alive[x] /\ token[r] = token[x] => r = x
  /\ \A t \in Socket : ready[t] = "unused" \/ t \in authing => sessionTokens[t] = NoClient

TokenInv == TokensDistinct /\ TokensMatchSeats /\ ParentInSync

LEMMA InitToken == Init => TokenInv
BY RoomAssumption DEF Init, TokenInv, TokensDistinct, TokensMatchSeats, ParentInSync

\* A client's part of TokensMatchSeats.
Matches(c) ==
  /\ clients[c] # NoSocket => /\ owner[clients[c]] = c
                             /\ alive[clients[c]]
                             /\ sessionTokens[token[clients[c]]] = c
  /\ \A t \in Socket : sessionTokens[t] = c => clients[c] # NoSocket /\ token[clients[c]] = t

LEMMA MatchesAll == TokensMatchSeats <=> \A c \in Client \ shared : Matches(c)
BY DEF TokensMatchSeats, Matches

\* Steps that write none of the variables of TokenInv, or only end an onAuth.
LEMMA TokenFrame ==
  ASSUME TypeOK, TokenInv, authing' \subseteq authing, UsedStaysUsed,
         UNCHANGED <<owner, token, shared, alive, clients, sessionTokens, reported>>,
         phase' = "stopped" <=> phase = "stopped"
  PROVE  TokenInv'
<1>1. TokensDistinct'
  BY DEF TypeOK, TokenInv, TokensDistinct, UsedStaysUsed
<1>2. TokensMatchSeats'
  BY DEF TokenInv, TokensMatchSeats
<1>3. ParentInSync'
  BY DEF TokenInv, ParentInSync
<1>4. QED
  BY <1>1, <1>2, <1>3 DEF TokenInv

LEMMA NextToken == SeatInv /\ SeatInv' /\ TokenInv /\ [Next]_vars => TokenInv'
<1> SUFFICES ASSUME SeatInv, SeatInv', TokenInv, [Next]_vars PROVE TokenInv'
  OBVIOUS
<1>1. ASSUME NEW s \in Socket, NEW c \in Client,
             Open(s, c) \/ RejectDuplicate(s, c) \/ RejectNamed(s, c)
      PROVE  TokenInv'
  <2>1. /\ ready[s] = "unused"
        /\ ready' \in {[ready EXCEPT ![s] = "open"], [ready EXCEPT ![s] = "closing"]}
        /\ owner' = [owner EXCEPT ![s] = c]
        /\ authing' \subseteq authing \cup {s}
        /\ shared \subseteq shared'
        /\ UNCHANGED <<alive, token, clients, sessionTokens, reported, phase>>
    BY <1>1 DEF Open, RejectDuplicate, RejectNamed, Adopt, Presented
  <2>2. TokensDistinct'
    <3>1. \A x \in Socket : ready'[x] = "unused" => ready[x] = "unused" /\ x # s
      BY <2>1 DEF SeatInv, TypeOK
    <3>2. \A r \in Socket : alive[r] => token[r] # s /\ token[r] \in Socket
      BY <2>1 DEF SeatInv, TypeOK, TokenInv, TokensDistinct
    <3>3. sessionTokens[s] = NoClient
      BY <2>1 DEF TokenInv, TokensDistinct
    <3>4. QED
      BY <2>1, <3>1, <3>2, <3>3 DEF TokenInv, TokensDistinct
  <2>3. TokensMatchSeats'
    <3> SUFFICES ASSUME NEW d \in Client \ shared PROVE Matches(d)'
      BY <2>1, MatchesAll DEF TokensMatchSeats, Matches
    <3>1. Matches(d)
      BY MatchesAll DEF TokenInv
    <3>2. clients[d] # NoSocket => clients[d] # s /\ clients[d] \in Socket
      BY <2>1 DEF SeatInv, TypeOK, MapIsAlive, RecordsOnce
    <3>3. clients[d] # NoSocket => owner'[clients[d]] = owner[clients[d]]
      BY <2>1, <3>2 DEF SeatInv, TypeOK
    <3>4. QED
      BY <2>1, <3>1, <3>3 DEF Matches
  <2>4. ParentInSync'
    BY <2>1 DEF TokenInv, ParentInSync
  <2>5. QED
    BY <2>2, <2>3, <2>4 DEF TokenInv
<1>2. ASSUME NEW s \in Socket, AuthAccept(s) PROVE TokenInv'
  <2> USE <1>2 DEF AuthAccept
  <2>1. owner[s] \in Client /\ ~alive[s] /\ sessionTokens[s] = NoClient
    BY DEF SeatInv, Resolved, RecordsOnce, TokenInv, TokensDistinct
  <2>2. TokensDistinct'
    <3>1. \A r \in Socket : alive[r] => r # s /\ token[r] # s
      BY <2>1 DEF TokenInv, TokensDistinct
    <3>2. ready[s] # "unused"
      BY DEF SeatInv, RecordsOnce
    <3>3. alive' = [alive EXCEPT ![s] = TRUE] /\ token' = [token EXCEPT ![s] = s]
          /\ ready' = ready /\ authing' = authing \ {s}
      OBVIOUS
    <3>4. /\ token'[s] = s
          /\ \A r \in Socket \ {s} : alive'[r] = alive[r] /\ token'[r] = token[r]
      BY <3>3 DEF SeatInv, TypeOK
    <3>5. \A r \in Socket : alive'[r] => ready'[token'[r]] # "unused" /\ token'[r] \notin authing'
      BY <3>1, <3>2, <3>3, <3>4 DEF TokenInv, TokensDistinct
    <3>6. \A r, x \in Socket : alive'[r] /\ alive'[x] /\ token'[r] = token'[x] => r = x
      BY <3>1, <3>4 DEF TokenInv, TokensDistinct
    <3>7. \A t \in Socket : ready'[t] = "unused" \/ t \in authing' => sessionTokens'[t] = NoClient
      BY <3>2, <3>3 DEF SeatInv, TypeOK, TokenInv, TokensDistinct
    <3>8. QED
      BY <3>5, <3>6, <3>7 DEF TokensDistinct
  <2>3. ASSUME NEW c \in Client \ shared, c = owner[s]
        PROVE  /\ clients'[c] = s /\ alive'[s] /\ token'[s] = s /\ sessionTokens'[s] = c
               /\ \A t \in Socket : sessionTokens'[t] = c => t = s
    <3>1. clients[c] = NoSocket
      BY <2>3 DEF SeatInv, OneUser
    <3>2. QED
      BY <2>3, <3>1 DEF SeatInv, TypeOK, TokenInv, TokensMatchSeats
  <2>4. ASSUME NEW c \in Client \ shared, c # owner[s]
        PROVE  /\ clients'[c] = clients[c]
               /\ clients[c] # NoSocket =>
                    /\ clients[c] # s /\ token[clients[c]] # s
                    /\ alive'[clients[c]] /\ token'[clients[c]] = token[clients[c]]
               /\ \A t \in Socket : sessionTokens'[t] = c <=> sessionTokens[t] = c
    <3>1. clients[c] # NoSocket => clients[c] # s /\ token[clients[c]] # s
      <4>1. clients[c] # NoSocket => clients[c] \in Socket /\ alive[clients[c]]
        BY DEF SeatInv, TypeOK, MapIsAlive
      <4>2. \A r \in Socket : alive[r] => token[r] \notin authing
        BY DEF TokenInv, TokensDistinct
      <4>3. QED
        BY <2>1, <4>1, <4>2
    <3>2. \A t \in Socket : sessionTokens'[t] = c <=> sessionTokens[t] = c
      BY <2>1, <2>4, RoomAssumption, SMTT(20) DEF SeatInv, TypeOK
    <3>3. QED
      BY <2>1, <2>4, <3>1, <3>2 DEF SeatInv, TypeOK, MapIsAlive
  <2>5. TokensMatchSeats'
    <3> SUFFICES ASSUME NEW c \in Client \ shared
                 PROVE  /\ clients'[c] # NoSocket =>
                             /\ owner[clients'[c]] = c
                             /\ alive'[clients'[c]]
                             /\ sessionTokens'[token'[clients'[c]]] = c
                        /\ \A t \in Socket : sessionTokens'[t] = c =>
                             clients'[c] # NoSocket /\ token'[clients'[c]] = t
      BY DEF TokensMatchSeats
    <3>1. CASE c = owner[s]
      BY <3>1, <2>3, RoomAssumption
    <3>2. CASE c # owner[s]
      <4>1. Matches(c)
        BY MatchesAll DEF TokenInv
      <4>2. clients[c] # NoSocket =>
              sessionTokens'[token[clients[c]]] = sessionTokens[token[clients[c]]]
        BY <3>2, <2>4 DEF SeatInv, TypeOK
      <4>3. QED
        BY <3>2, <2>4, <4>1, <4>2 DEF Matches
    <3>3. QED
      BY <3>1, <3>2
  <2>6. ParentInSync'
    BY <2>1, RoomAssumption DEF SeatInv, TypeOK, TokenInv, ParentInSync
  <2>7. QED
    BY <2>2, <2>5, <2>6 DEF TokenInv
<1>3. ASSUME NEW s \in Socket, AuthReject(s) PROVE TokenInv'
  <2>1. UsedStaysUsed
    BY <1>3, CloseUses DEF AuthReject, SeatInv
  <2>2. QED
    BY <1>3, <2>1, TokenFrame DEF AuthReject, SeatInv
<1>4. ASSUME NEW s \in Socket, NEW c \in Client, Reconnect(s, c) PROVE TokenInv'
  <2> DEFINE r == clients[c]
  <2>1. /\ r \in Socket /\ owner[r] = c /\ alive[r]
        /\ ready[s] = "unused" /\ s \notin authing /\ ~alive[s]
        /\ ready' = [ready EXCEPT ![s] = "open"]
        /\ owner' = [owner EXCEPT ![s] = c]
        /\ token' = [token EXCEPT ![r] = s]
        /\ sessionTokens' = [sessionTokens EXCEPT ![token[r]] = NoClient, ![s] = c]
        /\ reported' = reported \cup {c}
        /\ phase # "stopped"
        /\ UNCHANGED <<alive, authing, clients, shared, phase>>
    <3>1. r \in Socket
      BY <1>4 DEF Reconnect, SeatInv, TypeOK
    <3>2. owner[r] = c /\ alive[r]
      BY <3>1, RoomAssumption DEF SeatInv, MapIsAlive
    <3>3. ready[s] = "unused" /\ s \notin authing /\ ~alive[s]
      BY <1>4 DEF Reconnect, Adopt, SeatInv, RecordsOnce
    <3>4. QED
      BY <1>4, <3>1, <3>2, <3>3 DEF Reconnect, Adopt, Rotate
  <2> HIDE DEF r
  <2>1a. /\ token[r] \in Socket
         /\ \A x \in Socket : ready'[x] = IF x = s THEN "open" ELSE ready[x]
         /\ \A x \in Socket : token'[x] = IF x = r THEN s ELSE token[x]
         /\ \A x \in Socket : sessionTokens'[x] = IF x = s THEN c
                                                ELSE IF x = token[r] THEN NoClient
                                                     ELSE sessionTokens[x]
    <3>1. token[r] \in Socket
      BY <2>1 DEF SeatInv, TypeOK
    <3>2. /\ \A x \in Socket : ready'[x] = IF x = s THEN "open" ELSE ready[x]
          /\ \A x \in Socket : token'[x] = IF x = r THEN s ELSE token[x]
      BY <2>1 DEF SeatInv, TypeOK
    <3>3. ASSUME NEW x \in Socket
          PROVE  sessionTokens'[x] = IF x = s THEN c ELSE IF x = token[r] THEN NoClient
                                                          ELSE sessionTokens[x]
      <4> DEFINE rotated == [sessionTokens EXCEPT ![token[r]] = NoClient]
      <4>1. sessionTokens' = [rotated EXCEPT ![s] = c]
        BY <2>1
      <4>2. /\ rotated \in [Socket -> Client \cup {NoClient}]
            /\ rotated[x] = IF x = token[r] THEN NoClient ELSE sessionTokens[x]
        BY <3>1 DEF SeatInv, TypeOK
      <4> HIDE DEF rotated
      <4>3. sessionTokens'[x] = IF x = s THEN c ELSE rotated[x]
        BY <4>1, <4>2
      <4>4. QED
        BY <4>2, <4>3
    <3>4. QED
      BY <3>1, <3>2, <3>3
  <2>2. \A x \in Socket : alive[x] => token[x] # s /\ (x # r => token[x] # token[r])
    BY <2>1 DEF TokenInv, TokensDistinct
  <2>3. TokensDistinct'
    <3>1. ASSUME NEW x \in Socket, alive[x]
          PROVE  ready'[token'[x]] # "unused" /\ token'[x] \notin authing
      <4>1. token[x] \in Socket /\ ready[token[x]] # "unused" /\ token[x] \notin authing
        BY <3>1 DEF SeatInv, TypeOK, TokenInv, TokensDistinct
      <4>2. QED
        BY <2>1, <2>1a, <4>1
    <3>2. \A x, y \in Socket : alive[x] /\ alive[y] /\ token'[x] = token'[y] => x = y
      BY <2>1, <2>1a, <2>2 DEF TokenInv, TokensDistinct
    <3>3. ASSUME NEW x \in Socket, ready'[x] = "unused" \/ x \in authing
          PROVE  sessionTokens'[x] = NoClient
      <4>1. x # s /\ (ready[x] = "unused" \/ x \in authing)
        BY <2>1, <2>1a, <3>3
      <4>2. sessionTokens[x] = NoClient
        BY <4>1 DEF TokenInv, TokensDistinct
      <4>3. QED
        BY <2>1a, <4>1, <4>2
    <3>4. alive' = alive /\ authing' = authing
      BY <2>1
    <3>5. QED
      BY <3>1, <3>2, <3>3, <3>4 DEF TokensDistinct
  <2>4. TokensMatchSeats'
    <3> SUFFICES ASSUME NEW d \in Client \ shared
                 PROVE  /\ clients[d] # NoSocket =>
                             /\ owner'[clients[d]] = d
                             /\ alive[clients[d]]
                             /\ sessionTokens'[token'[clients[d]]] = d
                        /\ \A y \in Socket : sessionTokens'[y] = d =>
                             clients[d] # NoSocket /\ token'[clients[d]] = y
      <4>1. clients' = clients /\ alive' = alive /\ shared' = shared
        BY <2>1
      <4>2. QED
        BY <4>1 DEF TokensMatchSeats
    <3> Matches(d)
      BY MatchesAll DEF TokenInv
    <3>1. clients[d] # NoSocket => owner'[clients[d]] = d /\ alive[clients[d]]
      BY <2>1 DEF SeatInv, TypeOK, MapIsAlive
    <3>2. CASE d = c
      <4>1. clients[d] = r /\ r # NoSocket /\ token'[r] = s /\ sessionTokens'[s] = c
        BY <2>1, <3>2, RoomAssumption DEF SeatInv, TypeOK, r
      <4>2. \A y \in Socket : sessionTokens'[y] = c => y = s
        BY <2>1, <2>1a, <3>2, <4>1, RoomAssumption DEF Matches
      <4>3. QED
        BY <3>1, <3>2, <4>1, <4>2
    <3>3. CASE d # c
      <4>1. clients[d] # NoSocket => clients[d] # r /\ token'[clients[d]] = token[clients[d]]
        BY <2>1, <3>3 DEF SeatInv, TypeOK, MapIsAlive
      <4>2. clients[d] # NoSocket =>
              sessionTokens'[token[clients[d]]] = sessionTokens[token[clients[d]]]
        <5>1. clients[d] # NoSocket => clients[d] \in Socket /\ alive[clients[d]]
          BY DEF SeatInv, TypeOK, MapIsAlive
        <5>2. clients[d] # NoSocket =>
                /\ token[clients[d]] \in Socket
                /\ token[clients[d]] # s /\ token[clients[d]] # token[r]
          BY <2>2, <4>1, <5>1 DEF SeatInv, TypeOK
        <5>3. QED
          BY <2>1a, <5>2
      <4>3. \A y \in Socket : sessionTokens'[y] = d => sessionTokens[y] = d
        BY <2>1, <3>3, RoomAssumption DEF SeatInv, TypeOK
      <4>4. QED
        BY <3>1, <4>1, <4>2, <4>3 DEF Matches
    <3>4. QED
      BY <3>2, <3>3
  <2>5. ParentInSync'
    <3>1. clients[c] # NoSocket
      BY <2>1, RoomAssumption DEF r
    <3>2. QED
      BY <2>1, <3>1 DEF TokenInv, ParentInSync
  <2>6. QED
    BY <2>3, <2>4, <2>5 DEF TokenInv
<1>5. ASSUME SeatFrame, NEW R \in SUBSET Socket, Forget(R) PROVE TokenInv'
  <2> DEFINE E == Evictable(R)
  <2>1. /\ E \in SUBSET Socket /\ \A r \in E : alive[r]
        /\ alive' = [r \in Socket |-> alive[r] /\ r \notin E]
        /\ sessionTokens' = [t \in Socket |-> IF \E r \in E : token[r] = t
                                             THEN NoClient ELSE sessionTokens[t]]
        /\ clients' = [c \in Client |->
                         IF \E r \in E : owner[r] = c THEN NoSocket ELSE clients[c]]
        /\ reported' = reported \ {owner[r] : r \in E}
    BY <1>5 DEF Forget, Evictable, Departed
  <2> HIDE DEF E
  <2>2. TokensDistinct'
    BY <1>5, <2>1 DEF SeatFrame, UsedStaysUsed, SeatInv, TypeOK, TokenInv, TokensDistinct
  <2>3. ASSUME NEW c \in Client \ shared, NEW e \in E, owner[e] = c
        PROVE  clients[c] = e /\ clients'[c] = NoSocket
               /\ \A t \in Socket : sessionTokens'[t] # c
    <3>1. clients[c] = e /\ e # NoSocket
      BY <2>1, <2>3, RoomAssumption DEF SeatInv, OneUser
    <3>2. \A t \in Socket : sessionTokens[t] = c => t = token[e]
      BY <3>1 DEF TokenInv, TokensMatchSeats
    <3>3. QED
      BY <2>1, <2>3, <3>1, <3>2, RoomAssumption
  <2>4. ASSUME NEW c \in Client \ shared, \A e \in E : owner[e] # c
        PROVE  /\ clients'[c] = clients[c]
               /\ clients[c] # NoSocket =>
                    /\ clients[c] \notin E /\ alive[clients[c]]
                    /\ \A e \in E : token[e] # token[clients[c]]
               /\ \A t \in Socket : sessionTokens'[t] = c => sessionTokens[t] = c
    <3>1. clients[c] # NoSocket => clients[c] \notin E /\ alive[clients[c]]
      BY <2>4 DEF SeatInv, MapIsAlive
    <3>2. clients[c] # NoSocket => \A e \in E : token[e] # token[clients[c]]
      BY <2>1, <3>1 DEF SeatInv, TypeOK, TokenInv, TokensDistinct
    <3>3. QED
      BY <2>1, <2>4, <3>1, <3>2, RoomAssumption
  <2>5. TokensMatchSeats'
    <3> SUFFICES ASSUME NEW c \in Client \ shared
                 PROVE  /\ clients'[c] # NoSocket =>
                             /\ owner[clients'[c]] = c
                             /\ alive'[clients'[c]]
                             /\ sessionTokens'[token[clients'[c]]] = c
                        /\ \A t \in Socket : sessionTokens'[t] = c =>
                             clients'[c] # NoSocket /\ token[clients'[c]] = t
      BY <1>5 DEF TokensMatchSeats, SeatFrame
    <3>1. CASE \E e \in E : owner[e] = c
      BY <3>1, <2>3
    <3>2. CASE \A e \in E : owner[e] # c
      <4>1. Matches(c)
        BY MatchesAll DEF TokenInv
      <4>2. clients[c] # NoSocket => clients[c] \in Socket /\ token[clients[c]] \in Socket
        BY DEF SeatInv, TypeOK
      <4>3. clients[c] # NoSocket =>
              /\ sessionTokens'[token[clients[c]]] = sessionTokens[token[clients[c]]]
              /\ alive'[clients[c]]
        BY <3>2, <2>1, <2>4, <4>2
      <4>4. QED
        BY <3>2, <2>4, <4>1, <4>2, <4>3 DEF Matches
    <3>3. QED
      BY <3>1, <3>2
  <2>6. ParentInSync'
    <3> SUFFICES ASSUME NEW c \in Client \ shared
                 PROVE  c \in reported' <=> clients'[c] # NoSocket /\ phase # "stopped"
      BY <1>5 DEF SeatFrame, ParentInSync
    <3>1. c \in reported <=> clients[c] # NoSocket /\ phase # "stopped"
      BY DEF TokenInv, ParentInSync
    <3>2. QED
      BY <2>1, <2>3, <2>4, <3>1
  <2>7. QED
    BY <2>2, <2>5, <2>6 DEF TokenInv
<1>6. CASE StopEnds
  <2>1. /\ clients' = [c \in Client |-> NoSocket]
        /\ sessionTokens' = [t \in Socket |-> NoClient]
        /\ \A r \in Socket : alive'[r] => alive[r]
        /\ reported' = reported \ {owner[r] : r \in {x \in Socket : Seated(x)}}
        /\ UNCHANGED <<owner, token, authing, shared>>
        /\ UsedStaysUsed
        /\ phase' = "stopped"
    BY <1>6, CloseUses DEF StopEnds, SeatInv
  <2>2. TokensDistinct'
    BY <2>1 DEF SeatInv, TypeOK, UsedStaysUsed, TokenInv, TokensDistinct
  <2>3. TokensMatchSeats'
    BY <2>1, RoomAssumption DEF TokensMatchSeats
  <2>4. \A c \in Client \ shared : c \in reported =>
          clients[c] \in Socket /\ Seated(clients[c]) /\ owner[clients[c]] = c
    BY DEF SeatInv, TypeOK, MapIsAlive, TokenInv, ParentInSync, Seated
  <2>5. ParentInSync'
    BY <2>1, <2>4 DEF ParentInSync
  <2>6. QED
    BY <2>2, <2>3, <2>5 DEF TokenInv
<1>7. CASE Quiet
  BY <1>7, TokenFrame DEF Quiet, SeatFrame, SeatInv
<1>8. QED
  BY <1>1, <1>2, <1>3, <1>4, <1>5, <1>6, <1>7, StepKinds DEF SeatInv

LEMMA TokenInvariant == Spec => [](SeatInv /\ TokenInv)
BY InitSeat, NextSeat, InitToken, NextToken, PTL DEF Spec

\* A session token opens exactly the seat of the record that carries it: rotation in
\* reconnect(), deletion in evictClient and the clearing in stopRoom leave no token
\* that opens another client's seat, a departed client's, or none.
THEOREM TokensOpenTheirSeats == Spec => []TokensMatchSeats
BY TokenInvariant, PTL DEF TokenInv

\* The parent server's view, built from client-connected and client-disconnected
\* alone, is always the set of seated clients, and empty once the room has stopped.
THEOREM ParentKnowsSeats == Spec => []ParentInSync
BY TokenInvariant, PTL DEF TokenInv

-----------------------------------------------------------------------------
(* Routes: which sockets the transport and the room believe in.            *)

\* A socket on which nobody has joined yet carries no record.
FreshSockets ==
  \A s \in Socket : ready[s] = "unused" \/ s \in authing => socket[s] = NoSocket

\* A socket is only ever used for the client it was opened for.
SocketsOwned ==
  /\ \A c \in Client : clientSockets[c] # NoSocket =>
       owner[clientSockets[c]] = c /\ ready[clientSockets[c]] # "unused"
  /\ \A r \in Socket : socket[r] # NoSocket =>
       owner[socket[r]] = owner[r] /\ ready[socket[r]] # "unused"
  /\ \A s \in subs : ready[s] # "unused" /\ s \notin authing

\* The transport's socket of a client is the one its onAuth is pending for, or the
\* one its record has, or none: none for a record only if it was tracked too late.
RoutesAgree ==
  /\ \A s \in authing : owner[s] \notin diverted =>
       \/ clientSockets[owner[s]] = s
       \/ clientSockets[owner[s]] = NoSocket /\ ready[s] = "closed"
  /\ \A c \in Client \ diverted : clients[c] # NoSocket =>
       /\ clientSockets[c] \in {socket[clients[c]], NoSocket}
       /\ socket[clients[c]] # NoSocket /\ clients[c] \notin late =>
            /\ ready[socket[clients[c]]] # "closed"
            /\ clientSockets[c] = socket[clients[c]]
            /\ socket[clients[c]] \in subs

\* An open socket is in the transport's map, and onAuth is pending on it or its client
\* is tracked with it.
OpenIsKnown ==
  \A s \in Socket : ready[s] = "open" =>
    /\ owner[s] \in Client
    /\ owner[s] \notin diverted =>
         /\ clientSockets[owner[s]] = s
         /\ s \in authing \/ (clients[owner[s]] # NoSocket /\ socket[clients[owner[s]]] = s)

\* A subscribed socket is that of a client that joined.
SubscribersJoined ==
  \A s \in subs : owner[s] \notin diverted =>
    \E r \in Socket : socket[r] = s /\ (alive[r] \/ left[r] = 1)

\* What a stopped room still has.
StoppedIsEmpty ==
  phase = "stopped" =>
    /\ \A c \in Client : clients[c] \in late \cup {NoSocket}
    /\ \A s \in Socket : ready[s] = "open" => owner[s] \in diverted

RouteInv ==
  FreshSockets /\ SocketsOwned /\ RoutesAgree /\ OpenIsKnown /\ SubscribersJoined
    /\ StoppedIsEmpty

LEMMA InitRoute == Init => RouteInv
BY RoomAssumption
DEF Init, RouteInv, FreshSockets, SocketsOwned, RoutesAgree, OpenIsKnown,
    SubscribersJoined, StoppedIsEmpty

\* Sockets may stop being open, and no more.
Softens ==
  \A s \in Socket : /\ ready'[s] = "open" => ready[s] = "open"
                    /\ ready'[s] = "closed" <=> ready[s] = "closed"
                    /\ ready'[s] = "unused" <=> ready[s] = "unused"

LEMMA CloseSoftens ==
  ASSUME TypeOK, NEW S, Close(S)
  PROVE  Softens /\ \A s \in S \cap Socket : ready'[s] # "open"
BY DEF TypeOK, Close, Softens

\* The variables of RouteInv but for those an eviction writes.
RouteFrame == UNCHANGED <<owner, clientSockets, subs, socket, authing, late, diverted>>

Calm ==
  /\ RouteFrame /\ Softens
  /\ UNCHANGED <<alive, left, clients>>
  /\ phase' = "stopped" => phase = "stopped"

\* Records are evicted, and their sockets closed.
Evicting ==
  /\ RouteFrame /\ Softens
  /\ UNCHANGED phase
  /\ \E R \in SUBSET Socket :
       /\ Forget(R)
       /\ \A r \in Evictable(R) : socket[r] # NoSocket => ready'[socket[r]] # "open"

LEMMA EvictRoutes ==
  ASSUME TypeOK, NEW r \in Socket, Evict(r), RouteFrame, UNCHANGED phase
  PROVE  Evicting
<1>1. Forget({r}) /\ Close(IF alive[r] THEN {socket[r]} ELSE {})
  BY DEF Evict
<1>2. Softens
  BY <1>1, CloseSoftens
<1>3. alive[r] /\ socket[r] # NoSocket => ready'[socket[r]] # "open"
  <2> SUFFICES ASSUME alive[r], socket[r] # NoSocket PROVE ready'[socket[r]] # "open"
    OBVIOUS
  <2>1. Close({socket[r]}) /\ socket[r] \in Socket
    BY <1>1 DEF TypeOK
  <2>2. QED
    BY <2>1, CloseSoftens
<1>4. QED
  BY <1>1, <1>2, <1>3 DEF Evicting, Evictable

\* A delivery evicts records that have no socket.
LEMMA DeliverRoutes ==
  ASSUME NEW W, NEW B \in SUBSET Socket, \A r \in B : socket[r] = NoSocket, Deliver(W, B)
  PROVE  Evicting
<1> DEFINE full == {r \in B : Len(buffer[r]) + 1 > MaxBuffer}
<1>1. Forget(full) /\ full \in SUBSET Socket /\ \A r \in full : socket[r] = NoSocket
  BY DEF Deliver
<1> HIDE DEF full
<1>2. \A r \in Evictable(full) : socket[r] = NoSocket
  BY <1>1 DEF Evictable
<1>3. QED
  BY <1>1, <1>2 DEF Deliver, Evicting, RouteFrame, Softens

\* The kinds of steps, as RouteInv sees them.
LEMMA RouteKinds ==
  ASSUME TypeOK, [Next]_vars
  PROVE  \/ \E s \in Socket, c \in Client : Open(s, c) \/ RejectDuplicate(s, c)
         \/ \E s \in Socket, c \in Client : RejectNamed(s, c) \/ Reconnect(s, c)
         \/ \E s \in Socket : RejectSession(s) \/ AuthAccept(s) \/ AuthReject(s)
         \/ \E s \in Socket : CloseStale(s) \/ CloseUntracked(s) \/ CloseLeave(s) \/ CloseDrop(s)
         \/ Evicting
         \/ StopEnds
         \/ Calm
<1>1. ASSUME NEW s \in Socket, PeerActs(s) PROVE Calm
  <2>1. ASSUME NEW k \in Codes, PeerCloses(s, k) PROVE Calm
    BY <2>1 DEF TypeOK, PeerCloses, Calm, RouteFrame, Softens
  <2>2. CASE LeaveFrame(s)
    BY <2>2, CloseSoftens DEF LeaveFrame, Calm, RouteFrame
  <2>3. QED
    BY <1>1, <2>1, <2>2 DEF PeerActs
<1>2. ASSUME NEW r \in Socket, AppActs(r) PROVE Evicting \/ Calm
  <2>1. CASE AllowReconnection(r)
    BY <2>1 DEF AllowReconnection, Calm, RouteFrame, Softens
  <2>2. CASE Disconnect(r)
    BY <2>2, EvictRoutes DEF Disconnect, RouteFrame
  <2>3. ASSUME NEW reliable \in BOOLEAN, Send(r, reliable) PROVE Evicting
    <3> DEFINE B == IF socket[r] = NoSocket /\ reliable THEN {r} ELSE {}
    <3>1. Deliver(IF Writable(r) THEN {r} ELSE {}, B)
      BY <2>3 DEF Send
    <3>2. B \in SUBSET Socket /\ \A x \in B : socket[x] = NoSocket
      OBVIOUS
    <3> HIDE DEF B
    <3>3. QED
      BY <3>1, <3>2, DeliverRoutes
  <2>4. QED
    BY <1>2, <2>1, <2>2, <2>3 DEF AppActs
<1>3. ASSUME NEW r \in Socket, DropSettles(r) PROVE Evicting \/ Calm
  <2>1. CASE DropEvicts(r)
    BY <2>1, EvictRoutes DEF DropEvicts, RouteFrame
  <2>2. CASE DropReturns(r) \/ DropThrows(r)
    BY <2>2 DEF DropReturns, DropThrows, Calm, RouteFrame, Softens
  <2>3. QED
    BY <1>3, <2>1, <2>2 DEF DropSettles
<1>4. ASSUME NEW r \in Socket, TimerFires(r) \/ StrayFires(r) PROVE Evicting
  BY <1>4, EvictRoutes DEF TimerFires, StrayFires, RouteFrame
<1>5. CASE AppBroadcasts
  <2>1. ASSUME NEW reliable \in BOOLEAN, Broadcast(reliable) PROVE Evicting
    BY <2>1, DeliverRoutes DEF Broadcast
  <2>2. ASSUME NEW reliable \in BOOLEAN, NEW x \in SUBSET Client,
               BroadcastExcept(x, reliable)
        PROVE  Evicting
    BY <2>2, DeliverRoutes DEF BroadcastExcept
  <2>3. QED
    BY <1>5, <2>1, <2>2 DEF AppBroadcasts
<1>6. CASE StopBegins \/ UNCHANGED vars
  BY <1>6 DEF StopBegins, Calm, RouteFrame, Softens
<1>7. QED
  BY <1>1, <1>2, <1>3, <1>4, <1>5, <1>6 DEF Next, Connect, Authorise, Closed

\* What an eviction does to the map and to the records.
LEMMA ForgetEffect ==
  ASSUME SeatInv, NEW R \in SUBSET Socket, Forget(R)
  PROVE  /\ \A c \in Client : \/ clients'[c] = NoSocket
                              \/ clients'[c] = clients[c] /\ clients[c] \notin Evictable(R)
         /\ \A c \in Client \ diverted : clients'[c] # clients[c] => clients[c] \in Evictable(R)
         /\ \A r \in Socket : alive'[r] <=> alive[r] /\ r \notin Evictable(R)
         /\ \A r \in Evictable(R) : left'[r] = 1
         /\ \A r \in Socket \ Evictable(R) : left'[r] = left[r]
<1>1. Evictable(R) \in SUBSET Socket /\ \A r \in Evictable(R) : alive[r] /\ left[r] = 0
  BY DEF Evictable, SeatInv, RecordsOnce
<1>2. \A c \in Client : clients'[c] = IF \E r \in Evictable(R) : owner[r] = c
                                     THEN NoSocket ELSE clients[c]
  BY DEF Forget
<1>3. \A c \in Client : \/ clients'[c] = NoSocket
                        \/ clients'[c] = clients[c] /\ clients[c] \notin Evictable(R)
  BY <1>2 DEF SeatInv, MapIsAlive
<1>4. \A c \in Client \ diverted : clients'[c] # clients[c] => clients[c] \in Evictable(R)
  BY <1>1, <1>2 DEF SeatInv, OneUser, SharedAreDiverted
<1>5. \A r \in Socket : alive'[r] <=> alive[r] /\ r \notin Evictable(R)
  BY DEF Forget
<1>5a. left' = [r \in Socket |-> IF r \in Evictable(R) THEN left[r] + 1 ELSE left[r]]
  BY DEF Forget
<1>5b. /\ \A r \in Evictable(R) : left'[r] = 1
       /\ \A r \in Socket \ Evictable(R) : left'[r] = left[r]
  BY <1>1, <1>5a
<1>6. QED
  BY <1>3, <1>4, <1>5, <1>5b

LEMMA CalmRoute ==
  ASSUME SeatInv, RouteInv, Calm PROVE RouteInv'
<1> USE DEF SeatInv, RouteInv, Calm, RouteFrame, Softens
<1>1. FreshSockets' /\ SocketsOwned'
  BY DEF FreshSockets, SocketsOwned, TypeOK
<1>2. RoutesAgree'
  BY DEF RoutesAgree, TypeOK
<1>3. OpenIsKnown' /\ StoppedIsEmpty'
  BY DEF OpenIsKnown, StoppedIsEmpty, TypeOK
<1>4. SubscribersJoined'
  BY DEF SubscribersJoined, TypeOK
<1>5. QED
  BY <1>1, <1>2, <1>3, <1>4

LEMMA EvictingRoute ==
  ASSUME SeatInv, RouteInv, Evicting PROVE RouteInv'
<1>1. PICK R \in SUBSET Socket :
        /\ Forget(R)
        /\ \A r \in Evictable(R) : socket[r] # NoSocket => ready'[socket[r]] # "open"
  BY DEF Evicting
<1> DEFINE E == Evictable(R)
<1>2. /\ \A c \in Client : clients'[c] = NoSocket \/ (clients'[c] = clients[c] /\ clients[c] \notin E)
      /\ \A c \in Client \ diverted : clients'[c] # clients[c] => clients[c] \in E
      /\ \A r \in Socket : alive'[r] <=> alive[r] /\ r \notin E
      /\ \A r \in E : left'[r] = 1
      /\ \A r \in Socket \ E : left'[r] = left[r]
  BY <1>1, ForgetEffect
<1>3. \A r \in E : socket[r] # NoSocket => ready'[socket[r]] # "open"
  BY <1>1
<1>4. TypeOK /\ RouteFrame /\ Softens /\ UNCHANGED phase
  BY DEF SeatInv, Evicting
<1> HIDE DEF E
<1> USE DEF RouteInv, RouteFrame, Softens
<1>5. FreshSockets' /\ SocketsOwned'
  BY <1>4 DEF FreshSockets, SocketsOwned, TypeOK
<1>6. RoutesAgree'
  BY <1>2, <1>4 DEF RoutesAgree, TypeOK
<1>7. OpenIsKnown'
  <2> SUFFICES ASSUME NEW s \in Socket, ready'[s] = "open", owner[s] \notin diverted,
                      s \notin authing
               PROVE  clients'[owner[s]] # NoSocket /\ socket[clients'[owner[s]]] = s
    BY <1>4 DEF OpenIsKnown
  <2>1. /\ owner[s] \in Client \ diverted
        /\ clients[owner[s]] # NoSocket /\ socket[clients[owner[s]]] = s
    BY <1>4 DEF OpenIsKnown
  <2>2. clients[owner[s]] \notin E
    BY <1>3, <2>1, RoomAssumption
  <2>3. QED
    BY <1>2, <2>1, <2>2
<1>8. StoppedIsEmpty'
  BY <1>2, <1>4 DEF StoppedIsEmpty
<1>9. SubscribersJoined'
  <2> SUFFICES ASSUME NEW s \in subs, owner[s] \notin diverted
               PROVE  \E r \in Socket : socket[r] = s /\ (alive'[r] \/ left'[r] = 1)
    BY <1>4 DEF SubscribersJoined
  <2>1. PICK r \in Socket : socket[r] = s /\ (alive[r] \/ left[r] = 1)
    BY DEF SubscribersJoined
  <2>2. alive'[r] \/ left'[r] = 1
    BY <1>2, <2>1
  <2>3. QED
    BY <2>1, <2>2
<1>10. QED
  BY <1>5, <1>6, <1>7, <1>8, <1>9

\* The types RouteInv needs.
RouteTypes ==
  /\ \A s \in Socket : socket[s] \in Socket \cup {NoSocket} /\ owner[s] \in Client \cup {NoClient}
  /\ \A c \in Client : /\ clients[c] \in Socket \cup {NoSocket}
                       /\ clientSockets[c] \in Socket \cup {NoSocket}
  /\ subs \subseteq Socket /\ authing \subseteq Socket /\ diverted \subseteq Client

\* A connection is adopted for a client: it is new, it takes the place in the
\* transport's map, and the socket before it loses its subscription.
Adopts(s, c, state) ==
  /\ ready[s] = "unused"
  /\ \A x \in Socket : ready'[x] = IF x = s THEN state ELSE ready[x]
  /\ \A x \in Socket : owner'[x] = IF x = s THEN c ELSE owner[x]
  /\ \A d \in Client : clientSockets'[d] = IF d = c THEN s ELSE clientSockets[d]
  /\ phase # "stopped"
  /\ UNCHANGED <<alive, left, clients, phase, late>>

LEMMA RouteTyped ==
  ASSUME SeatInv PROVE RouteTypes /\ \A s \in Socket : s \notin authing \/ ready[s] # "unused"
BY DEF SeatInv, TypeOK, RouteTypes, RecordsOnce

LEMMA OpenRoute ==
  ASSUME SeatInv, RouteInv, NEW s \in Socket, NEW c \in Client, Open(s, c)
  PROVE  RouteInv'
<1>1. /\ Adopts(s, c, "open")
      /\ subs' = subs \ {clientSockets[c]}
      /\ authing' = authing \cup {s}
      /\ diverted \subseteq diverted'
      /\ c \notin diverted' => \A x \in authing : owner[x] # c
      /\ clients[c] = NoSocket
      /\ UNCHANGED socket
  BY DEF Open, Adopt, Adopts, Unsubscribed, Presented, Diverts, SeatFree, SeatInv, TypeOK
<1>2. RouteTypes /\ s \notin authing
  BY <1>1, RouteTyped DEF Adopts
<1> USE DEF RouteInv, RouteTypes, Adopts
<1>3. FreshSockets' /\ SocketsOwned'
  BY <1>1, <1>2 DEF FreshSockets, SocketsOwned
<1>4. RoutesAgree'
  <2>1. ASSUME NEW x \in authing', owner'[x] \notin diverted'
        PROVE  \/ clientSockets'[owner'[x]] = x
               \/ clientSockets'[owner'[x]] = NoSocket /\ ready'[x] = "closed"
    BY <1>1, <1>2, <2>1 DEF RoutesAgree, SeatInv, Resolved
  <2>2. ASSUME NEW d \in Client \ diverted', clients[d] # NoSocket
        PROVE  /\ clientSockets'[d] = clientSockets[d]
               /\ clients[d] \in Socket
               /\ socket[clients[d]] # NoSocket =>
                    /\ owner[socket[clients[d]]] = d /\ socket[clients[d]] # s
                    /\ socket[clients[d]] # clientSockets[c]
    BY <1>1, <1>2, <2>2 DEF SocketsOwned, SeatInv, MapIsAlive
  <2>3. QED
    BY <1>1, <1>2, <2>1, <2>2 DEF RoutesAgree
<1>5. OpenIsKnown'
  <2> SUFFICES ASSUME NEW x \in Socket, ready'[x] = "open"
               PROVE  /\ owner'[x] \in Client
                      /\ owner'[x] \notin diverted' =>
                           /\ clientSockets'[owner'[x]] = x
                           /\ \/ x \in authing'
                              \/ /\ clients[owner'[x]] # NoSocket
                                 /\ socket[clients[owner'[x]]] = x
    BY <1>1 DEF OpenIsKnown
  <2>1. CASE x = s
    BY <1>1, <2>1
  <2>2. CASE x # s
    <3>1. ready[x] = "open" /\ owner'[x] = owner[x]
      BY <1>1, <2>2
    <3>2. owner[x] \notin diverted' => owner[x] # c
      BY <1>1, <3>1 DEF OpenIsKnown
    <3>3. QED
      BY <1>1, <3>1, <3>2 DEF OpenIsKnown
  <2>3. QED
    BY <2>1, <2>2
<1>6. SubscribersJoined'
  BY <1>1, <1>2 DEF SubscribersJoined, SocketsOwned
<1>7. StoppedIsEmpty'
  BY <1>1 DEF StoppedIsEmpty
<1>8. QED
  BY <1>3, <1>4, <1>5, <1>6, <1>7

LEMMA TurnedDownRoute ==
  ASSUME SeatInv, RouteInv, NEW s \in Socket, NEW c \in Client,
         RejectDuplicate(s, c) \/ RejectNamed(s, c)
  PROVE  RouteInv'
<1>1. /\ Adopts(s, c, "closing")
      /\ subs' = subs \ {clientSockets[c]}
      /\ diverted \subseteq diverted'
      /\ c \notin diverted' =>
           /\ clients[c] = NoSocket
           /\ \A x \in authing : owner[x] # c
           /\ \A x \in Socket : ready[x] = "open" => owner[x] # c
      /\ UNCHANGED <<socket, authing>>
  <2>1. Diverts(c)
    BY DEF RejectDuplicate, RejectNamed, Presented
  <2>2. diverted \subseteq diverted' /\ (c \notin diverted' => SeatFree(c) /\ c \notin diverted)
    BY <2>1 DEF Diverts
  <2>3. /\ Adopts(s, c, "closing")
        /\ subs' = subs \ {clientSockets[c]}
        /\ UNCHANGED <<socket, authing>>
    BY DEF RejectDuplicate, RejectNamed, Adopt, Adopts, Unsubscribed, SeatInv, TypeOK
  <2>4. QED
    BY <2>2, <2>3 DEF SeatFree, RouteInv, OpenIsKnown
<1>2. RouteTypes /\ s \notin authing
  BY <1>1, RouteTyped DEF Adopts
<1> USE DEF RouteInv, RouteTypes, Adopts
<1>3. FreshSockets' /\ SocketsOwned'
  BY <1>1, <1>2 DEF FreshSockets, SocketsOwned
<1>4. RoutesAgree'
  <2>1. ASSUME NEW x \in authing', owner'[x] \notin diverted'
        PROVE  \/ clientSockets'[owner'[x]] = x
               \/ clientSockets'[owner'[x]] = NoSocket /\ ready'[x] = "closed"
    BY <1>1, <1>2, <2>1 DEF RoutesAgree, SeatInv, Resolved
  <2>2. ASSUME NEW d \in Client \ diverted', clients[d] # NoSocket
        PROVE  /\ clientSockets'[d] = clientSockets[d]
               /\ clients[d] \in Socket
               /\ socket[clients[d]] # NoSocket =>
                    /\ owner[socket[clients[d]]] = d /\ socket[clients[d]] # s
                    /\ socket[clients[d]] # clientSockets[c]
    BY <1>1, <1>2, <2>2 DEF SocketsOwned, SeatInv, MapIsAlive
  <2>3. QED
    BY <1>1, <1>2, <2>1, <2>2 DEF RoutesAgree
<1>5. OpenIsKnown'
  BY <1>1, <1>2 DEF OpenIsKnown
<1>6. SubscribersJoined'
  BY <1>1, <1>2 DEF SubscribersJoined, SocketsOwned
<1>7. StoppedIsEmpty'
  BY <1>1 DEF StoppedIsEmpty
<1>8. QED
  BY <1>3, <1>4, <1>5, <1>6, <1>7

LEMMA RejectRoute ==
  ASSUME SeatInv, RouteInv, NEW s \in Socket, RejectSession(s)
  PROVE  RouteInv'
<1>1. /\ ready[s] = "unused"
      /\ \A x \in Socket : ready'[x] = IF x = s THEN "closing" ELSE ready[x]
      /\ phase # "stopped"
      /\ UNCHANGED <<owner, clientSockets, subs, diverted, socket, alive, left, clients,
                     phase, late, authing>>
  BY DEF RejectSession, SeatInv, TypeOK
<1>2. RouteTypes /\ s \notin authing
  BY <1>1, RouteTyped
<1> USE DEF RouteInv, RouteTypes
<1>3. FreshSockets' /\ SocketsOwned'
  BY <1>1, <1>2 DEF FreshSockets, SocketsOwned
<1>4. RoutesAgree'
  BY <1>1, <1>2 DEF RoutesAgree, SocketsOwned
<1>5. OpenIsKnown' /\ SubscribersJoined' /\ StoppedIsEmpty'
  BY <1>1, <1>2 DEF OpenIsKnown, SubscribersJoined, StoppedIsEmpty
<1>6. QED
  BY <1>3, <1>4, <1>5

LEMMA ReconnectRoute ==
  ASSUME SeatInv, RouteInv, NEW s \in Socket, NEW c \in Client, Reconnect(s, c)
  PROVE  RouteInv'
<1>1. PICK r \in Socket :
        /\ r = clients[c] /\ r # NoSocket /\ socket[r] = NoSocket
        /\ Adopts(s, c, "open")
        /\ subs' = (subs \ {clientSockets[c]}) \cup {s}
        /\ \A x \in Socket : socket'[x] = IF x = r THEN s ELSE socket[x]
        /\ UNCHANGED <<authing, diverted>>
  <2> DEFINE r == clients[c]
  <2>1. r \in Socket
    BY DEF Reconnect, SeatInv, TypeOK
  <2>2. Adopts(s, c, "open")
    BY <2>1 DEF Reconnect, Adopt, Adopts, SeatInv, TypeOK
  <2>3. \A x \in Socket : socket'[x] = IF x = r THEN s ELSE socket[x]
    BY <2>1 DEF Reconnect, SeatInv, TypeOK
  <2>4. r = clients[c] /\ r # NoSocket /\ socket[r] = NoSocket /\ UNCHANGED <<authing, diverted>>
    BY DEF Reconnect
  <2>5. subs' = (subs \ {clientSockets[c]}) \cup {s}
    BY DEF Reconnect, Unsubscribed
  <2> HIDE DEF r
  <2>6. QED
    BY <2>1, <2>2, <2>3, <2>4, <2>5
<1>2. /\ RouteTypes /\ s \notin authing /\ NoSocket \notin Socket
      /\ owner[r] = c /\ alive[r] /\ r \notin authing /\ ready[r] # "unused" /\ r # s
  BY <1>1, RouteTyped, RoomAssumption DEF SeatInv, MapIsAlive, RecordsOnce, Adopts
<1>3. c \notin diverted => \A x \in authing : owner[x] # c
  BY <1>1, <1>2 DEF SeatInv, OneUser, SharedAreDiverted, RouteTypes
<1> USE DEF RouteInv, RouteTypes, Adopts
<1>4. FreshSockets' /\ SocketsOwned'
  <2>1. FreshSockets'
    BY <1>1, <1>2 DEF FreshSockets
  <2>2. \A d \in Client : clientSockets'[d] # NoSocket =>
          owner'[clientSockets'[d]] = d /\ ready'[clientSockets'[d]] # "unused"
    BY <1>1, <1>2 DEF SocketsOwned
  <2>3. \A x \in Socket : socket'[x] # NoSocket =>
          owner'[socket'[x]] = owner'[x] /\ ready'[socket'[x]] # "unused"
    BY <1>1, <1>2 DEF SocketsOwned, FreshSockets
  <2>4. \A x \in subs' : ready'[x] # "unused" /\ x \notin authing
    BY <1>1, <1>2 DEF SocketsOwned
  <2>5. QED
    BY <1>1, <2>1, <2>2, <2>3, <2>4 DEF SocketsOwned
<1>5. RoutesAgree'
  <2>1. ASSUME NEW x \in authing', owner'[x] \notin diverted'
        PROVE  \/ clientSockets'[owner'[x]] = x
               \/ clientSockets'[owner'[x]] = NoSocket /\ ready'[x] = "closed"
    BY <1>1, <1>2, <1>3, <2>1 DEF RoutesAgree, SeatInv, Resolved
  <2>2. ASSUME NEW d \in Client \ diverted', clients[d] # NoSocket, d # c
        PROVE  /\ clientSockets'[d] = clientSockets[d]
               /\ clients[d] \in Socket /\ socket'[clients[d]] = socket[clients[d]]
               /\ socket[clients[d]] # NoSocket =>
                    /\ owner[socket[clients[d]]] = d /\ socket[clients[d]] # s
                    /\ socket[clients[d]] # clientSockets[c]
    <3>1. clients[d] \in Socket /\ clients[d] # r
      BY <1>1, <1>2, <2>2 DEF SeatInv, MapIsAlive
    <3>2. socket[clients[d]] # NoSocket => owner[socket[clients[d]]] = d
      BY <3>1, <2>2 DEF SocketsOwned, SeatInv, MapIsAlive
    <3>3. socket[clients[d]] # NoSocket => socket[clients[d]] # s
      BY <1>1, <3>1 DEF SocketsOwned
    <3>4. clientSockets[c] # NoSocket => owner[clientSockets[c]] = c
      BY DEF SocketsOwned
    <3>5. QED
      BY <1>1, <2>2, <3>1, <3>2, <3>3, <3>4
  <2>3. ASSUME NEW d \in Client \ diverted', clients[d] # NoSocket
        PROVE  /\ clientSockets'[d] \in {socket'[clients[d]], NoSocket}
               /\ socket'[clients[d]] # NoSocket /\ clients[d] \notin late =>
                    /\ ready'[socket'[clients[d]]] # "closed"
                    /\ clientSockets'[d] = socket'[clients[d]]
                    /\ socket'[clients[d]] \in subs'
    <3>1. CASE d = c
      BY <1>1, <3>1
    <3>2. CASE d # c
      BY <1>1, <1>2, <2>2, <2>3, <3>2 DEF RoutesAgree
    <3>3. QED
      BY <3>1, <3>2
  <2>4. QED
    BY <1>1, <2>1, <2>3 DEF RoutesAgree
<1>6. OpenIsKnown'
  <2> SUFFICES ASSUME NEW x \in Socket, ready'[x] = "open"
               PROVE  /\ owner'[x] \in Client
                      /\ owner'[x] \notin diverted =>
                           /\ clientSockets'[owner'[x]] = x
                           /\ \/ x \in authing
                              \/ /\ clients[owner'[x]] # NoSocket
                                 /\ socket'[clients[owner'[x]]] = x
    BY <1>1 DEF OpenIsKnown
  <2>1. CASE x = s
    BY <1>1, <2>1
  <2>2. CASE x # s
    <3>1. ready[x] = "open" /\ owner'[x] = owner[x] /\ owner[x] \in Client
      BY <1>1, <2>2 DEF OpenIsKnown
    <3>2. owner[x] \notin diverted => owner[x] # c
      BY <1>1, <1>2, <1>3, <3>1 DEF OpenIsKnown
    <3>3. owner[x] # c => clients[owner[x]] # r
      BY <1>1, <1>2, <3>1 DEF SeatInv, MapIsAlive
    <3>4. QED
      BY <1>1, <1>2, <3>1, <3>2, <3>3 DEF OpenIsKnown
  <2>3. QED
    BY <2>1, <2>2
<1>7. SubscribersJoined'
  <2> SUFFICES ASSUME NEW x \in subs', owner'[x] \notin diverted
               PROVE  \E y \in Socket : socket'[y] = x /\ (alive[y] \/ left[y] = 1)
    BY <1>1 DEF SubscribersJoined
  <2>1. CASE x = s
    BY <1>1, <1>2, <2>1
  <2>2. CASE x # s
    <3>1. x \in subs /\ owner[x] = owner'[x]
      BY <1>1, <1>2, <2>2
    <3>2. PICK y \in Socket : socket[y] = x /\ (alive[y] \/ left[y] = 1)
      BY <3>1 DEF SubscribersJoined
    <3>3. socket'[y] = x
      BY <1>1, <1>2, <3>1, <3>2
    <3>4. QED
      BY <3>2, <3>3
  <2>3. QED
    BY <2>1, <2>2
<1>8. StoppedIsEmpty'
  BY <1>1 DEF StoppedIsEmpty
<1>9. QED
  BY <1>4, <1>5, <1>6, <1>7, <1>8

LEMMA AcceptRoute ==
  ASSUME SeatInv, RouteInv, NEW s \in Socket, AuthAccept(s)
  PROVE  RouteInv'
<1>1. PICK c \in Client :
        /\ c = owner[s] /\ s \in authing
        /\ authing' = authing \ {s}
        /\ \A d \in Client : clients'[d] = IF d = c THEN s ELSE clients[d]
        /\ \A x \in Socket : socket'[x] = IF x = s THEN s ELSE socket[x]
        /\ \A x \in Socket : alive'[x] = IF x = s THEN TRUE ELSE alive[x]
        /\ subs' = subs \cup {s}
        /\ late' = IF ready[s] = "closed" \/ phase = "stopped" THEN late \cup {s} ELSE late
        /\ UNCHANGED <<ready, owner, clientSockets, left, diverted, phase>>
  <2>1. owner[s] \in Client
    BY DEF AuthAccept, SeatInv, Resolved
  <2>2. \A d \in Client : clients'[d] = IF d = owner[s] THEN s ELSE clients[d]
    BY <2>1 DEF AuthAccept, SeatInv, TypeOK
  <2>3. /\ \A x \in Socket : socket'[x] = IF x = s THEN s ELSE socket[x]
        /\ \A x \in Socket : alive'[x] = IF x = s THEN TRUE ELSE alive[x]
    BY DEF AuthAccept, SeatInv, TypeOK
  <2>4. QED
    BY <2>1, <2>2, <2>3 DEF AuthAccept
<1>2. /\ RouteTypes /\ NoSocket \notin Socket /\ ready[s] # "unused" /\ ~alive[s]
      /\ socket[s] = NoSocket
  BY <1>1, RouteTyped, RoomAssumption DEF SeatInv, RecordsOnce, RouteInv, FreshSockets
<1>3. c \notin diverted => clients[c] = NoSocket /\ \A x \in authing : owner[x] = c => x = s
  BY <1>1 DEF SeatInv, OneUser, SharedAreDiverted
<1>4. \A d \in Client : d # c /\ clients[d] # NoSocket => clients[d] # s
  BY <1>2 DEF SeatInv, MapIsAlive
<1> USE DEF RouteInv, RouteTypes
<1>5. FreshSockets' /\ SocketsOwned'
  BY <1>1, <1>2 DEF FreshSockets, SocketsOwned
<1>6. RoutesAgree'
  <2>1. ASSUME NEW d \in Client \ diverted, clients'[d] # NoSocket
        PROVE  /\ clientSockets[d] \in {socket'[clients'[d]], NoSocket}
               /\ socket'[clients'[d]] # NoSocket /\ clients'[d] \notin late' =>
                    /\ ready[socket'[clients'[d]]] # "closed"
                    /\ clientSockets[d] = socket'[clients'[d]]
                    /\ socket'[clients'[d]] \in subs'
    <3>1. CASE d = c
      BY <1>1, <1>2, <2>1, <3>1 DEF RoutesAgree
    <3>2. CASE d # c
      BY <1>1, <1>2, <1>4, <2>1, <3>2 DEF RoutesAgree
    <3>3. QED
      BY <3>1, <3>2
  <2>2. QED
    BY <1>1, <2>1 DEF RoutesAgree
<1>7. OpenIsKnown'
  <2> SUFFICES ASSUME NEW x \in Socket, ready[x] = "open", owner[x] \notin diverted,
                      x \notin authing'
               PROVE  clients'[owner[x]] # NoSocket /\ socket'[clients'[owner[x]]] = x
    BY <1>1 DEF OpenIsKnown
  <2>1. CASE x = s
    BY <1>1, <1>2, <2>1
  <2>2. CASE x # s
    BY <1>1, <1>2, <1>3, <1>4, <2>2 DEF OpenIsKnown
  <2>3. QED
    BY <2>1, <2>2
<1>8. SubscribersJoined'
  <2> SUFFICES ASSUME NEW x \in subs', owner[x] \notin diverted
               PROVE  \E y \in Socket : socket'[y] = x /\ (alive'[y] \/ left[y] = 1)
    BY <1>1 DEF SubscribersJoined
  <2>1. CASE x = s
    BY <1>1, <2>1
  <2>2. CASE x # s
    <3>1. PICK y \in Socket : socket[y] = x /\ (alive[y] \/ left[y] = 1)
      BY <1>1, <2>2 DEF SubscribersJoined
    <3>2. y # s
      BY <1>1, <1>2, <2>2, <3>1
    <3>3. QED
      BY <1>1, <3>1, <3>2
  <2>3. QED
    BY <2>1, <2>2
<1>9. StoppedIsEmpty'
  BY <1>1 DEF StoppedIsEmpty
<1>10. QED
  BY <1>5, <1>6, <1>7, <1>8, <1>9

LEMMA AuthRejectRoute ==
  ASSUME SeatInv, RouteInv, NEW s \in Socket, AuthReject(s)
  PROVE  RouteInv'
<1>1. /\ s \in authing /\ authing' = authing \ {s}
      /\ Softens /\ ready'[s] # "open"
      /\ UNCHANGED <<owner, clientSockets, subs, socket, alive, left, clients, diverted,
                     late, phase>>
  BY CloseSoftens DEF AuthReject, SeatInv
<1>2. RouteTypes
  BY RouteTyped
<1> USE DEF RouteInv, RouteTypes, Softens
<1>3. FreshSockets' /\ SocketsOwned'
  BY <1>1, <1>2 DEF FreshSockets, SocketsOwned
<1>4. RoutesAgree'
  BY <1>1, <1>2 DEF RoutesAgree
<1>5. OpenIsKnown'
  BY <1>1, <1>2 DEF OpenIsKnown
<1>6. SubscribersJoined' /\ StoppedIsEmpty'
  BY <1>1 DEF SubscribersJoined, StoppedIsEmpty
<1>7. QED
  BY <1>3, <1>4, <1>5, <1>6

\* The socket s has closed, and is neither subscribed nor in the transport's map.
Closes(s) ==
  /\ ready[s] # "unused"
  /\ ready'[s] = "closed"
  /\ \A x \in Socket \ {s} : /\ ready'[x] = "open" => ready[x] = "open"
                             /\ ready'[x] = "closed" <=> ready[x] = "closed"
                             /\ ready'[x] = "unused" <=> ready[x] = "unused"
  /\ subs' = subs \ {s}
  /\ \A c \in Client : clientSockets'[c] = IF clientSockets[c] = s THEN NoSocket
                                           ELSE clientSockets[c]
  /\ UNCHANGED <<owner, authing, diverted, late, phase>>

LEMMA ClosesSocket ==
  ASSUME SeatInv, RouteInv, NEW s \in Socket,
         CloseStale(s) \/ CloseUntracked(s) \/ CloseLeave(s) \/ CloseDrop(s)
  PROVE  Closes(s)
<1>1. ready[s] # "unused"
  BY DEF CloseStale, CloseUntracked, CloseLeave, CloseDrop, CloseCodes
<1>2. \A c \in Client : clientSockets[c] = s => owner[s] = c
  BY RoomAssumption DEF RouteInv, SocketsOwned
<1>3. CASE CloseStale(s)
  <2>1. \A c \in Client : clientSockets[c] # s
    BY <1>2, <1>3, RoomAssumption DEF CloseStale, IsCurrent
  <2>2. QED
    BY <1>1, <1>3, <2>1 DEF CloseStale, Closes, SeatInv, TypeOK
<1>4. ASSUME IsCurrent(s), clientSockets' = [clientSockets EXCEPT ![owner[s]] = NoSocket]
      PROVE  \A c \in Client : clientSockets'[c] = IF clientSockets[c] = s THEN NoSocket
                                                   ELSE clientSockets[c]
  BY <1>2, <1>4 DEF IsCurrent, SeatInv, TypeOK
<1>5. CASE CloseUntracked(s) \/ CloseDrop(s)
  BY <1>1, <1>4, <1>5 DEF CloseUntracked, CloseDrop, Closes, SeatInv, TypeOK
<1>6. CASE CloseLeave(s)
  <2>1. \A x \in Socket : ready'[x] = IF x = s THEN "closed"
                                      ELSE IF x = socket[clients[owner[s]]] /\ ready[x] = "open"
                                           THEN "closing" ELSE ready[x]
    BY <1>6 DEF CloseLeave
  <2>2. /\ ready'[s] = "closed"
        /\ \A x \in Socket \ {s} : /\ ready'[x] = "open" => ready[x] = "open"
                                   /\ ready'[x] = "closed" <=> ready[x] = "closed"
                                   /\ ready'[x] = "unused" <=> ready[x] = "unused"
    BY <2>1
  <2>3. QED
    BY <1>1, <1>4, <1>6, <2>2 DEF CloseLeave, Closes
<1>7. QED
  BY <1>3, <1>5, <1>6

\* The rest of a close: nothing, the record gives up its socket, or it is evicted.
LEMMA ClosedRoute ==
  ASSUME SeatInv, RouteInv, NEW s \in Socket, Closes(s),
         \A r \in Socket :
           \/ socket'[r] = socket[r]
           \/ socket'[r] = NoSocket /\ (socket[r] = s \/ owner[r] \in diverted),
         \A c \in Client : clients'[c] = NoSocket \/ clients'[c] = clients[c],
         \A c \in Client \ diverted :
           clients'[c] # NoSocket /\ clients[c] \notin late => socket'[clients[c]] # s,
         \A c \in Client \ diverted : clients'[c] # clients[c] => clientSockets[c] = s,
         \A r \in Socket : (alive[r] \/ left[r] = 1) => (alive'[r] \/ left'[r] = 1)
  PROVE  RouteInv'
<1>1. RouteTypes /\ NoSocket \notin Socket
  BY RouteTyped, RoomAssumption
<1> USE DEF RouteInv, RouteTypes, Closes
<1>2. FreshSockets'
  BY <1>1 DEF FreshSockets
<1>3. SocketsOwned'
  BY <1>1 DEF SocketsOwned
<1>4. RoutesAgree'
  <2>1. ASSUME NEW x \in authing, owner[x] \notin diverted
        PROVE  \/ clientSockets'[owner[x]] = x
               \/ clientSockets'[owner[x]] = NoSocket /\ ready'[x] = "closed"
    BY <1>1, <2>1 DEF RoutesAgree, SeatInv, Resolved
  <2>2. ASSUME NEW d \in Client \ diverted, clients'[d] # NoSocket
        PROVE  /\ clientSockets'[d] \in {socket'[clients'[d]], NoSocket}
               /\ socket'[clients'[d]] # NoSocket /\ clients'[d] \notin late =>
                    /\ ready'[socket'[clients'[d]]] # "closed"
                    /\ clientSockets'[d] = socket'[clients'[d]]
                    /\ socket'[clients'[d]] \in subs'
    <3> DEFINE r == clients[d]
    <3>1. clients'[d] = r /\ r \in Socket /\ owner[r] = d
      BY <1>1, <2>2 DEF SeatInv, MapIsAlive
    <3>2. socket'[r] = socket[r] \/ (socket'[r] = NoSocket /\ socket[r] = s)
      BY <2>2, <3>1
    <3>3. r \notin late => socket'[r] # s
      BY <2>2, <3>1
    <3>4. /\ clientSockets[d] \in {socket[r], NoSocket}
          /\ socket[r] # NoSocket /\ r \notin late =>
               /\ ready[socket[r]] # "closed"
               /\ clientSockets[d] = socket[r]
               /\ socket[r] \in subs
      BY <2>2, <3>1 DEF RoutesAgree
    <3>5. socket[r] # NoSocket => socket[r] \in Socket
      BY <1>1, <3>1
    <3> HIDE DEF r
    <3>6. QED
      BY <1>1, <3>1, <3>2, <3>3, <3>4, <3>5
  <2>3. QED
    BY <2>1, <2>2 DEF RoutesAgree
<1>5. OpenIsKnown'
  <2> SUFFICES ASSUME NEW x \in Socket, ready'[x] = "open"
               PROVE  /\ owner[x] \in Client
                      /\ owner[x] \notin diverted =>
                           /\ clientSockets'[owner[x]] = x
                           /\ \/ x \in authing
                              \/ /\ clients'[owner[x]] # NoSocket
                                 /\ socket'[clients'[owner[x]]] = x
    BY DEF OpenIsKnown
  <2>1. x # s /\ ready[x] = "open" /\ owner[x] \in Client
    BY DEF OpenIsKnown
  <2>2. owner[x] \notin diverted => clientSockets[owner[x]] = x
    BY <2>1 DEF OpenIsKnown
  <2>3. ASSUME owner[x] \notin diverted, x \notin authing
        PROVE  clients'[owner[x]] # NoSocket /\ socket'[clients'[owner[x]]] = x
    <3>1. clients[owner[x]] # NoSocket /\ socket[clients[owner[x]]] = x
      BY <2>1, <2>3 DEF OpenIsKnown
    <3>2. clients'[owner[x]] = clients[owner[x]]
      BY <2>1, <2>2, <2>3
    <3>3. clients[owner[x]] \in Socket /\ owner[clients[owner[x]]] = owner[x]
      BY <1>1, <2>1, <3>1 DEF SeatInv, MapIsAlive
    <3>4. QED
      BY <2>1, <2>3, <3>1, <3>2, <3>3
  <2>4. QED
    BY <2>1, <2>2, <2>3
<1>6. SubscribersJoined'
  <2> SUFFICES ASSUME NEW x \in subs', owner[x] \notin diverted
               PROVE  \E y \in Socket : socket'[y] = x /\ (alive'[y] \/ left'[y] = 1)
    BY DEF SubscribersJoined
  <2>1. x \in subs /\ x # s /\ x \in Socket
    BY <1>1
  <2>2. PICK y \in Socket : socket[y] = x /\ (alive[y] \/ left[y] = 1)
    BY <2>1 DEF SubscribersJoined
  <2>3. owner[y] = owner[x]
    BY <1>1, <2>1, <2>2 DEF SocketsOwned
  <2>4. QED
    BY <2>1, <2>2, <2>3
<1>7. StoppedIsEmpty'
  <2>1. \A x \in Socket : ready'[x] = "open" => ready[x] = "open"
    OBVIOUS
  <2>2. QED
    BY <2>1 DEF StoppedIsEmpty
<1>8. QED
  BY <1>2, <1>3, <1>4, <1>5, <1>6, <1>7

LEMMA NextRoute == SeatInv /\ RouteInv /\ [Next]_vars => RouteInv'
<1> SUFFICES ASSUME SeatInv, RouteInv, [Next]_vars PROVE RouteInv'
  OBVIOUS
<1>1. TypeOK /\ RouteTypes /\ NoSocket \notin Socket
  BY RouteTyped, RoomAssumption DEF SeatInv
<1>2. ASSUME NEW s \in Socket, CloseStale(s) \/ CloseUntracked(s) PROVE RouteInv'
  <2>1. UNCHANGED <<socket, clients, alive, left>>
    BY <1>2 DEF CloseStale, CloseUntracked
  <2>2. ASSUME NEW c \in Client \ diverted, clients[c] # NoSocket, clients[c] \notin late,
               socket[clients[c]] = s
        PROVE  FALSE
    <3>1. owner[s] = c /\ clients[c] \in Socket /\ clientSockets[c] = s
      BY <1>1, <2>2
      DEF SeatInv, MapIsAlive, RouteInv, SocketsOwned, RoutesAgree, RouteTypes
    <3>2. QED
      BY <1>2, <2>2, <3>1, RoomAssumption DEF CloseStale, CloseUntracked, IsCurrent
  <2>3. Closes(s)
    BY <1>2, ClosesSocket
  <2>4. QED
    BY <2>1, <2>2, <2>3, ClosedRoute
<1>3. ASSUME NEW s \in Socket, CloseLeave(s) \/ CloseDrop(s)
      PROVE  /\ owner[s] \in Client /\ clients[owner[s]] \in Socket
             /\ clientSockets[owner[s]] = s
             /\ owner[clients[owner[s]]] = owner[s]
             /\ owner[s] \notin diverted => socket[clients[owner[s]]] = s
             /\ Closes(s)
  <2>1. /\ owner[s] \in Client /\ clients[owner[s]] \in Socket
        /\ clientSockets[owner[s]] = s
        /\ owner[clients[owner[s]]] = owner[s]
    BY <1>1, <1>3 DEF CloseLeave, CloseDrop, IsCurrent, RouteTypes, SeatInv, MapIsAlive
  <2>2. owner[s] \notin diverted => socket[clients[owner[s]]] = s
    BY <1>1, <2>1 DEF RouteInv, RoutesAgree
  <2>3. QED
    BY <1>3, <2>1, <2>2, ClosesSocket
<1>4. ASSUME NEW s \in Socket, CloseLeave(s) PROVE RouteInv'
  <2> DEFINE r == clients[owner[s]]
  <2>1. /\ r \in Socket /\ clientSockets[owner[s]] = s /\ owner[r] = owner[s] /\ alive[r]
        /\ Forget({r}) /\ UNCHANGED socket
    BY <1>1, <1>3, <1>4 DEF CloseLeave, SeatInv, MapIsAlive
  <2>2. Evictable({r}) = {r}
    BY <2>1 DEF Evictable
  <2> HIDE DEF r
  <2>3. /\ \A c \in Client : clients'[c] = NoSocket \/ (clients'[c] = clients[c] /\ clients[c] # r)
        /\ \A c \in Client \ diverted : clients'[c] # clients[c] => clients[c] = r
        /\ left'[r] = 1
        /\ \A x \in Socket \ {r} : (alive'[x] <=> alive[x]) /\ left'[x] = left[x]
    BY <2>1, <2>2, ForgetEffect
  <2>4. \A c \in Client \ diverted : clients'[c] # clients[c] => clientSockets[c] = s
    BY <1>1, <2>1, <2>3 DEF SeatInv, MapIsAlive
  <2>5. ASSUME NEW c \in Client \ diverted, clients'[c] # NoSocket, clients[c] \notin late,
               socket[clients[c]] = s
        PROVE  FALSE
    <3>1. clients[c] \in Socket /\ clients[c] # r /\ owner[clients[c]] = c
      BY <1>1, <2>3, <2>5 DEF RouteTypes, SeatInv, MapIsAlive
    <3>2. owner[s] = c
      BY <1>1, <2>5, <3>1 DEF RouteInv, SocketsOwned
    <3>3. QED
      BY <3>1, <3>2 DEF r
  <2>6. QED
    BY <1>3, <1>4, <2>1, <2>3, <2>4, <2>5, ClosedRoute
<1>5. ASSUME NEW s \in Socket, CloseDrop(s) PROVE RouteInv'
  <2> DEFINE r == clients[owner[s]]
  <2>1. /\ r \in Socket /\ clientSockets[owner[s]] = s /\ owner[r] = owner[s]
        /\ owner[s] \notin diverted => socket[r] = s
        /\ \A x \in Socket : socket'[x] = IF x = r THEN NoSocket ELSE socket[x]
        /\ UNCHANGED <<clients, alive, left>>
    BY <1>1, <1>3, <1>5 DEF CloseDrop, SeatInv, TypeOK
  <2>2. ASSUME NEW c \in Client \ diverted, clients[c] # NoSocket, socket'[clients[c]] = s
        PROVE  FALSE
    <3>1. clients[c] \in Socket /\ owner[clients[c]] = c
      BY <1>1, <2>2 DEF RouteTypes, SeatInv, MapIsAlive
    <3>2. clients[c] # r /\ socket[clients[c]] = s
      BY <1>1, <2>1, <2>2, <3>1
    <3>3. owner[s] = c
      BY <1>1, <3>1, <3>2 DEF RouteInv, SocketsOwned
    <3>4. QED
      BY <3>2, <3>3
  <2>3. \A x \in Socket : \/ socket'[x] = socket[x]
                          \/ socket'[x] = NoSocket /\ (socket[x] = s \/ owner[x] \in diverted)
    BY <2>1
  <2> HIDE DEF r
  <2>4. QED
    BY <1>3, <1>5, <2>1, <2>2, <2>3, ClosedRoute
<1>6. CASE StopEnds
  <2> DEFINE all == {r \in Socket : Seated(r)}
  <2>1. /\ RouteFrame /\ Softens
        /\ clients' = [c \in Client |-> NoSocket]
        /\ alive' = [r \in Socket |-> alive[r] /\ r \notin all]
        /\ left' = [r \in Socket |-> IF r \in all THEN left[r] + 1 ELSE left[r]]
        /\ phase' = "stopped"
        /\ \A s \in Connections : ready'[s] # "open"
    BY <1>1, <1>6, CloseSoftens DEF StopEnds, RouteFrame, Connections
  <2>2. \A r \in all : left[r] = 0
    BY RoomAssumption DEF Seated, SeatInv, MapIsAlive, RecordsOnce
  <2> HIDE DEF all
  <2>3. ASSUME NEW s \in Socket, ready'[s] = "open" PROVE owner[s] \in diverted
    <3>1. ready[s] = "open" /\ s \notin Connections
      BY <2>1, <2>3 DEF Softens
    <3>2. QED
      BY <3>1, RoomAssumption DEF RouteInv, OpenIsKnown, Connections, IsCurrent
  <2> USE DEF RouteInv, RouteFrame, Softens
  <2>4. FreshSockets' /\ SocketsOwned'
    BY <1>1, <2>1 DEF FreshSockets, SocketsOwned, RouteTypes
  <2>5. RoutesAgree'
    BY <1>1, <2>1 DEF RoutesAgree, RouteTypes
  <2>6. OpenIsKnown' /\ StoppedIsEmpty'
    BY <2>1, <2>3 DEF OpenIsKnown, StoppedIsEmpty
  <2>7. SubscribersJoined'
    <3>1. ASSUME NEW r \in Socket, alive[r] \/ left[r] = 1 PROVE alive'[r] \/ left'[r] = 1
      <4>1. CASE r \in all
        BY <2>1, <2>2, <4>1
      <4>2. CASE r \notin all
        BY <2>1, <3>1, <4>2
      <4>3. QED
        BY <4>1, <4>2
    <3>2. QED
      BY <2>1, <3>1 DEF SubscribersJoined
  <2>8. QED
    BY <2>4, <2>5, <2>6, <2>7
<1>7. QED
  BY <1>1, <1>2, <1>4, <1>5, <1>6, RouteKinds, CalmRoute, EvictingRoute, OpenRoute,
     TurnedDownRoute, RejectRoute, ReconnectRoute, AcceptRoute, AuthRejectRoute

\* Frames of an accepted session reach the room and broadcasts reach it, and no socket
\* is subscribed before its onAuth has accepted, whatever replaces, closes or evicts: but
\* for the seats a further connection was filed under while they were in use.
THEOREM SessionsAreRouted == Spec => []LiveSessionIsRouted
<1>1. SeatInv /\ RouteInv => LiveSessionIsRouted
  BY DEF RouteInv, RoutesAgree, SocketsOwned, SubscribersJoined, LiveSessionIsRouted
<1>2. QED
  BY <1>1, InitSeat, NextSeat, InitRoute, NextRoute, PTL DEF Spec

-----------------------------------------------------------------------------
(* Windows: why a seat without a socket is kept.                           *)

\* Nothing is buffered for the record of a socket on which nobody has joined.
Untouched ==
  \A s \in Socket : ready[s] = "unused" \/ s \in authing =>
    buffer[s] = <<>>

\* A window runs only for a client that is in the room and has no socket.
TimersHeld == \A r \in Socket : timer[r] => alive[r] /\ socket[r] = NoSocket

SeatsHeld ==
  \A r \in Socket :
    Seated(r) /\ socket[r] = NoSocket /\ r \notin threw => timer[r] \/ dropping[r] > 0

\* A record with a socket buffers nothing.
Unbuffered == \A r \in Socket : socket[r] # NoSocket => buffer[r] = <<>>

WindowInv == Untouched /\ TimersHeld /\ SeatsHeld /\ Unbuffered

LEMMA InitWindow == Init => WindowInv
BY RoomAssumption
DEF Init, WindowInv, Untouched, TimersHeld, SeatsHeld, Unbuffered, Seated

\* Nobody joins on a socket, and nobody's onDrop throws.
NobodyJoins ==
  /\ \A s \in Socket : ready'[s] = "unused" \/ s \in authing' =>
                         ready[s] = "unused" \/ s \in authing
  /\ UNCHANGED <<threw, clients>>

\* Records are left alone.
Rests ==
  /\ NobodyJoins
  /\ UNCHANGED record

LEMMA RestsWindow ==
  ASSUME SeatInv, WindowInv, Rests PROVE WindowInv'
<1> USE DEF WindowInv, Rests, NobodyJoins
<1>1. Untouched' /\ TimersHeld' /\ Unbuffered'
  BY DEF Untouched, TimersHeld, Unbuffered
<1>2. SeatsHeld'
  BY DEF SeatsHeld, Seated
<1>3. QED
  BY <1>1, <1>2

\* Records are evicted, onDrop calls of some of them end, messages are buffered.
Departs ==
  \E R \in SUBSET Socket :
    /\ Forget(R)
    /\ \A r \in Socket \ R : dropping'[r] = dropping[r]
    /\ \A r \in Socket : \/ buffer'[r] \in {buffer[r], <<>>}
                         \/ socket[r] = NoSocket /\ alive[r]
    /\ \A s \in Socket : ready'[s] = "unused" => ready[s] = "unused"
    /\ UNCHANGED <<socket, authing, threw>>

LEMMA DepartsWindow ==
  ASSUME SeatInv, WindowInv, Departs PROVE WindowInv'
<1>2. PICK R \in SUBSET Socket :
        /\ Forget(R)
        /\ \A r \in Socket \ R : dropping'[r] = dropping[r]
  BY DEF Departs
<1>3. \A r \in Socket : \/ buffer'[r] \in {buffer[r], <<>>}
                        \/ socket[r] = NoSocket /\ alive[r]
  BY DEF Departs
<1>4. /\ \A s \in Socket : ready'[s] = "unused" => ready[s] = "unused"
      /\ UNCHANGED <<socket, authing, threw>>
  BY DEF Departs
<1>5. /\ \A r \in Socket : alive'[r] <=> alive[r] /\ r \notin Evictable(R)
      /\ \A r \in Socket : timer'[r] <=> timer[r] /\ r \notin Evictable(R)
      /\ \A c \in Client : \/ clients'[c] = NoSocket
                           \/ clients'[c] = clients[c] /\ clients[c] \notin Evictable(R)
      /\ Evictable(R) = {r \in R : alive[r]}
  <2>1. /\ \A r \in Socket : alive'[r] <=> alive[r] /\ r \notin Evictable(R)
        /\ \A c \in Client : \/ clients'[c] = NoSocket
                             \/ clients'[c] = clients[c] /\ clients[c] \notin Evictable(R)
    BY <1>2, ForgetEffect
  <2>2. \A r \in Socket : timer'[r] <=> timer[r] /\ r \notin Evictable(R)
    BY <1>2 DEF Forget
  <2>3. QED
    BY <2>1, <2>2 DEF Evictable
<1> USE DEF WindowInv
<1>6. Untouched'
  BY <1>3, <1>4 DEF Untouched, SeatInv, RecordsOnce
<1>7. TimersHeld'
  BY <1>4, <1>5 DEF TimersHeld
<1>9. SeatsHeld'
  <2> SUFFICES ASSUME NEW r \in Socket, Seated(r)', socket[r] = NoSocket, r \notin threw
               PROVE  timer'[r] \/ dropping'[r] > 0
    BY <1>4 DEF SeatsHeld
  <2>1. Seated(r) /\ r \notin Evictable(R)
    BY <1>5, RoomAssumption DEF Seated
  <2>2. alive[r] /\ r \notin R
    BY <1>5, <2>1, RoomAssumption DEF Seated, SeatInv, MapIsAlive
  <2>3. timer[r] \/ dropping[r] > 0
    BY <2>1 DEF SeatsHeld
  <2>4. QED
    BY <1>2, <1>5, <2>1, <2>2, <2>3
<1>10. Unbuffered'
  BY <1>3, <1>4 DEF Unbuffered
<1>11. QED
  BY <1>6, <1>7, <1>9, <1>10

\* Who is evicted on his own: by a timer, an onDrop, or the application.
LEMMA EvictDeparts ==
  ASSUME TypeOK, NEW r \in Socket, Evict(r),
         \A x \in Socket \ {r} : dropping'[x] = dropping[x],
         UNCHANGED <<socket, authing, threw>>
  PROVE  Departs
<1>1. Forget({r}) /\ \A s \in Socket : ready'[s] = "unused" => ready[s] = "unused"
  BY CloseSoftens DEF Evict, Softens
<1>2. \A x \in Socket : buffer'[x] \in {buffer[x], <<>>}
  BY DEF Evict, TypeOK
<1>3. {r} \in SUBSET Socket
  OBVIOUS
<1>4. QED
  BY <1>1, <1>2, <1>3 DEF Departs

LEMMA DeliverDeparts ==
  ASSUME TypeOK, NEW W, NEW B \in SUBSET Socket, Deliver(W, B),
         \A r \in B : socket[r] = NoSocket /\ alive[r]
  PROVE  Departs
<1> DEFINE full == {r \in B : Len(buffer[r]) + 1 > MaxBuffer}
<1>1. Forget(full) /\ full \in SUBSET Socket
  BY DEF Deliver
<1>2. buffer' = [r \in Socket |-> IF r \in full THEN <<>>
                                  ELSE IF r \in B THEN Append(buffer[r], next) ELSE buffer[r]]
  BY DEF Deliver
<1> HIDE DEF full
<1>3. \A r \in Socket : \/ buffer'[r] \in {buffer[r], <<>>}
                        \/ socket[r] = NoSocket /\ alive[r]
  BY <1>2
<1>4. UNCHANGED <<ready, dropping, socket, authing, threw>>
  BY DEF Deliver
<1>5. QED
  BY <1>1, <1>3, <1>4 DEF Departs

LEMMA AcceptWindow ==
  ASSUME SeatInv, WindowInv, NEW s \in Socket, AuthAccept(s)
  PROVE  WindowInv'
<1>1. /\ s \in authing /\ authing' = authing \ {s}
      /\ \A x \in Socket : socket'[x] = IF x = s THEN s ELSE socket[x]
      /\ \A x \in Socket : alive'[x] = IF x = s THEN TRUE ELSE alive[x]
      /\ \A c \in Client : clients'[c] = clients[c] \/ clients'[c] = s
      /\ UNCHANGED <<ready, buffer, timer, dropping, threw>>
  BY DEF AuthAccept, SeatInv, TypeOK, Resolved
<1>2. ~timer[s] /\ buffer[s] = <<>>
  BY <1>1 DEF WindowInv, Untouched, TimersHeld, SeatInv, RecordsOnce
<1> USE DEF WindowInv
<1>3. Untouched' /\ TimersHeld' /\ Unbuffered'
  BY <1>1, <1>2 DEF Untouched, TimersHeld, Unbuffered
<1>4. SeatsHeld'
  BY <1>1, RoomAssumption DEF SeatsHeld, Seated
<1>5. QED
  BY <1>3, <1>4

LEMMA ReconnectWindow ==
  ASSUME SeatInv, WindowInv, NEW s \in Socket, NEW c \in Client, Reconnect(s, c)
  PROVE  WindowInv'
<1>1. PICK r \in Socket :
        /\ \A x \in Socket : ready'[x] = IF x = s THEN "open" ELSE ready[x]
        /\ \A x \in Socket : timer'[x] <=> timer[x] /\ x # r
        /\ \A x \in Socket : socket'[x] = IF x = r THEN s ELSE socket[x]
        /\ \A x \in Socket : buffer'[x] = IF x = r THEN <<>> ELSE buffer[x]
        /\ UNCHANGED <<alive, dropping, authing, clients, threw>>
  <2> DEFINE r == clients[c]
  <2>1. r \in Socket
    BY DEF Reconnect, SeatInv, TypeOK
  <2>2. \A x \in Socket : ready'[x] = IF x = s THEN "open" ELSE ready[x]
    BY <2>1 DEF Reconnect, SeatInv, TypeOK
  <2>3. /\ \A x \in Socket : timer'[x] <=> timer[x] /\ x # r
        /\ \A x \in Socket : socket'[x] = IF x = r THEN s ELSE socket[x]
        /\ \A x \in Socket : buffer'[x] = IF x = r THEN <<>> ELSE buffer[x]
    BY <2>1 DEF Reconnect, CancelWindow, Flush, SeatInv, TypeOK
  <2>4. UNCHANGED <<alive, dropping, authing, clients, threw>>
    BY DEF Reconnect
  <2> HIDE DEF r
  <2>5. QED
    BY <2>1, <2>2, <2>3, <2>4
<1> USE DEF WindowInv
<1>2. Untouched'
  BY <1>1 DEF Untouched
<1>3. TimersHeld' /\ Unbuffered'
  BY <1>1 DEF TimersHeld, Unbuffered
<1>4. SeatsHeld'
  BY <1>1, RoomAssumption DEF SeatsHeld, Seated
<1>5. QED
  BY <1>2, <1>3, <1>4

\* A record gives up its socket: an onDrop call holds its seat from then on.
LEMMA DropWindow ==
  ASSUME SeatInv, WindowInv, NEW s \in Socket, CloseDrop(s)
  PROVE  WindowInv'
<1>1. PICK r \in Socket :
        /\ \A x \in Socket : socket'[x] = IF x = r THEN NoSocket ELSE socket[x]
        /\ \A x \in Socket : dropping'[x] = IF x = r THEN dropping[x] + 1 ELSE dropping[x]
        /\ \A x \in Socket : ready'[x] = "unused" => ready[x] = "unused"
        /\ UNCHANGED <<alive, buffer, timer, authing, clients, threw>>
  <2> DEFINE r == clients[owner[s]]
  <2>1. r \in Socket
    BY DEF CloseDrop, IsCurrent, SeatInv, TypeOK
  <2>2. /\ \A x \in Socket : socket'[x] = IF x = r THEN NoSocket ELSE socket[x]
        /\ \A x \in Socket : dropping'[x] = IF x = r THEN dropping[x] + 1 ELSE dropping[x]
        /\ \A x \in Socket : ready'[x] = "unused" => ready[x] = "unused"
    BY <2>1 DEF CloseDrop, CloseCodes, SeatInv, TypeOK
  <2>3. UNCHANGED <<alive, buffer, timer, authing, clients, threw>>
    BY DEF CloseDrop
  <2> HIDE DEF r
  <2>4. QED
    BY <2>1, <2>2, <2>3
<1>2. \A x \in Socket : dropping[x] \in Nat
  BY DEF SeatInv, TypeOK
<1> USE DEF WindowInv
<1>3. Untouched' /\ TimersHeld' /\ Unbuffered'
  BY <1>1 DEF Untouched, TimersHeld, Unbuffered
<1>4. SeatsHeld'
  BY <1>1, <1>2 DEF SeatsHeld, Seated
<1>5. QED
  BY <1>3, <1>4

\* A window is opened for a client without a socket.
LEMMA AllowWindow ==
  ASSUME SeatInv, WindowInv, NEW r \in Socket, AllowReconnection(r)
  PROVE  WindowInv'
<1>1. /\ alive[r] /\ socket[r] = NoSocket
      /\ \A x \in Socket : timer'[x] <=> timer[x] \/ x = r
      /\ UNCHANGED <<ready, authing, socket, alive, buffer, clients, dropping, threw>>
  BY DEF AllowReconnection, SeatInv, TypeOK
<1> USE DEF WindowInv
<1>2. Untouched' /\ TimersHeld' /\ Unbuffered'
  BY <1>1 DEF Untouched, TimersHeld, Unbuffered
<1>3. SeatsHeld'
  BY <1>1 DEF SeatsHeld, Seated
<1>4. QED
  BY <1>2, <1>3

\* An onDrop call that ends leaves those of the other records running.
LEMMA DropEndsCounts ==
  ASSUME TypeOK, NEW r \in Socket, DropEnds(r)
  PROVE  \A x \in Socket \ {r} : dropping'[x] = dropping[x]
BY DEF DropEnds, TypeOK

LEMMA SettleWindow ==
  ASSUME SeatInv, WindowInv, NEW r \in Socket, DropReturns(r) \/ DropThrows(r)
  PROVE  WindowInv'
<1>1. \A x \in Socket \ {r} : dropping'[x] = dropping[x]
  BY DropEndsCounts DEF DropReturns, DropThrows, SeatInv
<1>2. /\ UNCHANGED <<ready, authing, socket, alive, buffer, timer, clients>>
      /\ threw \subseteq threw'
  BY DEF DropReturns, DropThrows
<1>3. Seated(r) /\ socket[r] = NoSocket /\ r \notin threw' => timer[r]
  BY RoomAssumption DEF DropReturns, DropThrows, Abandoned, SeatInv, MapIsAlive, Seated
<1> USE DEF WindowInv
<1>4. Untouched' /\ TimersHeld' /\ Unbuffered'
  BY <1>2 DEF Untouched, TimersHeld, Unbuffered
<1>5. SeatsHeld'
  BY <1>1, <1>2, <1>3 DEF SeatsHeld, Seated
<1>6. QED
  BY <1>4, <1>5

LEMMA StopWindow ==
  ASSUME SeatInv, WindowInv, StopEnds PROVE WindowInv'
<1> DEFINE all == {r \in Socket : Seated(r)}
<1>1. /\ \A c \in Client : clients'[c] = NoSocket
      /\ \A r \in Socket : alive'[r] <=> alive[r] /\ r \notin all
      /\ \A r \in Socket : timer'[r] <=> timer[r] /\ r \notin all
      /\ \A r \in Socket : buffer'[r] \in {buffer[r], <<>>}
      /\ \A s \in Socket : ready'[s] = "unused" => ready[s] = "unused"
      /\ UNCHANGED <<authing, socket>>
  BY CloseSoftens DEF StopEnds, Softens, SeatInv
<1> HIDE DEF all
<1> USE DEF WindowInv
<1>2. Untouched' /\ TimersHeld' /\ Unbuffered'
  BY <1>1 DEF Untouched, TimersHeld, Unbuffered
<1>4. SeatsHeld'
  BY <1>1, RoomAssumption DEF SeatsHeld, Seated
<1>5. QED
  BY <1>2, <1>4

\* Every step is of one of the kinds above.
LEMMA WindowKinds ==
  ASSUME SeatInv, [Next]_vars
  PROVE  \/ \E s \in Socket : AuthAccept(s) \/ CloseDrop(s)
         \/ \E s \in Socket, c \in Client : Reconnect(s, c)
         \/ \E r \in Socket : AllowReconnection(r) \/ DropReturns(r) \/ DropThrows(r)
         \/ StopEnds
         \/ Departs
         \/ Rests
<1>1. TypeOK /\ RecordsOnce
  BY DEF SeatInv
<1>2. ASSUME NEW s \in Socket, NEW c \in Client,
             Open(s, c) \/ RejectDuplicate(s, c) \/ RejectNamed(s, c)
      PROVE  Rests
  BY <1>1, <1>2
  DEF Open, RejectDuplicate, RejectNamed, Adopt, Rests, NobodyJoins, TypeOK
<1>3. ASSUME NEW s \in Socket, RejectSession(s) PROVE Rests
  BY <1>1, <1>3 DEF RejectSession, Rests, NobodyJoins, TypeOK
<1>4. ASSUME NEW s \in Socket, AuthReject(s) PROVE Rests
  <2>1. Softens /\ authing' = authing \ {s}
    BY <1>1, <1>4, CloseSoftens DEF AuthReject
  <2>2. s \in authing
    BY <1>4 DEF AuthReject
  <2>3. QED
    BY <1>4, <2>1, <2>2 DEF AuthReject, Rests, NobodyJoins, Softens
<1>5. ASSUME NEW s \in Socket, PeerActs(s) PROVE Rests
  <2>1. ASSUME NEW k \in Codes, PeerCloses(s, k) PROVE Rests
    BY <1>1, <2>1 DEF PeerCloses, Rests, NobodyJoins, TypeOK
  <2>2. CASE LeaveFrame(s)
    BY <1>1, <2>2, CloseSoftens DEF LeaveFrame, Rests, NobodyJoins, Softens
  <2>3. QED
    BY <1>5, <2>1, <2>2 DEF PeerActs
<1>6. ASSUME NEW s \in Socket, CloseStale(s) \/ CloseUntracked(s) PROVE Rests
  BY <1>1, <1>6 DEF CloseStale, CloseUntracked, Rests, NobodyJoins, TypeOK
<1>7. ASSUME NEW s \in Socket, CloseLeave(s) PROVE Departs
  <2> DEFINE r == clients[owner[s]]
  <2>1. r \in Socket /\ Forget({r})
    BY <1>1, <1>7 DEF CloseLeave, IsCurrent, TypeOK
  <2>2. /\ \A x \in Socket : ready'[x] = "unused" => ready[x] = "unused"
        /\ \A x \in Socket : buffer'[x] \in {buffer[x], <<>>}
        /\ UNCHANGED <<socket, authing, threw, dropping>>
    BY <1>1, <1>7, <2>1 DEF CloseLeave, TypeOK
  <2>3. {r} \in SUBSET Socket
    BY <2>1
  <2> HIDE DEF r
  <2>4. QED
    BY <2>1, <2>2, <2>3 DEF Departs
<1>8. ASSUME NEW r \in Socket, Disconnect(r) \/ TimerFires(r) \/ StrayFires(r) PROVE Departs
  <2>1. Evict(r) /\ UNCHANGED <<dropping, socket, authing, threw>>
    BY <1>8 DEF Disconnect, TimerFires, StrayFires
  <2>2. QED
    BY <1>1, <2>1, EvictDeparts
<1>10. ASSUME NEW r \in Socket, DropEvicts(r) PROVE Departs
  <2>1. Evict(r) /\ UNCHANGED <<socket, authing, threw>>
    BY <1>10 DEF DropEvicts
  <2>2. \A x \in Socket \ {r} : dropping'[x] = dropping[x]
    BY <1>1, <1>10, DropEndsCounts DEF DropEvicts
  <2>3. QED
    BY <1>1, <2>1, <2>2, EvictDeparts
<1>11. ASSUME NEW r \in Socket, NEW reliable \in BOOLEAN, Send(r, reliable) PROVE Departs
  <2> DEFINE B == IF socket[r] = NoSocket /\ reliable THEN {r} ELSE {}
  <2>1. Deliver(IF Writable(r) THEN {r} ELSE {}, B) /\ alive[r]
    BY <1>11 DEF Send
  <2>2. B \in SUBSET Socket /\ \A x \in B : socket[x] = NoSocket /\ alive[x]
    BY <2>1
  <2> HIDE DEF B
  <2>3. QED
    BY <1>1, <2>1, <2>2, DeliverDeparts
<1>12. \A r \in Socket : Seated(r) => alive[r]
  BY RoomAssumption DEF SeatInv, MapIsAlive, Seated
<1>13. ASSUME NEW reliable \in BOOLEAN, Broadcast(reliable) PROVE Departs
  <2> DEFINE B == IF reliable THEN {r \in Socket : Seated(r) /\ socket[r] = NoSocket} ELSE {}
  <2>1. Deliver(Subscribers, B)
    BY <1>13 DEF Broadcast
  <2>2. B \in SUBSET Socket /\ \A x \in B : socket[x] = NoSocket /\ alive[x]
    BY <1>12
  <2> HIDE DEF B
  <2>3. QED
    BY <1>1, <2>1, <2>2, DeliverDeparts
<1>14. ASSUME NEW reliable \in BOOLEAN, NEW except \in SUBSET Client,
              BroadcastExcept(except, reliable)
       PROVE  Departs
  <2> DEFINE to == {r \in Socket : \E c \in Client \ except : clients[c] = r}
             B == IF reliable THEN {r \in to : socket[r] = NoSocket} ELSE {}
  <2>1. Deliver({r \in to : Writable(r)}, B)
    BY <1>14 DEF BroadcastExcept
  <2>2. B \in SUBSET Socket /\ \A x \in B : socket[x] = NoSocket /\ alive[x]
    BY <1>12 DEF Seated
  <2> HIDE DEF B, to
  <2>3. QED
    BY <1>1, <2>1, <2>2, DeliverDeparts
<1>15. CASE StopBegins \/ UNCHANGED vars
  BY <1>15 DEF StopBegins, Rests, NobodyJoins
<1>16. QED
  BY <1>2, <1>3, <1>4, <1>5, <1>6, <1>7, <1>8, <1>10, <1>11, <1>13, <1>14, <1>15
  DEF Next, Connect, Authorise, Closed, AppActs, DropSettles, AppBroadcasts

LEMMA NextWindow == SeatInv /\ WindowInv /\ [Next]_vars => WindowInv'
BY WindowKinds, AcceptWindow, ReconnectWindow, DropWindow, AllowWindow, SettleWindow,
   StopWindow, DepartsWindow, RestsWindow

\* Everything the room's records and its transport agree about.
RecordInv == SeatInv /\ RouteInv /\ WindowInv

LEMMA RecordInvariant == Spec => []RecordInv
<1>1. Init => RecordInv
  BY InitSeat, InitRoute, InitWindow DEF RecordInv
<1>2. RecordInv /\ [Next]_vars => RecordInv'
  BY NextSeat, NextRoute, NextWindow DEF RecordInv
<1>3. QED
  BY <1>1, <1>2, PTL DEF Spec

\* A seat is never held without a reason, and reconnect() cancels the window the room
\* knows of: onDrop, its window and the reconnection in every order.
THEOREM SeatsAreHeldForAReason == Spec => []HeldSeatHasReason
<1>1. RecordInv => HeldSeatHasReason
  BY DEF RecordInv, WindowInv, SeatsHeld, TimersHeld, HeldSeatHasReason
<1>2. QED
  BY <1>1, RecordInvariant, PTL

\* After stop no client, no window and no open socket is left, but for those of the
\* onAuth that was still awaited.
THEOREM StoppedRoomsAreQuiet == Spec => []StoppedRoomIsQuiet
<1>1. RecordInv => StoppedRoomIsQuiet
  <2> SUFFICES ASSUME RecordInv, phase = "stopped", NEW r \in Socket, timer[r],
                      owner[r] \notin shared
               PROVE  r \in late
    BY DEF RecordInv, RouteInv, StoppedIsEmpty, StoppedRoomIsQuiet
  <2>1. owner[r] \in Client /\ clients[owner[r]] = r
    BY DEF RecordInv, WindowInv, TimersHeld, SeatInv, OneUser, RecordsOnce
  <2>2. QED
    BY <2>1, RoomAssumption DEF RecordInv, RouteInv, StoppedIsEmpty
<1>2. QED
  BY <1>1, RecordInvariant, PTL

-----------------------------------------------------------------------------
(* Order: what was sent to a record and what is buffered for it.           *)

Rising(q, n) ==
  /\ \A i, j \in 1..Len(q) : i < j => q[i] < q[j]
  /\ \A i \in 1..Len(q) : q[i] < n

LEMMA RisingAppend ==
  ASSUME NEW q \in Seq(Nat), NEW n \in Nat, Rising(q, n)
  PROVE  Rising(Append(q, n), n + 1)
<1>1. /\ Len(q) \in Nat /\ Len(Append(q, n)) = Len(q) + 1
      /\ \A i \in 1..Len(q) : Append(q, n)[i] = q[i] /\ q[i] \in Nat
      /\ Append(q, n)[Len(q) + 1] = n
  BY AppendProperties, LenProperties, ElementOfSeq
<1>2. \A i \in 1..(Len(q) + 1) : i \in 1..Len(q) \/ i = Len(q) + 1
  BY <1>1
<1>3. \A i, j \in 1..(Len(q) + 1) : i < j => i \in 1..Len(q)
  BY <1>1
<1>4. QED
  BY <1>1, <1>2, <1>3 DEF Rising

LEMMA RisingLater ==
  ASSUME NEW q \in Seq(Nat), NEW n \in Nat, Rising(q, n)
  PROVE  Rising(q, n + 1)
<1>1. \A i \in 1..Len(q) : q[i] \in Nat
  BY ElementOfSeq
<1>2. QED
  BY <1>1 DEF Rising

LEMMA RisingFront ==
  ASSUME NEW p \in Seq(Nat), NEW q \in Seq(Nat), NEW n \in Nat, Rising(p \o q, n)
  PROVE  Rising(p, n)
<1>1. /\ Len(p) \in Nat /\ Len(q) \in Nat /\ Len(p \o q) = Len(p) + Len(q)
      /\ \A i \in 1..Len(p) : (p \o q)[i] = p[i]
  BY ConcatProperties, LenProperties
<1>2. \A i \in 1..Len(p) : i \in 1..Len(p \o q)
  BY <1>1
<1>3. QED
  BY <1>1, <1>2 DEF Rising

LEMMA ConcatAppend ==
  ASSUME NEW p \in Seq(Nat), NEW q \in Seq(Nat), NEW n \in Nat
  PROVE  p \o Append(q, n) = Append(p \o q, n)
<1>1. Append(q, n) = q \o <<n>> /\ Append(p \o q, n) = (p \o q) \o <<n>>
  BY AppendIsConcat, ConcatProperties
<1>2. <<n>> \in Seq(Nat)
  OBVIOUS
<1>3. QED
  BY <1>1, <1>2, ConcatAssociative

\* No new message: buffers are kept, dropped or flushed.
NothingNew ==
  /\ next' = next
  /\ \A r \in Socket :
       \/ sent'[r] = sent[r] /\ buffer'[r] \in {buffer[r], <<>>}
       \/ sent'[r] = sent[r] \o buffer[r] /\ buffer'[r] = <<>>

\* A new message is written to some sockets, and buffered for some records.
OneMore ==
  /\ next' = next + 1
  /\ \A r \in Socket :
       \/ sent'[r] = sent[r] /\ buffer'[r] \in {buffer[r], <<>>, Append(buffer[r], next)}
       \/ /\ sent'[r] = Append(sent[r], next)
          /\ buffer[r] = <<>> /\ buffer'[r] = <<>>

LEMMA DeliverAdds ==
  ASSUME TypeOK, Unbuffered, NEW W, NEW B \in SUBSET Socket, Deliver(W, B),
         \A r \in W : r \in Socket /\ socket[r] # NoSocket,
         \A r \in B : socket[r] = NoSocket
  PROVE  OneMore
<1> DEFINE full == {r \in B : Len(buffer[r]) + 1 > MaxBuffer}
<1>1. /\ next' = next + 1
      /\ \A r \in Socket : sent'[r] = IF r \in W THEN Append(sent[r], next) ELSE sent[r]
      /\ \A r \in Socket : buffer'[r] = IF r \in full THEN <<>>
                                        ELSE IF r \in B THEN Append(buffer[r], next)
                                        ELSE buffer[r]
  BY DEF Deliver
<1>2. full \subseteq B
  OBVIOUS
<1> HIDE DEF full
<1>3. \A r \in W : buffer[r] = <<>> /\ r \notin B
  BY DEF Unbuffered
<1>4. QED
  BY <1>1, <1>2, <1>3 DEF OneMore

LEMMA OrderKinds ==
  ASSUME TypeOK, Unbuffered, [Next]_vars
  PROVE  NothingNew \/ OneMore
<1>1. ASSUME NEW s \in Socket, Closed(s) PROVE NothingNew
  <2>1. CASE CloseStale(s) \/ CloseUntracked(s) \/ CloseDrop(s)
    BY <2>1 DEF CloseStale, CloseUntracked, CloseDrop, NothingNew
  <2>2. CASE CloseLeave(s)
    BY <2>2 DEF CloseLeave, NothingNew, TypeOK
  <2>3. QED
    BY <1>1, <2>1, <2>2 DEF Closed
<1>2. ASSUME NEW s \in Socket, NEW c \in Client, Reconnect(s, c) PROVE NothingNew
  <2> DEFINE r == clients[c]
  <2>1. /\ r \in Socket /\ UNCHANGED next
        /\ sent' = [sent EXCEPT ![r] = @ \o buffer[r]]
        /\ buffer' = [buffer EXCEPT ![r] = <<>>]
    BY <1>2 DEF Reconnect, Flush, TypeOK
  <2> HIDE DEF r
  <2>2. QED
    BY <2>1 DEF NothingNew, TypeOK
<1>3. ASSUME NEW s \in Socket, Connect(s) \/ Authorise(s) \/ PeerActs(s)
      PROVE  NothingNew
  <2>1. ASSUME NEW c \in Client, Open(s, c) \/ RejectDuplicate(s, c) \/ RejectNamed(s, c)
        PROVE  NothingNew
    BY <2>1 DEF Open, RejectDuplicate, RejectNamed, NothingNew
  <2>2. CASE RejectSession(s) \/ AuthAccept(s) \/ AuthReject(s)
    BY <2>2 DEF RejectSession, AuthAccept, AuthReject, NothingNew
  <2>3. CASE PeerActs(s)
    BY <2>3 DEF PeerActs, PeerCloses, LeaveFrame, NothingNew
  <2>4. QED
    BY <1>2, <1>3, <2>1, <2>2, <2>3 DEF Connect, Authorise
<1>4. ASSUME NEW r \in Socket, Evict(r), UNCHANGED <<next, sent>> PROVE NothingNew
  BY <1>4 DEF Evict, NothingNew, TypeOK
<1>5. ASSUME NEW r \in Socket, DropSettles(r) \/ TimerFires(r) \/ StrayFires(r)
      PROVE  NothingNew
  <2>1. CASE DropReturns(r) \/ DropThrows(r)
    BY <2>1 DEF DropReturns, DropThrows, NothingNew
  <2>2. CASE DropEvicts(r) \/ TimerFires(r) \/ StrayFires(r)
    BY <1>4, <2>2 DEF DropEvicts, TimerFires, StrayFires
  <2>3. QED
    BY <1>5, <2>1, <2>2 DEF DropSettles
<1>6. ASSUME NEW r \in Socket, AppActs(r) PROVE NothingNew \/ OneMore
  <2>1. CASE AllowReconnection(r)
    BY <2>1 DEF AllowReconnection, NothingNew
  <2>2. CASE Disconnect(r)
    BY <1>4, <2>2 DEF Disconnect
  <2>3. ASSUME NEW reliable \in BOOLEAN, Send(r, reliable) PROVE OneMore
    <3> DEFINE W == IF Writable(r) THEN {r} ELSE {}
               B == IF socket[r] = NoSocket /\ reliable THEN {r} ELSE {}
    <3>1. Deliver(W, B)
      BY <2>3 DEF Send
    <3>2. /\ B \in SUBSET Socket /\ \A x \in B : socket[x] = NoSocket
          /\ \A x \in W : x \in Socket /\ socket[x] # NoSocket
      BY DEF Writable
    <3> HIDE DEF B, W
    <3>3. QED
      BY <3>1, <3>2, DeliverAdds
  <2>4. QED
    BY <1>6, <2>1, <2>2, <2>3 DEF AppActs
<1>7. CASE AppBroadcasts
  <2>1. ASSUME NEW reliable \in BOOLEAN, Broadcast(reliable) PROVE OneMore
    BY <2>1, DeliverAdds DEF Broadcast, Writable
  <2>2. ASSUME NEW reliable \in BOOLEAN, NEW x \in SUBSET Client,
               BroadcastExcept(x, reliable)
        PROVE  OneMore
    BY <2>2, DeliverAdds DEF BroadcastExcept, Writable
  <2>3. QED
    BY <1>7, <2>1, <2>2 DEF AppBroadcasts
<1>8. CASE StopBegins \/ StopEnds \/ UNCHANGED vars
  BY <1>8 DEF StopBegins, StopEnds, NothingNew
<1>9. QED
  BY <1>1, <1>2, <1>3, <1>5, <1>6, <1>7, <1>8 DEF Next

LEMMA InitOrder == Init => InOrder
<1> SUFFICES ASSUME Init PROVE InOrder
  OBVIOUS
<1>1. ASSUME NEW r \in Socket PROVE sent[r] \o buffer[r] = <<>>
  <2>1. sent[r] = <<>> /\ buffer[r] = <<>>
    BY DEF Init
  <2>2. QED
    BY <2>1, ConcatEmptySeq
<1>2. 1..Len(<<>>) = {}
  OBVIOUS
<1>3. QED
  BY <1>1, <1>2 DEF InOrder

LEMMA NextOrder == TypeOK /\ Unbuffered /\ InOrder /\ [Next]_vars => InOrder'
<1> SUFFICES ASSUME TypeOK, Unbuffered, InOrder, [Next]_vars, NEW r \in Socket
             PROVE  Rising(sent'[r] \o buffer'[r], next')
  BY DEF InOrder, Rising
<1> DEFINE q == sent[r] \o buffer[r]
<1>1. /\ sent[r] \in Seq(Nat) /\ buffer[r] \in Seq(Nat) /\ next \in Nat
      /\ q \in Seq(Nat)
  BY ConcatProperties DEF TypeOK
<1>2. Rising(q, next) /\ Rising(sent[r], next)
  BY <1>1, RisingFront DEF InOrder, Rising
<1>3. sent[r] \o <<>> = sent[r] /\ q \o <<>> = q
  BY <1>1, ConcatEmptySeq
<1>4. CASE NothingNew
  BY <1>2, <1>3, <1>4 DEF NothingNew
<1>5. CASE OneMore
  <2>1. CASE sent'[r] = sent[r] /\ buffer'[r] = Append(buffer[r], next)
    <3>1. sent'[r] \o buffer'[r] = Append(q, next)
      BY <1>1, <2>1, ConcatAppend, ZenonT(30)
    <3>2. QED
      BY <1>1, <1>2, <1>5, <3>1, RisingAppend DEF OneMore
  <2>2. CASE sent'[r] = sent[r] /\ buffer'[r] \in {buffer[r], <<>>}
    BY <1>1, <1>2, <1>3, <1>5, <2>2, RisingLater DEF OneMore
  <2>3. CASE sent'[r] = Append(sent[r], next) /\ buffer'[r] = <<>>
    <3>1. sent'[r] \o buffer'[r] = Append(sent[r], next)
      BY <1>1, <2>3, ConcatEmptySeq, AppendProperties
    <3>2. QED
      BY <1>1, <1>2, <1>5, <3>1, RisingAppend DEF OneMore
  <2>4. QED
    BY <1>5, <2>1, <2>2, <2>3 DEF OneMore
<1>6. QED
  BY <1>4, <1>5, OrderKinds

\* Drops, buffering, overflow and reconnections neither repeat a message nor send one
\* before another that the application sent first.
THEOREM MessagesStayInOrder == Spec => []InOrder
<1>1. RecordInv => TypeOK /\ Unbuffered
  BY DEF RecordInv, SeatInv, WindowInv
<1>2. QED
  BY <1>1, InitOrder, NextOrder, RecordInvariant, PTL DEF Spec

=============================================================================
