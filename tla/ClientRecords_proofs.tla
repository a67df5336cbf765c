------------------------ MODULE ClientRecords_proofs ------------------------
(***************************************************************************)
(* Proofs about ClientRecords, for every number of clients, of heartbeats  *)
(* under way, of joins and of faults.                                      *)
(***************************************************************************)
EXTENDS ClientRecords, TLAPS

USE DEF redis, sdk, room, server, history

-----------------------------------------------------------------------------
(* Why a record says "connected".                                          *)

\* A client that has been seated had its reservation, and only such clients are announced,
\* listed, or connected.
JoinedInv ==
  /\ \A c \in joined : res[c] \in {"done", "over"}
  /\ \A c \in Client : seat[c] # "out" => c \in joined
  /\ \A c \in Client : hash[c].st = "connected" => c \in joined
  /\ \A i \in 1..Len(pipe) : pipe[i].type = "connected" => pipe[i].client \in joined
  /\ \A b \in Beat : beats[b].list \subseteq joined /\ beats[b].add \subseteq joined

\* A heartbeat disconnects only clients that were away when it was captured: a connected
\* client that it neither lists nor has seen away is younger than the heartbeat.
AwayInv ==
  /\ \A b \in Beat : \A c \in Client :
       b \in Unread /\ hash[c].st = "connected" =>
         c \in beats[b].list \/ c \in beats[b].away \/ b \in hash[c].since
  /\ \A b \in Beat : beats[b].drop \subseteq beats[b].away
  /\ \A b \in Beat : beats[b].pc \in {"unindex", "delete"} => beats[b].ids \subseteq beats[b].away

\* What unregisterRoom still has to delete, and what it could not know of.
RemovalInv ==
  /\ removal = "clients" => \A c \in Client : hash[c].st # "none" => c \in todo \cup late
  /\ removal \in {"room", "done"} => \A c \in Client : hash[c].st # "none" => c \in late

IInv == TypeOK /\ JoinedInv /\ AwayInv /\ RemovalInv

-----------------------------------------------------------------------------
(* Type correctness.                                                       *)

LEMMA NoRecordType == NoRecord \in Hashes
BY DEF NoRecord, Hashes

LEMMA NoBeatType == NoBeat \in Beats
BY DEF NoBeat, Beats

\* The bounds are kept.
LEMMA FaultType ==
  ASSUME TypeOK
  PROVE  /\ Fault => faults' \in 0..MaxFaults
         /\ Change => changes' \in 0..MaxChanges
BY RecordsAssumption DEF TypeOK, Fault, Change

LEMMA ConnectType ==
  ASSUME TypeOK, NEW c \in Client, ConnectClient(c)
  PROVE  /\ hash' \in [Client -> Hashes]
         /\ \A d \in Client : hash'[d].st = "connected" => ~hash'[d].ttl
         /\ index' \in SUBSET Client
         /\ late' \in SUBSET Client
<1>1. Connected(c) \in Hashes /\ ~Connected(c).ttl
  BY DEF Connected, Hashes, Unread
<1>2. QED
  BY <1>1 DEF ConnectClient, TypeOK

LEMMA DeleteType ==
  ASSUME TypeOK, NEW c \in Client, DeleteRecord(c)
  PROVE  /\ hash' \in [Client -> Hashes]
         /\ \A d \in Client : hash'[d].st = "connected" => ~hash'[d].ttl
<1>1. NoRecord.st = "none"
  BY DEF NoRecord
<1>2. QED
  BY <1>1, NoRecordType DEF DeleteRecord, TypeOK

LEMMA ProceedsType ==
  ASSUME TypeOK, NEW b \in Beat, NEW r \in Beats, Proceeds(b, r)
  PROVE  beats' \in [Beat -> Beats]
<1>1. Onward(r) \in Beats
  BY NoBeatType DEF Onward
<1>2. QED
  BY <1>1 DEF Proceeds, TypeOK

LEMMA TellType ==
  ASSUME TypeOK, NEW m \in Messages, Tell(m)
  PROVE  pipe' \in Seq(Messages)
BY DEF Tell, TypeOK

LEMMA HearsType ==
  ASSUME TypeOK, NEW m, Hears(m)
  PROVE  pipe' \in Seq(Messages)
BY DEF Hears, TypeOK

LEMMA InitType == Init => TypeOK
BY NoRecordType, NoBeatType, RecordsAssumption DEF Init, TypeOK, NoRecord

\* The sdk's steps.
LEMMA SdkType ==
  ASSUME TypeOK, JoinedInv, NEW c \in Client, SdkStep(c)
  PROVE  TypeOK'
<1>1. CASE Reserve(c)
  <2>1. [NoRecord EXCEPT !.st = "reserved"] \in Hashes
    BY DEF NoRecord, Hashes
  <2>2. hash' \in [Client -> Hashes]
        /\ \A d \in Client : hash'[d].st = "connected" => ~hash'[d].ttl
    BY <1>1, <2>1 DEF Reserve, TypeOK, NoRecord
  <2>3. QED
    BY <1>1, <2>2 DEF Reserve, TypeOK
<1>2. CASE ReserveTtl(c)
  <2>1. hash[c].st # "connected"
    BY <1>2 DEF ReserveTtl, JoinedInv
  <2>2. [hash[c] EXCEPT !.ttl = (hash[c].st # "none")] \in Hashes
    BY DEF TypeOK, Hashes
  <2>3. hash' \in [Client -> Hashes]
        /\ \A d \in Client : hash'[d].st = "connected" => ~hash'[d].ttl
    BY <1>2, <2>1, <2>2 DEF ReserveTtl, TypeOK, Hashes
  <2>4. QED
    BY <1>2, <2>3 DEF ReserveTtl, TypeOK
<1>3. CASE ReserveIndex(c)
  BY <1>3 DEF ReserveIndex, TypeOK
<1>4. CASE ReserveFails(c)
  BY <1>4, FaultType DEF ReserveFails, TypeOK
<1>5. CASE Expires(c)
  <2>1. hash' \in [Client -> Hashes]
        /\ \A d \in Client : hash'[d].st = "connected" => ~hash'[d].ttl
    BY <1>5, NoRecordType DEF Expires, TypeOK, NoRecord
  <2>2. QED
    BY <1>5, <2>1 DEF Expires, TypeOK
<1>6. CASE RemovesClient(c)
  <2>1. hash' \in [Client -> Hashes]
        /\ \A d \in Client : hash'[d].st = "connected" => ~hash'[d].ttl
    BY <1>6, DeleteType DEF RemovesClient, RemoveRecord
  <2>2. QED
    BY <1>6, <2>1 DEF RemovesClient, TypeOK
<1>7. QED
  BY <1>1, <1>2, <1>3, <1>4, <1>5, <1>6 DEF SdkStep

\* The room's removal and end.
LEMMA RemovalType ==
  ASSUME TypeOK, RemovalBegins \/ RemovesIndex \/ RemovesRoom \/ RemovalFails \/ Ends
  PROVE  TypeOK'
<1>1. CASE RemovalBegins
  BY <1>1 DEF RemovalBegins, TypeOK
<1>2. CASE RemovesIndex
  BY <1>2 DEF RemovesIndex, TypeOK
<1>3. CASE RemovesRoom
  BY <1>3 DEF RemovesRoom, TypeOK
<1>4. CASE RemovalFails
  BY <1>4, FaultType DEF RemovalFails, TypeOK
<1>5. CASE Ends
  BY <1>5 DEF Ends, TypeOK
<1>6. QED
  BY <1>1, <1>2, <1>3, <1>4, <1>5

\* The room's steps.
LEMMA SeatType ==
  ASSUME TypeOK, NEW c \in Client, SeatStep(c)
  PROVE  TypeOK'
<1>1. CASE Joins(c)
  <2>1. pipe' \in Seq(Messages)
    BY <1>1, TellType DEF Joins, Messages
  <2>2. QED
    BY <1>1, <2>1, FaultType DEF Joins, TypeOK
<1>2. CASE Drops(c)
  BY <1>2, FaultType DEF Drops, TypeOK
<1>3. CASE Returns(c)
  BY <1>3 DEF Returns, TypeOK
<1>4. CASE Leaves(c)
  <2>1. pipe' \in Seq(Messages)
    BY <1>4, TellType DEF Leaves, Messages
  <2>2. QED
    BY <1>4, <2>1 DEF Leaves, TypeOK
<1>5. QED
  BY <1>1, <1>2, <1>3, <1>4 DEF SeatStep

LEMMA CapturesType ==
  ASSUME TypeOK, NEW b \in Beat, Captures(b)
  PROVE  TypeOK'
<1>1. pipe' \in Seq(Messages)
  BY TellType DEF Captures, Messages
<1>2. [NoBeat EXCEPT !.pc = "sent", !.list = Listed, !.away = joined \ Listed] \in Beats
  BY DEF NoBeat, Beats, Listed, TypeOK
<1>3. hash' \in [Client -> Hashes]
      /\ \A d \in Client : hash'[d].st = "connected" => ~hash'[d].ttl
  BY DEF Captures, TypeOK, Hashes
<1>4. QED
  BY <1>1, <1>2, <1>3 DEF Captures, TypeOK

\* The server's steps.  What its commands leave alone, and what they may have become.
LEMMA MessageType ==
  ASSUME TypeOK, NEW c \in Client, Message(c)
  PROVE  TypeOK'
<1>1. pipe' \in Seq(Messages)
  BY HearsType DEF Message, ConnectedArrives, DisconnectedArrives
<1>2. CASE ConnectedArrives(c)
  <2>1. faults' \in 0..MaxFaults
    BY <1>2, FaultType DEF ConnectedArrives, TypeOK
  <2>2. /\ hash' \in [Client -> Hashes]
        /\ \A d \in Client : hash'[d].st = "connected" => ~hash'[d].ttl
        /\ index' \in SUBSET Client
        /\ late' \in SUBSET Client
    BY <1>2, ConnectType DEF ConnectedArrives, TypeOK
  <2>3. QED
    BY <1>1, <1>2, <2>1, <2>2 DEF ConnectedArrives, TypeOK
<1>3. CASE DisconnectedArrives(c)
  <2>1. faults' \in 0..MaxFaults
    BY <1>3, FaultType DEF DisconnectedArrives, TypeOK
  <2>2. fast' \in [Client -> {"idle", "unindex", "delete"}]
    BY <1>3 DEF DisconnectedArrives, AfterRead, TypeOK
  <2>3. QED
    BY <1>1, <1>3, <2>1, <2>2 DEF DisconnectedArrives, TypeOK
<1>4. QED
  BY <1>2, <1>3 DEF Message

LEMMA FastType ==
  ASSUME TypeOK, NEW c \in Client, FastStep(c)
  PROVE  TypeOK'
<1>1. CASE FastUnindex(c)
  <2>1. faults' \in 0..MaxFaults
    BY <1>1, FaultType DEF FastUnindex, TypeOK
  <2>2. QED
    BY <1>1, <2>1 DEF FastUnindex, LeaveIndex, TypeOK
<1>2. CASE FastDelete(c)
  <2>1. faults' \in 0..MaxFaults
    BY <1>2, FaultType DEF FastDelete, TypeOK
  <2>2. /\ hash' \in [Client -> Hashes]
        /\ \A d \in Client : hash'[d].st = "connected" => ~hash'[d].ttl
    BY <1>2, DeleteType DEF FastDelete, TypeOK
  <2>3. QED
    BY <1>2, <2>1, <2>2 DEF FastDelete, TypeOK
<1>3. QED
  BY <1>1, <1>2 DEF FastStep

\* Heartbeat b once the records of its members are read, but for those of F.
Read(b, F) ==
  LET found == {c \in beats[b].ids \ F : hash[c].st # "none"}
      stale == beats[b].ids \ found
  IN [beats[b] EXCEPT !.pc = IF stale = {} THEN "act" ELSE "stale", !.list = {}, !.ids = stale,
                      !.add = ToConnect(b, found), !.drop = ToDisconnect(b, found)]

LEMMA ReadsSome ==
  \A b \in Beat : ReadsRecords(b) => \E F \in SUBSET beats[b].ids : Proceeds(b, Read(b, F))
BY DEF ReadsRecords, Read

\* What a step of the reconciliation of heartbeat b leaves of it.
LEMMA BeatType ==
  ASSUME TypeOK, NEW b \in Beat, BeatStep(b)
  PROVE  beats' \in [Beat -> Beats]
<1> DEFINE R == beats[b]
<1>1. R \in Beats
  BY DEF TypeOK
<1>2. /\ \A f : ToConnect(b, f) \in SUBSET Client
      /\ \A f \in SUBSET Client : ToDisconnect(b, f) \in SUBSET Client
  BY <1>1 DEF ToConnect, ToDisconnect, Beats
<1>3. [beats EXCEPT ![b] = NoBeat] \in [Beat -> Beats]
  BY NoBeatType DEF TypeOK
<1>4. CASE HeartbeatArrives(b)
  <2>1. [beats EXCEPT ![b].pc = "index"] \in [Beat -> Beats]
    BY <1>1 DEF TypeOK, Beats
  <2>2. QED
    BY <1>3, <1>4, <2>1 DEF HeartbeatArrives
<1>5. CASE ReadsIndex(b)
  <2>1. [R EXCEPT !.pc = "act", !.list = {}, !.add = ToConnect(b, {})] \in Beats
    BY <1>1, <1>2 DEF Beats
  <2>2. [R EXCEPT !.pc = "hashes", !.ids = index] \in Beats
    BY <1>1 DEF Beats, TypeOK
  <2>3. QED
    BY <1>3, <1>5, <2>1, <2>2, ProceedsType DEF ReadsIndex, GivesUp
<1>6. CASE ReadsRecords(b)
  <2>0. PICK F \in SUBSET R.ids : Proceeds(b, Read(b, F))
    BY <1>6, ReadsSome
  <2> DEFINE found == {c \in R.ids \ F : hash[c].st # "none"}
             stale == R.ids \ found
  <2>1. found \in SUBSET Client /\ stale \in SUBSET Client
    BY <1>1 DEF Beats
  <2>2. [R EXCEPT !.pc = IF stale = {} THEN "act" ELSE "stale", !.list = {}, !.ids = stale,
                  !.add = ToConnect(b, found), !.drop = ToDisconnect(b, found)] \in Beats
    BY <1>1, <1>2, <2>1 DEF Beats
  <2>3. QED
    BY <2>0, <2>2, ProceedsType DEF Read
<1>7. CASE CleansIndex(b)
  <2>1. [R EXCEPT !.pc = "act", !.ids = {}] \in Beats
    BY <1>1 DEF Beats
  <2>2. QED
    BY <1>3, <1>7, <2>1, ProceedsType DEF CleansIndex, GivesUp
<1>8. ASSUME NEW c \in Client, Connects(b, c)
      PROVE  beats' \in [Beat -> Beats]
  <2>1. [R EXCEPT !.add = @ \ {c}] \in Beats
    BY <1>1 DEF Beats
  <2>2. QED
    BY <1>8, <2>1, ProceedsType DEF Connects
<1>9. ASSUME NEW c \in Client, Disconnects(b, c)
      PROVE  beats' \in [Beat -> Beats]
  <2>1. [R EXCEPT !.pc = AfterRead(c), !.ids = {c}] \in Beats
    BY <1>1 DEF Beats, AfterRead
  <2>2. [R EXCEPT !.drop = @ \ {c}] \in Beats
    BY <1>1 DEF Beats
  <2>3. QED
    BY <1>9, <2>1, <2>2, ProceedsType DEF Disconnects
<1>10. ASSUME NEW c \in Client, Unindexes(b, c) \/ Deletes(b, c)
       PROVE  beats' \in [Beat -> Beats]
  <2>1. [R EXCEPT !.pc = "delete"] \in Beats
        /\ [R EXCEPT !.pc = "act", !.ids = {}, !.drop = @ \ {c}] \in Beats
    BY <1>1 DEF Beats
  <2>2. QED
    BY <1>10, <2>1, ProceedsType DEF Unindexes, Deletes, Done
<1>11. QED
  BY <1>4, <1>5, <1>6, <1>7, <1>8, <1>9, <1>10 DEF BeatStep

LEMMA BeatStepType ==
  ASSUME TypeOK, NEW b \in Beat, BeatStep(b)
  PROVE  TypeOK'
<1>1. beats' \in [Beat -> Beats]
  BY BeatType
<1>2. CASE HeartbeatArrives(b)
  <2>1. faults' \in 0..MaxFaults /\ pipe' \in Seq(Messages)
    BY <1>2, FaultType, HearsType DEF HeartbeatArrives, TypeOK
  <2>2. QED
    BY <1>1, <1>2, <2>1 DEF HeartbeatArrives, TypeOK
<1>3. CASE ReadsIndex(b) \/ ReadsRecords(b)
  <2>1. faults' \in 0..MaxFaults
    BY <1>3, FaultType DEF ReadsIndex, ReadsRecords, GivesUp, TypeOK
  <2>2. QED
    BY <1>1, <1>3, <2>1 DEF ReadsIndex, ReadsRecords, TypeOK
<1>4. CASE CleansIndex(b)
  <2>1. faults' \in 0..MaxFaults /\ index' \in SUBSET Client
    BY <1>4, FaultType DEF CleansIndex, GivesUp, TypeOK
  <2>2. QED
    BY <1>1, <1>4, <2>1 DEF CleansIndex, TypeOK
<1>5. ASSUME NEW c \in Client, Connects(b, c)
      PROVE  TypeOK'
  <2>1. faults' \in 0..MaxFaults
    BY <1>5, FaultType DEF Connects, TypeOK
  <2>2. /\ hash' \in [Client -> Hashes]
        /\ \A d \in Client : hash'[d].st = "connected" => ~hash'[d].ttl
        /\ index' \in SUBSET Client
        /\ late' \in SUBSET Client
    BY <1>5, ConnectType DEF Connects, TypeOK
  <2>3. QED
    BY <1>1, <1>5, <2>1, <2>2 DEF Connects, TypeOK
<1>6. ASSUME NEW c \in Client, Disconnects(b, c)
      PROVE  TypeOK'
  <2>1. faults' \in 0..MaxFaults
    BY <1>6, FaultType DEF Disconnects, TypeOK
  <2>2. QED
    BY <1>1, <1>6, <2>1 DEF Disconnects, TypeOK
<1>7. ASSUME NEW c \in Client, Unindexes(b, c)
      PROVE  TypeOK'
  <2>1. faults' \in 0..MaxFaults /\ index' \in SUBSET Client
    BY <1>7, FaultType DEF Unindexes, LeaveIndex, TypeOK
  <2>2. QED
    BY <1>1, <1>7, <2>1 DEF Unindexes, TypeOK
<1>8. ASSUME NEW c \in Client, Deletes(b, c)
      PROVE  TypeOK'
  <2>1. faults' \in 0..MaxFaults
    BY <1>8, FaultType DEF Deletes, TypeOK
  <2>2. /\ hash' \in [Client -> Hashes]
        /\ \A d \in Client : hash'[d].st = "connected" => ~hash'[d].ttl
    BY <1>8, DeleteType DEF Deletes, TypeOK
  <2>3. QED
    BY <1>1, <1>8, <2>1, <2>2 DEF Deletes, TypeOK
<1>9. QED
  BY <1>2, <1>3, <1>4, <1>5, <1>6, <1>7, <1>8 DEF BeatStep

LEMMA NextType == TypeOK /\ JoinedInv /\ [Next]_vars => TypeOK'
<1> SUFFICES ASSUME TypeOK, JoinedInv, [Next]_vars PROVE TypeOK'
  OBVIOUS
<1>1. CASE UNCHANGED vars
  BY <1>1 DEF TypeOK, vars
<1>2. QED
  BY <1>1, SdkType, RemovalType, SeatType, CapturesType, MessageType, FastType, BeatStepType
     DEF Next

-----------------------------------------------------------------------------
(* Only clients that have been seated are connected.                       *)

LEMMA InitJoined == Init => JoinedInv
BY DEF Init, JoinedInv, NoRecord, NoBeat

\* A message that is read leaves the others.
LEMMA HearsJoined ==
  ASSUME TypeOK, JoinedInv, NEW m, Hears(m)
  PROVE  \A i \in 1..Len(pipe') : pipe'[i].type = "connected" => pipe'[i].client \in joined
BY DEF Hears, JoinedInv, TypeOK

LEMMA SdkJoined ==
  ASSUME TypeOK, JoinedInv, NEW c \in Client, SdkStep(c)
  PROVE  JoinedInv'
<1>1. CASE Reserve(c)
  BY <1>1 DEF Reserve, JoinedInv, TypeOK
<1>2. CASE ReserveTtl(c)
  <2>1. \A d \in Client : hash'[d].st = hash[d].st
    BY <1>2 DEF ReserveTtl, TypeOK, Hashes
  <2>2. QED
    BY <1>2, <2>1 DEF ReserveTtl, JoinedInv, TypeOK
<1>3. CASE ReserveIndex(c)
  BY <1>3 DEF ReserveIndex, JoinedInv, TypeOK
<1>4. CASE ReserveFails(c)
  BY <1>4 DEF ReserveFails, JoinedInv, TypeOK
<1>5. CASE Expires(c)
  BY <1>5 DEF Expires, JoinedInv, TypeOK, NoRecord
<1>6. CASE RemovesClient(c)
  BY <1>6 DEF RemovesClient, RemoveRecord, DeleteRecord, JoinedInv, TypeOK, NoRecord
<1>7. QED
  BY <1>1, <1>2, <1>3, <1>4, <1>5, <1>6 DEF SdkStep

LEMMA RoomJoined ==
  ASSUME TypeOK, JoinedInv,
         \/ RemovalBegins \/ RemovesIndex \/ RemovesRoom \/ RemovalFails \/ Ends
         \/ \E c \in Client : SeatStep(c)
  PROVE  JoinedInv'
<1>1. CASE RemovalBegins \/ RemovesIndex \/ RemovesRoom \/ RemovalFails \/ Ends
  BY <1>1 DEF RemovalBegins, RemovesIndex, RemovesRoom, RemovalFails, Ends, JoinedInv
<1>2. ASSUME NEW c \in Client, Joins(c)
      PROVE  JoinedInv'
  <2>1. /\ joined' = joined \cup {c}
        /\ res' = res /\ hash' = hash /\ beats' = beats
        /\ pipe' = Append(pipe, [type |-> "connected", client |-> c])
        /\ res[c] = "done"
    BY <1>2 DEF Joins, Tell
  <2>2. \A i \in 1..Len(pipe') :
          pipe'[i].type = "connected" => pipe'[i].client \in joined'
    BY <2>1 DEF JoinedInv, TypeOK
  <2>3. \A d \in Client : seat'[d] # "out" => d \in joined'
    BY <1>2, <2>1 DEF Joins, JoinedInv, TypeOK
  <2>4. QED
    BY <2>1, <2>2, <2>3 DEF JoinedInv
<1>3. ASSUME NEW c \in Client, Drops(c) \/ Returns(c)
      PROVE  JoinedInv'
  BY <1>3 DEF Drops, Returns, JoinedInv, TypeOK
<1>4. ASSUME NEW c \in Client, Leaves(c)
      PROVE  JoinedInv'
  BY <1>4 DEF Leaves, Tell, JoinedInv, TypeOK
<1>5. QED
  BY <1>1, <1>2, <1>3, <1>4 DEF SeatStep

LEMMA ServerJoined ==
  ASSUME TypeOK, JoinedInv, NEW c \in Client, Message(c) \/ FastStep(c)
  PROVE  JoinedInv'
<1>1. CASE ConnectedArrives(c)
  <2>1. /\ pipe # <<>> /\ Head(pipe).type = "connected" /\ Head(pipe).client = c
        /\ joined' = joined /\ res' = res /\ beats' = beats
    BY <1>1 DEF ConnectedArrives, Hears
  <2>2. pipe[1] = Head(pipe) /\ 1 \in 1..Len(pipe)
    BY <2>1 DEF TypeOK
  <2>3. c \in joined
    BY <2>1, <2>2 DEF JoinedInv
  <2>4. \A d \in Client : hash'[d].st = "connected" => d \in joined
    BY <1>1, <2>3 DEF ConnectedArrives, ConnectClient, JoinedInv, TypeOK
  <2>5. \A i \in 1..Len(pipe') : pipe'[i].type = "connected" => pipe'[i].client \in joined
    BY <1>1, HearsJoined DEF ConnectedArrives
  <2>6. QED
    BY <1>1, <2>1, <2>4, <2>5 DEF ConnectedArrives, JoinedInv
<1>2. CASE DisconnectedArrives(c)
  <2>1. \A i \in 1..Len(pipe') : pipe'[i].type = "connected" => pipe'[i].client \in joined
    BY <1>2, HearsJoined DEF DisconnectedArrives
  <2>2. QED
    BY <1>2, <2>1 DEF DisconnectedArrives, JoinedInv
<1>3. CASE FastStep(c)
  BY <1>3 DEF FastStep, FastUnindex, FastDelete, DeleteRecord, NoRecord, JoinedInv, TypeOK
<1>4. QED
  BY <1>1, <1>2, <1>3 DEF Message

LEMMA CapturesJoined ==
  ASSUME TypeOK, JoinedInv, NEW b \in Beat, Captures(b)
  PROVE  JoinedInv'
<1>1. joined' = joined /\ res' = res /\ seat' = seat
  BY DEF Captures
<1>2. \A c \in Client : hash'[c].st = hash[c].st
  BY DEF Captures, TypeOK, Hashes
<1>3. \A i \in 1..Len(pipe') : pipe'[i].type = "connected" => pipe'[i].client \in joined
  BY DEF Captures, Tell, JoinedInv, TypeOK
<1>4. \A a \in Beat : beats'[a].list \subseteq joined /\ beats'[a].add \subseteq joined
  BY DEF Captures, NoBeat, Listed, JoinedInv, TypeOK
<1>5. QED
  BY <1>1, <1>2, <1>3, <1>4 DEF JoinedInv

\* A step of one reconciliation leaves the others alone.
LEMMA ProceedsDoes ==
  ASSUME TypeOK, NEW b \in Beat, NEW r, Proceeds(b, r)
  PROVE  /\ beats'[b] = r \/ beats'[b] = NoBeat
         /\ \A a \in Beat \ {b} : beats'[a] = beats[a]
BY DEF Proceeds, Onward, TypeOK

LEMMA GivesUpDoes ==
  ASSUME TypeOK, NEW b \in Beat, beats' = [beats EXCEPT ![b] = NoBeat]
  PROVE  /\ beats'[b] = NoBeat
         /\ \A a \in Beat \ {b} : beats'[a] = beats[a]
BY DEF TypeOK

\* What a step may do to the records: nothing, or a client it was to add is connected, or
\* one it was deleting is gone.
LEMMA BeatRecords ==
  ASSUME TypeOK, NEW b \in Beat, BeatStep(b)
  PROVE  \/ hash' = hash
         \/ \E c \in beats[b].add : ConnectClient(c)
         \/ \E c \in beats[b].ids : beats[b].pc = "delete" /\ DeleteRecord(c)
BY DEF BeatStep, HeartbeatArrives, ReadsIndex, ReadsRecords, CleansIndex, Connects,
       Disconnects, Unindexes, Deletes

\* What it leaves of the heartbeat, r: it connects whom it has listed, it disconnects whom
\* it found connected before the capture and not listed.
Gated(b, c) == c \in Client /\ hash[c].st = "connected"
                 /\ c \notin beats[b].list /\ b \notin hash[c].since

Left(b, r) ==
  /\ r.list \subseteq beats[b].list
  /\ r.add \subseteq beats[b].add \cup beats[b].list
  /\ r.pc \in {"sent", "index", "hashes"} => b \in Unread /\ r.list = beats[b].list
  /\ r # NoBeat => r.away = beats[b].away
  /\ \A c \in r.drop : c \in beats[b].drop \/ (b \in Unread /\ Gated(b, c))
  /\ r.pc \in {"unindex", "delete"} =>
       \/ r.ids \subseteq beats[b].drop
       \/ beats[b].pc = "unindex" /\ r.ids = beats[b].ids

LEMMA NothingLeft ==
  ASSUME NEW b \in Beat
  PROVE  Left(b, NoBeat)
BY DEF Left, NoBeat

LEMMA BeatDoes ==
  ASSUME TypeOK, NEW b \in Beat, BeatStep(b)
  PROVE  Left(b, beats'[b]) /\ \A a \in Beat \ {b} : beats'[a] = beats[a]
<1> DEFINE R == beats[b]
           Goal == Left(b, beats'[b]) /\ \A a \in Beat \ {b} : beats'[a] = beats[a]
<1>1. R \in Beats
  BY DEF TypeOK
<1>2. CASE beats' = [beats EXCEPT ![b] = NoBeat]
  BY <1>2, GivesUpDoes, NothingLeft
<1>3. ASSUME NEW r, Proceeds(b, r), Left(b, r) PROVE Goal
  BY <1>3, ProceedsDoes, NothingLeft
<1>4. CASE HeartbeatArrives(b)
  <2>1. Left(b, [R EXCEPT !.pc = "index"])
    BY <1>1, <1>4 DEF Left, HeartbeatArrives, Unread, Beats
  <2>2. CASE beats' = [beats EXCEPT ![b].pc = "index"]
    <3>1. beats'[b] = [R EXCEPT !.pc = "index"] /\ \A a \in Beat \ {b} : beats'[a] = beats[a]
      BY <2>2 DEF TypeOK
    <3>2. QED
      BY <2>1, <3>1
  <2>3. QED
    BY <1>2, <1>4, <2>2 DEF HeartbeatArrives
<1>5. CASE ReadsIndex(b)
  <2>1. Left(b, [R EXCEPT !.pc = "act", !.list = {}, !.add = ToConnect(b, {})])
    BY <1>1 DEF Left, ToConnect, Beats
  <2>2. Left(b, [R EXCEPT !.pc = "hashes", !.ids = index])
    BY <1>1, <1>5 DEF Left, ReadsIndex, Unread, Beats
  <2>3. QED
    BY <1>2, <1>3, <1>5, <2>1, <2>2 DEF ReadsIndex, GivesUp
<1>6. CASE ReadsRecords(b)
  <2>0. PICK F \in SUBSET R.ids : Proceeds(b, Read(b, F))
    BY <1>6, ReadsSome
  <2> DEFINE found == {c \in R.ids \ F : hash[c].st # "none"}
             stale == R.ids \ found
             r == [R EXCEPT !.pc = IF stale = {} THEN "act" ELSE "stale", !.list = {},
                            !.ids = stale, !.add = ToConnect(b, found),
                            !.drop = ToDisconnect(b, found)]
  <2>1. Left(b, r)
    <3>1. \A c \in r.drop : b \in Unread /\ Gated(b, c)
      BY <1>1, <1>6 DEF ReadsRecords, Unread, ToDisconnect, Gated, Beats
    <3>2. r.pc \in {"act", "stale"} /\ r.list = {} /\ r.away = R.away
      BY <1>1 DEF Beats
    <3>3. r.add \subseteq R.list
      BY <1>1 DEF ToConnect, Beats
    <3> HIDE DEF r
    <3>4. QED
      BY <3>1, <3>2, <3>3 DEF Left
  <2>2. Proceeds(b, r)
    BY <2>0 DEF Read
  <2> HIDE DEF r
  <2>3. QED
    BY <1>3, <2>1, <2>2
<1>7. CASE CleansIndex(b)
  <2>1. Left(b, [R EXCEPT !.pc = "act", !.ids = {}])
    BY <1>1 DEF Left, Beats
  <2>2. QED
    BY <1>2, <1>3, <1>7, <2>1 DEF CleansIndex, GivesUp
<1>8. ASSUME NEW c \in Client, Connects(b, c) PROVE Goal
  <2>1. Left(b, [R EXCEPT !.add = @ \ {c}])
    BY <1>1, <1>8 DEF Left, Connects, Beats
  <2>2. QED
    BY <1>3, <1>8, <2>1 DEF Connects
<1>9. ASSUME NEW c \in Client, Disconnects(b, c) PROVE Goal
  <2>1. Left(b, [R EXCEPT !.pc = AfterRead(c), !.ids = {c}])
    BY <1>1, <1>9 DEF Left, Disconnects, AfterRead, Beats
  <2>2. Left(b, [R EXCEPT !.drop = @ \ {c}])
    BY <1>1, <1>9 DEF Left, Disconnects, Beats
  <2>3. QED
    BY <1>3, <1>9, <2>1, <2>2 DEF Disconnects
<1>10. ASSUME NEW c \in Client, Unindexes(b, c) \/ Deletes(b, c) PROVE Goal
  <2>1. Left(b, [R EXCEPT !.pc = "act", !.ids = {}, !.drop = @ \ {c}])
    BY <1>1 DEF Left, Beats
  <2>2. CASE Unindexes(b, c)
    <3>1. Left(b, [R EXCEPT !.pc = "delete"])
      BY <1>1, <2>2 DEF Left, Unindexes, Beats
    <3>2. QED
      BY <1>3, <2>1, <2>2, <3>1 DEF Unindexes, Done
  <2>3. QED
    BY <1>3, <1>10, <2>1, <2>2 DEF Deletes, Done
<1>11. QED
  BY <1>4, <1>5, <1>6, <1>7, <1>8, <1>9, <1>10 DEF BeatStep

\* A reconciliation connects whom it has listed.
LEMMA BeatJoined ==
  ASSUME TypeOK, JoinedInv, NEW b \in Beat, BeatStep(b)
  PROVE  JoinedInv'
<1>1. joined' = joined /\ res' = res /\ seat' = seat
  BY DEF BeatStep, HeartbeatArrives, ReadsIndex, ReadsRecords, CleansIndex, Connects,
         Disconnects, Unindexes, Deletes
<1>2. \A i \in 1..Len(pipe') : pipe'[i].type = "connected" => pipe'[i].client \in joined
  BY HearsJoined
     DEF BeatStep, HeartbeatArrives, ReadsIndex, ReadsRecords, CleansIndex, Connects,
         Disconnects, Unindexes, Deletes, JoinedInv
<1>3. \A c \in Client : hash'[c].st = "connected" => c \in joined
  <2>1. beats[b].add \subseteq joined /\ beats[b].add \subseteq Client
    BY DEF JoinedInv, TypeOK, Beats
  <2>2. CASE hash' = hash
    BY <2>2 DEF JoinedInv
  <2>3. CASE \E c \in beats[b].add : ConnectClient(c)
    BY <2>1, <2>3 DEF ConnectClient, JoinedInv, TypeOK
  <2>4. CASE \E c \in beats[b].ids : beats[b].pc = "delete" /\ DeleteRecord(c)
    BY <2>4 DEF DeleteRecord, NoRecord, JoinedInv, TypeOK
  <2>5. QED
    BY <2>2, <2>3, <2>4, BeatRecords
<1>4. \A a \in Beat : beats'[a].list \subseteq joined /\ beats'[a].add \subseteq joined
  BY BeatDoes DEF Left, JoinedInv
<1>5. QED
  BY <1>1, <1>2, <1>3, <1>4 DEF JoinedInv

-----------------------------------------------------------------------------
(* A heartbeat disconnects only clients that were away when it was captured. *)

LEMMA InitAway == Init => AwayInv
BY DEF Init, AwayInv, NoRecord, NoBeat, Unread

\* The steps that leave the heartbeats alone: the records they make connected are younger
\* than every heartbeat that has not read them.
LEMMA AwayKept ==
  ASSUME AwayInv, beats' = beats,
         \A c \in Client : hash'[c].st = "connected" =>
           \/ hash[c].st = "connected" /\ hash'[c].since = hash[c].since
           \/ hash'[c].since = Unread
  PROVE  AwayInv'
BY DEF AwayInv, Unread

LEMMA ConnectAway ==
  ASSUME TypeOK, NEW c \in Client, ConnectClient(c)
  PROVE  /\ hash'[c].since = Unread
         /\ \A d \in Client \ {c} : hash'[d] = hash[d]
BY DEF ConnectClient, Connected, TypeOK

LEMMA DeleteAway ==
  ASSUME TypeOK, NEW c \in Client, DeleteRecord(c)
  PROVE  /\ hash'[c].st = "none"
         /\ \A d \in Client \ {c} : hash'[d] = hash[d]
BY DEF DeleteRecord, NoRecord, TypeOK

LEMMA SdkAway ==
  ASSUME TypeOK, AwayInv, NEW c \in Client, SdkStep(c)
  PROVE  AwayInv'
<1>1. beats' = beats
  BY DEF SdkStep, Reserve, ReserveTtl, ReserveIndex, ReserveFails, Expires, RemovesClient
<1>2. \A d \in Client : hash'[d].st = "connected" =>
        hash[d].st = "connected" /\ hash'[d].since = hash[d].since
  <2>1. CASE Reserve(c)
    BY <2>1 DEF Reserve, NoRecord, TypeOK
  <2>2. CASE ReserveTtl(c)
    BY <2>2 DEF ReserveTtl, TypeOK, Hashes
  <2>3. CASE Expires(c)
    BY <2>3 DEF Expires, NoRecord, TypeOK
  <2>4. CASE RemovesClient(c)
    BY <2>4, DeleteAway DEF RemovesClient, RemoveRecord
  <2>5. CASE hash' = hash
    BY <2>5
  <2>6. QED
    BY <2>1, <2>2, <2>3, <2>4, <2>5 DEF SdkStep, ReserveIndex, ReserveFails
<1>3. QED
  BY <1>1, <1>2, AwayKept

LEMMA ServerAway ==
  ASSUME TypeOK, AwayInv, NEW c \in Client, Message(c) \/ FastStep(c)
  PROVE  AwayInv'
<1>1. beats' = beats
  BY DEF Message, FastStep, ConnectedArrives, DisconnectedArrives, FastUnindex, FastDelete
<1>2. hash' = hash \/ ConnectClient(c) \/ DeleteRecord(c)
  BY DEF Message, FastStep, ConnectedArrives, DisconnectedArrives, FastUnindex, FastDelete
<1>3. QED
  BY <1>1, <1>2, AwayKept, ConnectAway, DeleteAway

LEMMA CapturesAway ==
  ASSUME TypeOK, JoinedInv, AwayInv, NEW b \in Beat, Captures(b)
  PROVE  AwayInv'
<1>1. \A c \in Client : hash'[c].st = hash[c].st /\ hash'[c].since = hash[c].since \ {b}
  BY DEF Captures, TypeOK, Hashes
<1>2. /\ beats'[b].pc = "sent" /\ beats'[b].list = Listed /\ beats'[b].away = joined \ Listed
      /\ beats'[b].drop = {} /\ beats'[b].ids = {}
      /\ \A a \in Beat \ {b} : beats'[a] = beats[a]
  BY DEF Captures, NoBeat, TypeOK
<1>3. \A c \in Client : hash[c].st = "connected" => c \in Listed \/ c \in joined \ Listed
  BY DEF JoinedInv
<1>4. QED
  BY <1>1, <1>2, <1>3 DEF AwayInv, Unread

LEMMA BeatAway ==
  ASSUME TypeOK, AwayInv, NEW b \in Beat, BeatStep(b)
  PROVE  AwayInv'
<1>1. Left(b, beats'[b]) /\ \A a \in Beat \ {b} : beats'[a] = beats[a]
  BY BeatDoes
<1>2. Unread' \subseteq Unread
      /\ \A a \in Unread' : beats'[a].list = beats[a].list /\ beats'[a].away = beats[a].away
  BY <1>1 DEF Left, Unread, NoBeat
<1>3. \A c \in Client : hash'[c].st = "connected" =>
        \/ hash[c].st = "connected" /\ hash'[c].since = hash[c].since
        \/ hash'[c].since = Unread
  <2>1. beats[b].add \subseteq Client /\ beats[b].ids \subseteq Client
    BY DEF TypeOK, Beats
  <2>2. QED
    BY <2>1, BeatRecords, ConnectAway, DeleteAway
<1>4. \A a \in Beat : \A c \in Client :
        a \in Unread' /\ hash'[c].st = "connected" =>
          c \in beats'[a].list \/ c \in beats'[a].away \/ a \in hash'[c].since
  BY <1>2, <1>3 DEF AwayInv
<1>5. \A a \in Beat : beats'[a].drop \subseteq beats'[a].away
  <2>1. b \in Unread => \A c \in Client : Gated(b, c) => c \in beats[b].away
    BY DEF AwayInv, Gated
  <2>2. beats'[b].drop \subseteq beats'[b].away
    <3>1. CASE beats'[b] = NoBeat
      BY <3>1 DEF NoBeat
    <3>2. CASE beats'[b] # NoBeat
      BY <1>1, <2>1, <3>2 DEF Left, Gated, AwayInv
    <3>3. QED
      BY <3>1, <3>2
  <2>3. QED
    BY <1>1, <2>2 DEF AwayInv
<1>6. \A a \in Beat : beats'[a].pc \in {"unindex", "delete"} => beats'[a].ids \subseteq beats'[a].away
  <2>1. beats'[b].pc \in {"unindex", "delete"} => beats'[b].ids \subseteq beats'[b].away
    BY <1>1 DEF Left, AwayInv, NoBeat
  <2>2. QED
    BY <1>1, <2>1 DEF AwayInv
<1>7. QED
  BY <1>4, <1>5, <1>6 DEF AwayInv

LEMMA OthersAway ==
  ASSUME AwayInv,
         \/ RemovalBegins \/ RemovesIndex \/ RemovesRoom \/ RemovalFails \/ Ends
         \/ (\E c \in Client : SeatStep(c)) \/ UNCHANGED vars
  PROVE  AwayInv'
<1>1. beats' = beats /\ hash' = hash
  BY DEF RemovalBegins, RemovesIndex, RemovesRoom, RemovalFails, Ends, SeatStep, Joins, Drops,
         Returns, Leaves, vars
<1>2. QED
  BY <1>1, AwayKept

-----------------------------------------------------------------------------
(* What unregisterRoom leaves behind.                                      *)

\* A step that writes no record, or writes it while the room is not being removed, or notes
\* that it is late.
LEMMA RemovalKept ==
  ASSUME RemovalInv, removal' = removal, todo' = todo, late \subseteq late',
         \A c \in Client : hash[c].st = "none" /\ hash'[c].st # "none" =>
           removal = "no" \/ c \in late'
  PROVE  RemovalInv'
BY DEF RemovalInv

LEMMA SdkRemoval ==
  ASSUME TypeOK, RemovalInv, NEW c \in Client, SdkStep(c)
  PROVE  RemovalInv'
<1>1. CASE Reserve(c)
  BY <1>1, RemovalKept DEF Reserve, TypeOK
<1>2. CASE ReserveTtl(c)
  <2>1. \A d \in Client : hash'[d].st = hash[d].st
    BY <1>2 DEF ReserveTtl, TypeOK, Hashes
  <2>2. QED
    BY <1>2, <2>1, RemovalKept DEF ReserveTtl
<1>3. CASE ReserveIndex(c) \/ ReserveFails(c)
  BY <1>3, RemovalKept DEF ReserveIndex, ReserveFails
<1>4. CASE Expires(c)
  BY <1>4, RemovalKept DEF Expires, NoRecord, TypeOK
<1>5. CASE RemovesClient(c)
  <2>1. hash'[c].st = "none" /\ \A d \in Client \ {c} : hash'[d] = hash[d]
    BY <1>5, DeleteAway DEF RemovesClient, RemoveRecord
  <2>2. removal' = removal /\ late' = late /\ todo' = todo \ {c} /\ removal = "clients"
    BY <1>5 DEF RemovesClient
  <2>3. QED
    BY <2>1, <2>2 DEF RemovalInv
<1>6. QED
  BY <1>1, <1>2, <1>3, <1>4, <1>5 DEF SdkStep

LEMMA RemovalRemoval ==
  ASSUME TypeOK, RemovalInv,
         RemovalBegins \/ RemovesIndex \/ RemovesRoom \/ RemovalFails \/ Ends
  PROVE  RemovalInv'
BY DEF RemovalBegins, RemovesIndex, RemovesRoom, RemovalFails, Ends, RemovalInv

LEMMA OthersRemoval ==
  ASSUME TypeOK, RemovalInv,
         \/ \E c \in Client : SeatStep(c) \/ Message(c) \/ FastStep(c)
         \/ \E b \in Beat : Captures(b) \/ BeatStep(b)
         \/ UNCHANGED vars
  PROVE  RemovalInv'
<1>1. removal' = removal /\ todo' = todo
  BY ZenonT(30) DEF SeatStep, Joins, Drops, Returns, Leaves, Message, ConnectedArrives,
         DisconnectedArrives, FastStep, FastUnindex, FastDelete, Captures, BeatStep,
         HeartbeatArrives, ReadsIndex, ReadsRecords, CleansIndex, Connects, Disconnects,
         Unindexes, Deletes, vars
<1>2. CASE \E c \in Client : SeatStep(c) \/ Message(c) \/ FastStep(c)
  <2>1. \/ hash' = hash /\ late' = late
        \/ \E c \in Client : ConnectClient(c) \/ (DeleteRecord(c) /\ late' = late)
    BY <1>2 DEF SeatStep, Joins, Drops, Returns, Leaves, Message, ConnectedArrives,
                DisconnectedArrives, FastStep, FastUnindex, FastDelete
  <2>2. QED
    BY <1>1, <2>1, RemovalKept DEF ConnectClient, DeleteRecord, NoRecord, TypeOK
<1>3. ASSUME NEW b \in Beat, Captures(b)
      PROVE  RemovalInv'
  <2>1. late' = late /\ \A c \in Client : hash'[c].st = hash[c].st
    BY <1>3 DEF Captures, TypeOK, Hashes
  <2>2. QED
    BY <1>1, <2>1, RemovalKept
<1>4. ASSUME NEW b \in Beat, BeatStep(b)
      PROVE  RemovalInv'
  <2>1. \/ hash' = hash /\ late' = late
        \/ \E c \in Client : ConnectClient(c) \/ (DeleteRecord(c) /\ late' = late)
    BY <1>4 DEF BeatStep, HeartbeatArrives, ReadsIndex, ReadsRecords, CleansIndex, Connects,
                Disconnects, Unindexes, Deletes
  <2>2. QED
    BY <1>1, <2>1, RemovalKept DEF ConnectClient, DeleteRecord, NoRecord, TypeOK
<1>5. CASE UNCHANGED vars
  BY <1>5, RemovalKept DEF vars
<1>6. QED
  BY <1>2, <1>3, <1>4, <1>5

-----------------------------------------------------------------------------
(* The theorems.                                                           *)

LEMMA NextInv == IInv /\ [Next]_vars => IInv'
<1> SUFFICES ASSUME TypeOK, JoinedInv, AwayInv, RemovalInv, [Next]_vars PROVE IInv'
  BY DEF IInv
<1>1. TypeOK'
  BY NextType
<1>2. JoinedInv'
  <2>1. CASE UNCHANGED vars
    BY <2>1 DEF JoinedInv, vars
  <2>2. QED
    BY <2>1, SdkJoined, RoomJoined, ServerJoined, CapturesJoined, BeatJoined DEF Next
<1>3. AwayInv'
  BY SdkAway, ServerAway, CapturesAway, BeatAway, OthersAway DEF Next
<1>4. RemovalInv'
  BY SdkRemoval, RemovalRemoval, OthersRemoval DEF Next
<1>5. QED
  BY <1>1, <1>2, <1>3, <1>4 DEF IInv

LEMMA Inductive == Spec => []IInv
<1>1. Init => IInv
  <2>1. Init => RemovalInv
    BY DEF Init, RemovalInv
  <2>2. QED
    BY <2>1, InitType, InitJoined, InitAway DEF IInv
<1>2. QED
  BY <1>1, NextInv, PTL DEF Spec

\* The records, the messages and the calls under way keep their types; a record that says
\* "connected" never lapses (connectClient persists it).
THEOREM RecordsTypeCorrect == Spec => []TypeOK
<1>1. IInv => TypeOK
  BY DEF IInv
<1>2. QED
  BY <1>1, Inductive, PTL

\* unregisterRoom, run to its end, leaves only records written after it had read the index
\* or not in the index then (src/src/driver/redis.ts, unregisterRoom).
THEOREM RemovalIsComplete == Spec => []OrphansAreLate
<1>1. IInv => OrphansAreLate
  BY DEF IInv, RemovalInv, OrphansAreLate
<1>2. QED
  BY <1>1, Inductive, PTL

\* A step that takes "connected" from the record of a seated client is a removal, the end
\* of an earlier stay, or the work of a heartbeat that was captured while it was away.
LEMMA StaysStep ==
  ASSUME IInv, Next, NEW c \in Client,
         hash[c].st = "connected", hash'[c].st # "connected"
  PROVE  removal # "no" \/ fast[c] # "idle" \/ \E b \in Beat : c \in beats[b].away
<1> USE DEF IInv
<1>1. ASSUME NEW d \in Client, SdkStep(d)
      PROVE  removal # "no"
  <2>1. c \in joined /\ res[c] \in {"done", "over"} /\ ~hash[c].ttl
    BY DEF JoinedInv, TypeOK
  <2>2. ~Reserve(d)
    BY <2>1 DEF Reserve, TypeOK
  <2>3. ~ReserveTtl(d)
    BY DEF ReserveTtl, TypeOK, Hashes
  <2>4. ~Expires(d)
    BY <2>1 DEF Expires, TypeOK
  <2>5. ~ReserveIndex(d) /\ ~ReserveFails(d)
    BY DEF ReserveIndex, ReserveFails
  <2>6. QED
    BY <1>1, <2>2, <2>3, <2>4, <2>5 DEF SdkStep, RemovesClient
<1>2. ASSUME NEW d \in Client, Message(d) \/ FastStep(d)
      PROVE  fast[c] # "idle"
  <2>1. hash' = hash \/ ConnectClient(d) \/ (DeleteRecord(d) /\ fast[d] = "delete")
    BY <1>2 DEF Message, FastStep, ConnectedArrives, DisconnectedArrives, FastUnindex, FastDelete
  <2>2. QED
    BY <2>1 DEF ConnectClient, Connected, DeleteRecord, TypeOK
<1>3. ASSUME NEW b \in Beat, BeatStep(b)
      PROVE  c \in beats[b].away
  <2>1. beats[b].add \subseteq Client /\ beats[b].ids \subseteq Client
    BY DEF TypeOK, Beats
  <2>2. c \in beats[b].ids /\ beats[b].pc = "delete"
    BY <1>3, <2>1, BeatRecords DEF ConnectClient, Connected, DeleteRecord, TypeOK
  <2>3. QED
    BY <2>2 DEF AwayInv
<1>4. ASSUME NEW b \in Beat, Captures(b)
      PROVE  FALSE
  BY <1>4 DEF Captures, TypeOK, Hashes
<1>5. CASE \/ RemovalBegins \/ RemovesIndex \/ RemovesRoom \/ RemovalFails \/ Ends
           \/ \E d \in Client : SeatStep(d)
  BY <1>5 DEF RemovalBegins, RemovesIndex, RemovesRoom, RemovalFails, Ends, SeatStep, Joins,
              Drops, Returns, Leaves
<1>6. QED
  BY <1>1, <1>2, <1>3, <1>4, <1>5 DEF Next

\* A client that took its seat after a heartbeat had been captured is not removed by it, in
\* any interleaving of any number of heartbeats, messages and failed commands (the gate on
\* connectedAt in reconcileClients, src/src/server/server.ts).
THEOREM YoungClientIsKept == Spec => SeatedStaysConnected
<1>1. IInv /\ [Next]_vars =>
        [\A c \in Client :
           hash[c].st = "connected" /\ hash'[c].st # "connected" /\ seat[c] = "in" =>
             \/ removal # "no"
             \/ fast[c] # "idle"
             \/ \E b \in Beat : c \in beats[b].away]_vars
  <2> SUFFICES ASSUME IInv, Next, NEW c \in Client,
                      hash[c].st = "connected", hash'[c].st # "connected"
               PROVE  \/ removal # "no"
                      \/ fast[c] # "idle"
                      \/ \E b \in Beat : c \in beats[b].away
    OBVIOUS
  <2>1. QED
    BY StaysStep
<1>2. QED
  BY <1>1, Inductive, PTL DEF Spec, SeatedStaysConnected
=============================================================================
