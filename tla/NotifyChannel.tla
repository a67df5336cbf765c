---------------------------- MODULE NotifyChannel ---------------------------
(***************************************************************************)
(* The notify channel of one room: the listener in the server process      *)
(* (src/src/server/runner/notify.ts), the room that dials it and may dial  *)
(* again after a drop (src/src/room/ipc.ts), and the frames between them   *)
(* (src/src/common/notify-protocol.ts).  A connection is a stream: what is *)
(* written arrives in order, in chunks of any size, and what has not       *)
(* arrived may be lost when it ends.                                       *)
(*                                                                         *)
(* What a message does to the server is the subject of RoomProcess.        *)
(***************************************************************************)
EXTENDS Integers, SequencesExt

CONSTANTS
  MaxDials,     \* bound: connections that are made
  MaxAttempts,  \* maxRetries of dial()
  MaxBeats      \* bound: heartbeats the room sends on a connection

ASSUME ChannelAssumption == {MaxDials, MaxAttempts, MaxBeats} \subseteq Nat \ {0}

VARIABLES
  gated,      \* the channel is tcp, with a token first, and not uds
  listening,  \* "no" until listen() has called back, "yes", "closed"
  active,     \* the connection that holds the slot, 0 for none
  sock,       \* connections, in the order in which they were made
  attempts,   \* failed attempts of the dial() under way
  \* history
  sent,       \* messages written on each connection
  heard       \* <<connection, message>> passed to ctx.onMessage

channel == <<gated, listening, active, sock, attempts, sent, heard>>

Dials == 1..MaxDials

\* The messages a room may send: those about its clients and its errors do to the channel
\* what a beat does.  On the wire they are bytes, as the lengths before them are.
Alphabet == <<"token", "ready", "beat", "stopped">>
Code == [token |-> 1, ready |-> 2, beat |-> 3, stopped |-> 4]
Size == [token |-> 1, ready |-> 1, beat |-> 2, stopped |-> 1]

\* A frame: a header of two bytes that say the length, and the payload.
Header == 2
Frame(m) == <<Size[m], Size[m]>> \o [i \in 1..Size[m] |-> Code[m]]

\* Where the frame that starts at i ends; whole if the buffer b reaches that far.
EndOf(b, i) == i + Header - 1 + b[i]
Whole(b, i) == i + Header - 1 <= Len(b) /\ EndOf(b, i) <= Len(b)

\* The while loop of createFrameParser: messages of the whole frames of b from i on,
\* and what is left of b after them.
Frames(b) ==
  LET from[i \in 1..(Len(b) + 1)] ==
        IF Whole(b, i) THEN <<Alphabet[b[EndOf(b, i)]]>> \o from[EndOf(b, i) + 1] ELSE <<>>
  IN from[1]

Rest(b) ==
  LET from[i \in 1..(Len(b) + 1)] ==
        IF Whole(b, i) THEN from[EndOf(b, i) + 1] ELSE SubSeq(b, i, Len(b))
  IN from[1]

\* What the parser's buffer is when a chunk comes.
Merged(buffer, data) == buffer \o data

Unmade == [room |-> "none", host |-> "none", wire |-> <<>>, buffer |-> <<>>, authed |-> FALSE]

ChannelInit ==
  /\ gated \in BOOLEAN
  /\ listening = "no"
  /\ active = 0
  /\ sock = [d \in Dials |-> Unmade]
  /\ attempts = 0
  /\ sent = [d \in Dials |-> <<>>]
  /\ heard = <<>>

-----------------------------------------------------------------------------
(* The room's end.                                                         *)

Made == {d \in Dials : sock[d].room # "none"}
Linked == {d \in Dials : sock[d].room = "open"}

\* The connection of the room's notifier.
Latest(d) == Made = 1..d

\* dial: connected, with the token as first frame on a gated channel; or not, as nobody
\* listens or, over tcp, the network fails.  A dial that has failed too often has rejected.
Connects(d) ==
  /\ Latest(d - 1) /\ Linked = {}
  /\ listening = "yes" /\ attempts < MaxAttempts
  /\ sock' = [sock EXCEPT ![d] = [Unmade EXCEPT !.room = "open", !.host = "queued",
                                    !.wire = IF gated THEN Frame("token") ELSE <<>>]]
  /\ attempts' = 0
  /\ UNCHANGED <<gated, listening, active, sent, heard>>

Refused ==
  /\ Linked = {} /\ (gated \/ listening # "yes")
  /\ attempts < MaxAttempts
  /\ attempts' = attempts + 1
  /\ UNCHANGED <<gated, listening, active, sock, sent, heard>>

\* send(): on a connection that is no more it comes to nothing.
Writes(d, m) ==
  IF d \in Linked
  THEN /\ sock' = [sock EXCEPT ![d].wire = @ \o Frame(m)]
       /\ sent' = [sent EXCEPT ![d] = Append(@, m)]
  ELSE UNCHANGED <<sock, sent>>

\* The room's end of its connections is no more; the listener will notice.  Some of what
\* was under way may be lost.
Hangup(S) ==
  \E cut \in {"none", "half", "all"} :
    sock' = [d \in Dials |->
      IF d \notin S THEN sock[d]
      ELSE [sock[d] EXCEPT !.room = "shut",
              !.wire = CASE cut = "none" -> @
                         [] cut = "half" -> SubSeq(@, 1, Len(@) \div 2)
                         [] cut = "all"  -> <<>>]]

\* A drop on the way, or the listener's end was destroyed.
Drops(d) ==
  /\ sock[d].room = "open"
  /\ Hangup({d})
  /\ UNCHANGED <<gated, listening, active, attempts, sent, heard>>

-----------------------------------------------------------------------------
(* channelListener.                                                        *)

Closed == listening = "closed"

\* The 'listening' event: the helper resolves.
Listens == listening' = "yes"

\* adopt: the slot is free.
MayAdopt_Late(d) == active = 0
MayAdopt(d) == active = 0 /\ ~Closed

\* The 'connection' event: uds takes the slot or destroys the socket, tcp waits for the
\* token.
Accepts(d) ==
  /\ sock[d].host = "queued" /\ \A e \in 1..(d - 1) : sock[e].host # "queued"
  /\ IF Closed \/ (~gated /\ ~MayAdopt(d))
     THEN /\ sock' = [sock EXCEPT ![d].host = "shut", ![d].wire = <<>>]
          /\ UNCHANGED active
     ELSE /\ sock' = [sock EXCEPT ![d].host = "open", ![d].authed = ~gated]
          /\ active' = IF gated THEN active ELSE d
  /\ UNCHANGED <<gated, listening, attempts, sent, heard>>

\* What the parser makes of the next n bytes.  Without the token the first frame is it,
\* and the slot must be free.
Parsed(d, n) == Merged(sock[d].buffer, SubSeq(sock[d].wire, 1, n))

Admitted(d, F) == sock[d].authed \/ F = <<>> \/ (F[1] = "token" /\ MayAdopt(d))

\* The messages that are passed to ctx.onMessage.
Messages(d, n) ==
  LET F == Frames(Parsed(d, n)) IN
  CASE ~Admitted(d, F) \/ F = <<>> -> <<>>
    [] Admitted(d, F) /\ sock[d].authed -> F
    [] OTHER -> Tail(F)

\* The 'data' event, with a chunk of n bytes.
Chunk(d, n) ==
  LET F == Frames(Parsed(d, n)) IN
  /\ sock[d].host = "open"
  /\ n \in 1..Len(sock[d].wire)
  /\ IF ~Admitted(d, F)
     THEN /\ sock' = [sock EXCEPT ![d].host = "shut", ![d].wire = <<>>, ![d].buffer = <<>>]
          /\ UNCHANGED active
     ELSE /\ sock' = [sock EXCEPT ![d].buffer = Rest(Parsed(d, n)),
                                  ![d].authed = @ \/ F # <<>>,
                                  ![d].wire = SubSeq(@, n + 1, Len(@))]
          /\ active' = IF sock[d].authed \/ F = <<>> THEN active ELSE d
  /\ heard' = heard \o [i \in DOMAIN Messages(d, n) |-> <<d, Messages(d, n)[i]>>]
  /\ UNCHANGED <<gated, listening, attempts, sent>>

\* The 'close' event, once the room's end is shut and what arrived has been read: the
\* slot is free again.
Hangs(d) ==
  /\ sock[d].room = "shut" /\ sock[d].host = "open" /\ sock[d].wire = <<>>
  /\ sock' = [sock EXCEPT ![d].host = "shut", ![d].buffer = <<>>]
  /\ active' = IF active = d THEN 0 ELSE active
  /\ UNCHANGED <<gated, listening, attempts, sent, heard>>

\* close(): the active connection is destroyed, what is in the queue is refused.
Close ==
  /\ listening' = "closed"
  /\ sock' = [d \in Dials |-> IF d = active
                              THEN [sock[d] EXCEPT !.host = "shut", !.wire = <<>>]
                              ELSE sock[d]]
  /\ active' = 0
  /\ UNCHANGED <<gated, attempts, sent, heard>>

-----------------------------------------------------------------------------

ChannelTypeOK ==
  /\ gated \in BOOLEAN
  /\ listening \in {"no", "yes", "closed"}
  /\ active \in 0..MaxDials
  /\ \A d \in Dials :
       /\ sock[d].room \in {"none", "open", "shut"}
       /\ sock[d].host \in {"none", "queued", "open", "shut"}
       /\ sock[d].authed \in BOOLEAN
       /\ d = active => sock[d].authed /\ sock[d].host = "open"
  /\ attempts \in 0..MaxAttempts

\* What was heard on connection d, in a history h.
HeardOn(d, h) ==
  LET upto[i \in 0..Len(h)] ==
        IF i = 0 THEN <<>>
        ELSE IF h[i][1] = d THEN Append(upto[i - 1], h[i][2]) ELSE upto[i - 1]
  IN upto[Len(h)]

\* However a stream is cut into chunks and connections follow one another, the server
\* hears what the room sent, in order and nothing twice, and never two connections mixed;
\* and a closed channel passes on nothing more, whichever connections it still has.
HeardInOrder ==
  /\ \A d \in Dials : IsPrefix(HeardOn(d, heard), sent[d])
  /\ \A i, k \in DOMAIN heard :
       heard[i][1] = heard[k][1] => \A j \in i..k : heard[j][1] = heard[i][1]

ServerHearsTheRoom == []HeardInOrder /\ [][Closed => heard' = heard]_channel

=============================================================================
