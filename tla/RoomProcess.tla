---------------------------- MODULE RoomProcess -----------------------------
(***************************************************************************)
(* One room, from createRoom (src/src/server/server.ts) through runner()   *)
(* (runner/runner.ts) and subprocess() (src/src/server/subprocess.ts) to   *)
(* the child process, and back through its notify channel.  The server     *)
(* wants it dead at any time: kill() may come before there is a child.     *)
(*                                                                         *)
(* A runner that composes the tcp helper instead of uds is taken to do     *)
(* otherwise what subprocess() does.                                       *)
(***************************************************************************)
EXTENDS NotifyChannel

VARIABLES
  entry,      \* the server's s.processes entry and what createRoom closes over
  told,       \* the calls of unregisterRoom and roomFailure, in order
  spawn,      \* the promise of the spawn function: "no", "pending", "done", "rejected"
  queuedKill, \* runner(): kill() came before the destructor
  killed,     \* subprocess(): the destructor has run
  reported,   \* subprocess(): report() has run
  timer,      \* the SIGKILL timer runs
  child,      \* "none", "failing", "running", "dead"
  signalled,  \* SIGTERM is on its way to the child
  room,       \* the room in the child: "booting", "serving", "stopped"
  exited      \* the 'exit' event of the child is on its way

process == <<spawn, queuedKill, killed, reported, timer, child, signalled, room, exited>>
vars    == <<channel, entry, told, process>>

\* in: it is in s.processes; open: the startup gate, "pending" until the first message
\* or a failure; wanted: not in killedRoomIds.
NoEntry == [in |-> FALSE, open |-> "pending", over |-> FALSE, status |-> "starting",
            wanted |-> TRUE]

TypeOK ==
  /\ ChannelTypeOK
  /\ entry.open \in {"pending", "open", "failed"}
  /\ entry.status \in {"starting", "ready", "stopped"}
  /\ \A i \in DOMAIN told : told[i] \in {"unregisterRoom", "roomFailure"}
  /\ spawn \in {"no", "pending", "done", "rejected"}
  /\ child \in {"none", "failing", "running", "dead"}
  /\ room \in {"booting", "serving", "stopped"}
  /\ {queuedKill, killed, reported, timer, signalled, exited} \subseteq BOOLEAN
  /\ spawn = "done" <=> child # "none"
  /\ timer => killed
  /\ entry.in => entry.open # "failed"

Init ==
  /\ ChannelInit
  /\ entry = NoEntry /\ told = <<>>
  /\ spawn = "no" /\ child = "none" /\ room = "booting"
  /\ queuedKill = FALSE /\ killed = FALSE /\ reported = FALSE /\ timer = FALSE
  /\ signalled = FALSE /\ exited = FALSE

-----------------------------------------------------------------------------
(* The server: what becomes of an entry e and the calls t made so far.     *)

Server == [e |-> entry, t |-> told]

Becomes(s) == entry' = s.e /\ told' = s.t

\* cleanupRoom
CleanupRoom(s, reason) ==
  IF ~s.e.in THEN s
  ELSE [e |-> [s.e EXCEPT !.in = FALSE, !.wanted = @ \/ reason = "process-exited"],
        t |-> CASE reason = "self-stopped" -> Append(s.t, "unregisterRoom")
                [] reason = "process-exited" /\ ~s.e.wanted -> s.t
                [] OTHER -> Append(s.t, "roomFailure")]

\* The catch of createRoom, and of spawnAssignedRoom after it.
StartupFailed_Kept(s) ==
  [e |-> [s.e EXCEPT !.open = "failed"], t |-> Append(s.t, "roomFailure")]
StartupFailed(s) ==
  [e |-> [s.e EXCEPT !.in = FALSE, !.open = "failed"], t |-> Append(s.t, "roomFailure")]

\* ctx.onMessage
OnMessage(s, m) ==
  LET e == [s.e EXCEPT !.open = "open",
              !.status = CASE m = "ready" /\ @ = "starting" -> "ready"
                           [] m = "stopped" -> "stopped"
                           [] OTHER -> @] IN
  IF s.e.over \/ ~s.e.in THEN s
  ELSE IF m = "stopped" THEN CleanupRoom([s EXCEPT !.e = e], "self-stopped")
  ELSE [s EXCEPT !.e = e]

\* The messages ms, one after the other.
AfterAll(s, ms) ==
  LET upto[i \in 0..Len(ms)] == IF i = 0 THEN s ELSE OnMessage(upto[i - 1], ms[i])
  IN upto[Len(ms)]

\* ctx.stopped
Stopped_Again(s) ==
  IF s.e.open # "open" THEN StartupFailed(s)
  ELSE CleanupRoom([s EXCEPT !.e.over = TRUE, !.e.status = "stopped"], "process-exited")
Stopped(s) ==
  LET o == [s EXCEPT !.e.over = TRUE, !.e.status = "stopped"] IN
  CASE s.e.over -> s
    [] ~s.e.over /\ s.e.open = "open" -> CleanupRoom(o, "process-exited")
    [] ~s.e.over /\ s.e.open = "pending" -> StartupFailed(o)
    [] ~s.e.over /\ s.e.open = "failed" -> o

\* createRoom up to its await, with the spawn function up to its own.
CreateRoom ==
  /\ spawn = "no"
  /\ entry' = [entry EXCEPT !.in = TRUE]
  /\ spawn' = "pending"
  /\ UNCHANGED <<channel, told, queuedKill, killed, reported, timer, child, signalled,
                 room, exited>>

-----------------------------------------------------------------------------
(* kill() of the runner, and what it sets off.                             *)

\* The destructor of subprocess(), once: SIGTERM, and a timer for SIGKILL.
Destructor ==
  /\ killed' = TRUE
  /\ IF killed THEN UNCHANGED <<timer, signalled>>
     ELSE timer' = TRUE /\ signalled' = (child = "running")

\* kill(): a spawn that is under way is killed when it completes.
Kill ==
  /\ queuedKill' = (queuedKill \/ spawn # "done")
  /\ IF spawn = "done" THEN Destructor ELSE UNCHANGED <<killed, timer, signalled>>
  /\ UNCHANGED <<spawn, reported, child, room, exited>>

\* destroyWorker: the reconciliation, an unwanted room, stop().
DestroyWorker ==
  /\ entry.in
  /\ entry' = [entry EXCEPT !.wanted = FALSE]
  /\ Kill
  /\ UNCHANGED <<channel, told>>

\* checkHeartbeats: a room that has spoken has been silent for too long.
Stalls ==
  /\ entry.in /\ entry.open = "open"
  /\ Becomes(CleanupRoom([Server EXCEPT !.e.wanted = FALSE], "heartbeat-timeout"))
  /\ Kill
  /\ UNCHANGED channel

\* roomStartupTimeoutMs without a message.
StartupTimesOut ==
  /\ entry.in /\ entry.open = "pending"
  /\ Becomes(StartupFailed(Server))
  /\ Kill
  /\ UNCHANGED channel

-----------------------------------------------------------------------------
(* subprocess(): the spawn, its exit path, its signals.                    *)

\* notify.uds is listening, and the child is spawned or will turn out not to be; a kill
\* that came before is carried out now.
Spawned_Forgets ==
  /\ killed' = FALSE /\ timer' = FALSE /\ signalled' = FALSE
Spawned ==
  /\ killed' = queuedKill /\ timer' = queuedKill
  /\ signalled' = (queuedKill /\ child' = "running")

SpawnCompletes ==
  /\ spawn = "pending"
  /\ Listens
  /\ spawn' = "done"
  /\ child' \in {"running", "failing"}
  /\ Spawned
  /\ UNCHANGED <<gated, active, sock, attempts, sent, heard, entry, told, queuedKill,
                 reported, room, exited>>

\* The listener cannot be bound, or options.env or spawn() throws once it is: the catch of
\* runner() reports an error message and an exit, and nobody closes the channel.
SpawnRejects ==
  /\ spawn = "pending"
  /\ spawn' = "rejected"
  /\ listening' \in {"no", "yes"}
  /\ Becomes(Stopped(OnMessage(Server, "error")))
  /\ UNCHANGED <<gated, active, sock, attempts, sent, heard, queuedKill, killed, reported,
                 timer, child, signalled, room, exited>>

\* report(), once.
Report(s) ==
  IF reported THEN Becomes(s) /\ UNCHANGED <<channel, reported>>
  ELSE /\ Close
       /\ reported' = TRUE
       /\ Becomes(Stopped(s))

\* The 'exit' event: it does not wait for what the room wrote.
ExitEvent ==
  /\ exited
  /\ exited' = FALSE
  /\ Report(Server)
  /\ UNCHANGED <<spawn, queuedKill, killed, timer, child, signalled, room>>

\* The 'error' event of a child that could not be spawned; an 'exit' may follow.
ErrorEvent ==
  /\ child = "failing"
  /\ child' = "dead"
  /\ exited' \in BOOLEAN
  /\ Report(OnMessage(Server, "error"))
  /\ UNCHANGED <<spawn, queuedKill, killed, timer, signalled, room>>

\* The child is no more, and with it the room's end of the channel.
Dies ==
  /\ child' = "dead"
  /\ exited' = TRUE
  /\ signalled' = FALSE
  /\ Hangup(Linked)
  /\ UNCHANGED <<gated, listening, active, attempts, sent, heard, entry, told, spawn,
                 queuedKill, killed, reported, room>>

\* It crashes, or its program ends.
Exits ==
  /\ child = "running"
  /\ Dies
  /\ UNCHANGED timer

\* The timer: SIGKILL.
KillTimeout ==
  /\ timer
  /\ timer' = FALSE
  /\ IF child = "running" THEN Dies ELSE UNCHANGED <<channel, entry, told, spawn, queuedKill,
                                     killed, reported, child, signalled, room, exited>>

-----------------------------------------------------------------------------
(* The room.                                                               *)

Runs == child = "running"

\* SIGTERM: the end of a room that has not installed its handler; stopRoom of one that
\* has, after which the program may or may not end.
SigTerm ==
  /\ signalled /\ Runs
  /\ IF room = "booting" THEN Dies /\ UNCHANGED timer
     ELSE /\ signalled' = FALSE
          /\ room' = "stopped"
          /\ Hangup(Linked)
          /\ UNCHANGED <<gated, listening, active, attempts, sent, heard, entry, told, spawn,
                         queuedKill, killed, reported, timer, child, exited>>

\* start(): dial, then ready.  Without onClose the room never learns of a drop; a notifier
\* of its own may dial again.
Dialling(d) ==
  /\ Runs /\ room # "stopped"
  /\ Connects(d)
  /\ UNCHANGED <<entry, told, process>>

DialRefused ==
  /\ Runs /\ room = "booting"
  /\ Refused
  /\ UNCHANGED <<entry, told, process>>

Starts(d) ==
  /\ Runs /\ room = "booting" /\ Latest(d)
  /\ room' = "serving"
  /\ Writes(d, "ready")
  /\ UNCHANGED <<gated, listening, active, attempts, heard, entry, told, spawn, queuedKill,
                 killed, reported, timer, child, signalled, exited>>

Beats(d) ==
  /\ Runs /\ room = "serving" /\ d \in Linked
  /\ Len(sent[d]) <= MaxBeats
  /\ Writes(d, "beat")
  /\ UNCHANGED <<gated, listening, active, attempts, heard, entry, told, process>>

\* stop(): "stopped", and the notifier is closed.
Stops(d) ==
  /\ Runs /\ room = "serving" /\ d \in Linked
  /\ room' = "stopped"
  /\ sent' = [sent EXCEPT ![d] = Append(@, "stopped")]
  /\ \E w \in {sock[d].wire \o Frame("stopped"), sock[d].wire} :
       sock' = [sock EXCEPT ![d].room = "shut", ![d].wire = w]
  /\ UNCHANGED <<gated, listening, active, attempts, heard, entry, told, spawn, queuedKill,
                 killed, reported, timer, child, signalled, exited>>

-----------------------------------------------------------------------------
(* The channel, with what its messages do.                                 *)

Accepted(d) == Accepts(d) /\ UNCHANGED <<entry, told, process>>

Data(d, n) ==
  /\ Chunk(d, n)
  /\ Becomes(AfterAll(Server, Messages(d, n)))
  /\ UNCHANGED process

HungUp(d) == Hangs(d) /\ UNCHANGED <<entry, told, process>>

Dropped(d) == Drops(d) /\ UNCHANGED <<entry, told, process>>

ServerSteps == DestroyWorker \/ Stalls \/ StartupTimesOut

RoomSteps == \E d \in Dials : Dialling(d) \/ Starts(d) \/ Beats(d) \/ Stops(d)

SpawnSettles == SpawnCompletes \/ SpawnRejects
ProcessSteps == ExitEvent \/ ErrorEvent \/ KillTimeout \/ SigTerm

ChannelSteps ==
  \E d \in Dials : \/ Accepted(d) \/ HungUp(d)
                   \/ \E n \in 1..Len(sock[d].wire) : Data(d, n)

Next ==
  \/ CreateRoom \/ ServerSteps \/ SpawnSettles \/ ProcessSteps \/ Exits
  \/ RoomSteps \/ DialRefused \/ ChannelSteps
  \/ \E d \in Dials : Dropped(d)

Spec == Init /\ [][Next]_vars

\* The spawn settles, timers fire, events and signals are delivered.  Nothing obliges the
\* room to end, nor the server to want it dead.
FairSpec ==
  /\ Spec
  /\ WF_vars(SpawnSettles) /\ WF_vars(ProcessSteps) /\ WF_vars(StartupTimesOut)

-----------------------------------------------------------------------------
(* Properties.                                                             *)

\* The server is done with the room, and the driver is told of an end that the server did
\* not bring about exactly once, of any other at most once.
EachEndIsToldOnce ==
  /\ Len(told) <= 1
  /\ (~entry.in /\ spawn # "no" /\ told = <<>>) => (killed \/ queuedKill)

\* A room the server wants dead, or has given up, is dead in the end: also if it was being
\* spawned at the time, and also if it ignores SIGTERM.  And a room process that ends is
\* let go of: its entry, and the listener of its channel.
RoomEndsForGood ==
  /\ ((entry.in /\ ~entry.wanted) \/ entry.open = "failed" \/ queuedKill)
       ~> (spawn = "rejected" \/ child = "dead")
  /\ (child = "dead") ~> (~entry.in /\ listening = "closed" /\ active = 0)

=============================================================================
