---------------------------- MODULE RoomCreation ----------------------------
(***************************************************************************)
(* One call of the sdk's createRoom (src/src/sdk/index.ts): registering    *)
(* the room, and the wait for it (src/src/driver/wait-for-room.ts) with    *)
(* its signals over Redis (src/src/driver/redis.ts).  The servers and the  *)
(* other users of the driver are the environment.                          *)
(***************************************************************************)
EXTENDS Naturals, FiniteSets

CONSTANTS
  MaxReads,  \* bound: reads of the record in flight
  MaxFaults  \* bound: reads and subscriptions that fail, messages that get lost

ASSUME CreationAssumption == MaxReads \in Nat \ {0} /\ MaxFaults \in Nat

VARIABLES
  \* the driver
  rec,          \* the room's record
  sub,          \* the two channels: SUBSCRIBE sent, in force, failed, or released
  inbox,        \* signals on their way to this process
  failing,      \* the failure signal is out, its record not yet deleted
  \* wait-for-room.ts
  outcome,      \* "pending" until settled
  isRegistered,
  hooked,       \* unsubscribe # null
  reads,        \* reads in flight
  \* createRoom
  reg,          \* the call of registerRoom
  phase,        \* where createRoom is
  \* history
  faults,
  gone,         \* the record was removed after it had been made
  unhandled,    \* the wait was rejected while nothing handled that
  unknown,      \* registerRoom took effect and failed
  botched       \* the final unregisterRoom failed

driver  == <<rec, sub, inbox, failing>>
wait    == <<outcome, isRegistered, hooked, reads>>
create  == <<reg, phase>>
history == <<faults, gone, unhandled, unknown, botched>>
vars    == <<driver, wait, create, history>>

Channels == {"ready", "failed"}
Errors   == {"start-error", "removed", "failed", "timeout", "not-registered"}
Records  == {"none", "requested", "running"}

\* A read remembers why and when it was issued; "asked" until Redis has executed it.
Idle  == [val |-> "idle", ready |-> FALSE, late |-> FALSE]
Reads == [val : Records \cup {"asked"}, ready : BOOLEAN, late : BOOLEAN] \cup {Idle}

\* Both channels or neither: only a complete subscription is handed to the wait.
TypeOK ==
  /\ rec \in Records
  /\ sub \in [Channels -> {"asked", "on", "failed", "off"}]
  /\ inbox \in SUBSET Channels
  /\ failing \in BOOLEAN
  /\ outcome \in {"pending", "running"} \cup Errors
  /\ isRegistered \in BOOLEAN
  /\ hooked \in BOOLEAN
  /\ reads \in [1..MaxReads -> Reads]
  /\ reg \in {"sent", "landed", "ok", "failed"}
  /\ phase \in {"registering", "waiting", "cleaning", "resolved", "rejected"}
  /\ faults \in 0..MaxFaults
  /\ gone \in BOOLEAN /\ unhandled \in BOOLEAN /\ unknown \in BOOLEAN /\ botched \in BOOLEAN
  /\ hooked => \A c \in Channels : sub[c] = "on"

\* createRoom up to `await registerRoom`: the wait has begun, with one read, both
\* SUBSCRIBEs and the registration on their way.
Init ==
  /\ rec = "none"
  /\ sub = [c \in Channels |-> "asked"]
  /\ inbox = {}
  /\ failing = FALSE
  /\ outcome = "pending"
  /\ isRegistered = FALSE
  /\ hooked = FALSE
  /\ reads = [i \in 1..MaxReads |-> IF i = 1 THEN [Idle EXCEPT !.val = "asked"] ELSE Idle]
  /\ reg = "sent"
  /\ phase = "registering"
  /\ faults = 0
  /\ gone = FALSE /\ unhandled = FALSE /\ unknown = FALSE /\ botched = FALSE

Fault == faults < MaxFaults /\ faults' = faults + 1

-----------------------------------------------------------------------------
(* The wait.                                                               *)

\* check(afterReadySignal): one more read.  Reads of a settled wait are ignored when they
\* return, so they are not modelled.
Check(afterReadySignal) ==
  IF outcome # "pending" THEN UNCHANGED reads
  ELSE \E i \in 1..MaxReads :
         /\ reads[i] = Idle
         /\ \A j \in 1..(i - 1) : reads[j] # Idle
         /\ reads' = [reads EXCEPT ![i] =
                        [val |-> "asked", ready |-> afterReadySignal, late |-> isRegistered']]

\* What createRoom does once the wait has settled with o and the registration is known.
Onward_NoCleanUp(o) == IF o = "running" THEN "resolved" ELSE "rejected"
Onward(o) == IF o = "running" THEN "resolved" ELSE "cleaning"

\* The subscriptions that are in force are released; their signals find no listener.
Release == [c \in Channels |-> IF sub[c] = "on" THEN "off" ELSE sub[c]]

\* finish(outcome), and what its promise sets off; `left` are the signals not yet handled.
\* While createRoom awaits registerRoom nobody has attached a handler to the wait's promise.
Finish(o, left) ==
  IF outcome # "pending"
  THEN UNCHANGED <<outcome, reads, hooked, sub, phase, unhandled>> /\ inbox' = left
  ELSE /\ outcome' = o
       /\ reads' = [i \in 1..MaxReads |-> Idle]
       /\ hooked' = FALSE
       /\ sub' = IF hooked THEN Release ELSE sub
       /\ inbox' = IF hooked THEN {} ELSE left
       /\ phase' = IF phase = "waiting" THEN Onward(o) ELSE phase
       /\ unhandled' = (unhandled \/ (phase = "registering" /\ o # "running"))

\* What a read decides, "pending" for nothing: running; a record missing after a ready
\* signal; a record missing although the read was issued after the registration.
Verdict_Now(r) ==
  CASE r.val = "running"                -> "running"
    [] r.val = "none" /\ r.ready        -> "start-error"
    [] r.val = "none" /\ ~r.ready /\ isRegistered -> "removed"
    [] OTHER                            -> "pending"
Verdict(r) ==
  CASE r.val = "running"                   -> "running"
    [] r.val = "none" /\ r.ready           -> "start-error"
    [] r.val = "none" /\ ~r.ready /\ r.late -> "removed"
    [] OTHER                               -> "pending"

\* Redis executes a read.
ReadLands(i) ==
  /\ reads[i].val = "asked"
  /\ reads' = [reads EXCEPT ![i].val = rec]
  /\ UNCHANGED <<driver, outcome, isRegistered, hooked, create, history>>

\* A read returns.
ReadReturns(i) ==
  /\ reads[i].val \in Records
  /\ IF Verdict(reads[i]) = "pending"
     THEN /\ reads' = [reads EXCEPT ![i] = Idle]
          /\ UNCHANGED <<outcome, hooked, sub, inbox, phase, unhandled>>
     ELSE Finish(Verdict(reads[i]), inbox)
  /\ UNCHANGED <<rec, failing, isRegistered, reg, faults, gone, unknown, botched>>

\* A read fails: the next poll or the timeout decides.
ReadFails(i) ==
  /\ reads[i] # Idle
  /\ Fault
  /\ reads' = [reads EXCEPT ![i] = Idle]
  /\ UNCHANGED <<driver, outcome, isRegistered, hooked, create, gone, unhandled, unknown,
                 botched>>

\* The poll timer.
Poll ==
  /\ outcome = "pending"
  /\ UNCHANGED isRegistered
  /\ Check(FALSE)
  /\ UNCHANGED <<driver, outcome, hooked, create, history>>

\* The timeout.
TimesOut ==
  /\ outcome = "pending"
  /\ Finish("timeout", inbox)
  /\ UNCHANGED <<rec, failing, isRegistered, reg, faults, gone, unknown, botched>>

\* A ready signal arrives: it is only a hint to look.
ReadyArrives ==
  /\ "ready" \in inbox
  /\ inbox' = inbox \ {"ready"}
  /\ UNCHANGED isRegistered
  /\ Check(TRUE)
  /\ UNCHANGED <<rec, sub, failing, outcome, hooked, create, history>>

\* A failure signal arrives.
FailedArrives ==
  /\ "failed" \in inbox
  /\ Finish("failed", inbox \ {"failed"})
  /\ UNCHANGED <<rec, failing, isRegistered, reg, faults, gone, unknown, botched>>

\* A signal is lost with the subscriber's connection.
SignalLost(c) ==
  /\ c \in inbox
  /\ Fault
  /\ inbox' = inbox \ {c}
  /\ UNCHANGED <<rec, sub, failing, wait, create, gone, unhandled, unknown, botched>>

-----------------------------------------------------------------------------
(* The subscription: both channels or neither.                             *)

\* Once both SUBSCRIBEs have settled (`now`): a complete subscription is handed to the
\* wait, which looks again for what it has missed, or gives it back if it has settled; a
\* half of one is released.
Complete_EvenLate(now) == \A c \in Channels : now[c] = "on"
Complete_Half(now) == \E c \in Channels : now[c] = "on"
Complete(now) == outcome = "pending" /\ \A c \in Channels : now[c] = "on"

Conclude(now) ==
  IF Complete(now)
  THEN /\ sub' = now
       /\ hooked' = TRUE
       /\ Check(FALSE)
       /\ UNCHANGED inbox
  ELSE /\ sub' = [c \in Channels |-> IF now[c] = "on" THEN "off" ELSE now[c]]
       /\ inbox' = {}
       /\ UNCHANGED <<hooked, reads>>

\* A SUBSCRIBE succeeds, or fails (and its listener is removed).
SubscribeSettles(c) ==
  /\ sub[c] = "asked"
  /\ UNCHANGED isRegistered
  /\ \E result \in {"on", "failed"} :
       LET now == [sub EXCEPT ![c] = result] IN
       /\ IF result = "failed" THEN Fault ELSE UNCHANGED faults
       /\ IF \E d \in Channels : now[d] = "asked"
          THEN sub' = now /\ UNCHANGED <<inbox, hooked, reads>>
          ELSE Conclude(now)
  /\ UNCHANGED <<rec, failing, outcome, create, gone, unhandled, unknown, botched>>

-----------------------------------------------------------------------------
(* createRoom.                                                             *)

\* registerRoom takes effect: the record exists, its ttl outlives the wait.
RegisterLands ==
  /\ reg = "sent"
  /\ reg' = "landed"
  /\ rec' = "requested"
  /\ UNCHANGED <<sub, inbox, failing, wait, phase, history>>

\* registerRoom resolves, so `registered` does, and createRoom goes on to the wait.
RegisterReturns ==
  /\ reg = "landed"
  /\ reg' = "ok"
  /\ isRegistered' = TRUE
  /\ Check(FALSE)
  /\ phase' = IF outcome = "pending" THEN "waiting" ELSE Onward(outcome)
  /\ UNCHANGED <<driver, outcome, hooked, history>>

\* registerRoom rejects: no such server, or the connection failed, before or after it took
\* effect.  The wait is settled with that error, then createRoom throws it.
SettleRegistration_Forgets == UNCHANGED <<outcome, reads, hooked, sub, inbox, unhandled>>
                              /\ phase' = IF outcome = "pending" THEN phase ELSE "rejected"
SettleRegistration ==
  /\ phase' = "rejected"
  /\ UNCHANGED unhandled
  /\ IF outcome = "pending"
     THEN /\ outcome' = "not-registered"
          /\ reads' = [i \in 1..MaxReads |-> Idle]
          /\ hooked' = FALSE
          /\ sub' = IF hooked THEN Release ELSE sub
          /\ inbox' = IF hooked THEN {} ELSE inbox
     ELSE UNCHANGED <<outcome, reads, hooked, sub, inbox>>

RegisterFails ==
  /\ reg \in {"sent", "landed"}
  /\ reg' = "failed"
  /\ unknown' = (reg = "landed")
  /\ SettleRegistration
  /\ UNCHANGED <<rec, failing, isRegistered, faults, gone, botched>>

\* After a failed wait the record is removed; a failure to do so is ignored.
CleanUp ==
  /\ phase = "cleaning"
  /\ phase' = "rejected"
  /\ \/ rec' = "none" /\ UNCHANGED botched
     \/ botched' = TRUE /\ UNCHANGED rec
  /\ UNCHANGED <<sub, inbox, failing, wait, reg, faults, gone, unhandled, unknown>>

-----------------------------------------------------------------------------
(* The environment: the server that runs the room, other users of the driver. *)

Publish(c) == inbox' = IF sub[c] = "on" THEN inbox \cup {c} ELSE inbox

\* roomReady: one script; it does nothing without a record.
RoomReady ==
  /\ rec = "requested"
  /\ rec' = "running"
  /\ Publish("ready")
  /\ UNCHANGED <<sub, failing, wait, create, history>>

\* roomFailure, by the server that was assigned the room: published first, then deleted.
RoomFailurePublishes ==
  /\ rec # "none" /\ ~failing
  /\ failing' = TRUE
  /\ Publish("failed")
  /\ UNCHANGED <<rec, sub, wait, create, history>>

RoomFailureDeletes ==
  /\ failing
  /\ failing' = FALSE
  /\ rec' = "none"
  /\ gone' = TRUE
  /\ UNCHANGED <<sub, inbox, wait, create, faults, unhandled, unknown, botched>>

\* destroyRoom, a reap, an eviction; a requested record lapses after the wait's timeout.
RecordRemoved ==
  /\ rec # "none"
  /\ rec' = "none"
  /\ gone' = TRUE
  /\ UNCHANGED <<sub, inbox, failing, wait, create, faults, unhandled, unknown, botched>>

-----------------------------------------------------------------------------

ReadStep(i) == ReadLands(i) \/ ReadReturns(i) \/ ReadFails(i)
Registers == RegisterLands \/ RegisterReturns \/ RegisterFails

Next ==
  \/ \E i \in 1..MaxReads : ReadStep(i)
  \/ Poll \/ TimesOut
  \/ ReadyArrives \/ FailedArrives
  \/ \E c \in Channels : SignalLost(c) \/ SubscribeSettles(c)
  \/ Registers \/ CleanUp
  \/ RoomReady \/ RoomFailurePublishes \/ RoomFailureDeletes \/ RecordRemoved

Spec == Init /\ [][Next]_vars

\* The driver answers (a call returns or fails) and the poll timer goes on.  Nothing is
\* assumed of signals, of the timeout or of the room.
FairSpec ==
  /\ Spec
  /\ \A i \in 1..MaxReads : WF_vars(ReadStep(i))
  /\ WF_vars(Poll)
  /\ \A c \in Channels : WF_vars(SubscribeSettles(c))
  /\ WF_vars(Registers)
  /\ WF_vars(CleanUp)

-----------------------------------------------------------------------------
(* Properties.                                                             *)

\* The wait reports a room as removed, or as ready but not to be found, only if its record
\* was removed after it had been made: a read that misses the record because it was issued
\* before the registration never fails the wait, whenever it returns.
FailsOnlyIfGone == outcome \in {"removed", "start-error"} => gone

\* A createRoom that rejects leaves no record for a server to act on, whatever was in
\* flight when it failed; unless its last removal failed, or registerRoom failed although
\* it had taken effect (then nothing is removed).
RejectedLeavesNoRoom == phase = "rejected" => rec = "none" \/ botched \/ unknown

\* A settled wait listens no more, even if it settled while the subscription was still on
\* its way or had half succeeded.
ReleasesChannels ==
  outcome # "pending" /\ (\A c \in Channels : sub[c] # "asked")
    => \A c \in Channels : sub[c] # "on"

\* "Signals make it fast, the record poll guarantees it settles": once a registered room
\* runs or its record is gone, the wait settles without any signal and without its timeout,
\* and createRoom ends after a wait that has settled or a registration that has failed.
CreateEnds ==
  /\ (isRegistered /\ rec # "requested") ~> (outcome # "pending")
  /\ (outcome # "pending" \/ reg = "failed") ~> (phase \in {"resolved", "rejected"})

\* createRoom rejects "without leaving an unhandled rejection behind".
NoUnhandledRejection == phase = "rejected" => ~unhandled
=============================================================================
