------------------------- MODULE RoomCreation_proofs -------------------------
(***************************************************************************)
(* Proofs about RoomCreation, for every number of reads in flight and of   *)
(* faults.                                                                 *)
(***************************************************************************)
EXTENDS RoomCreation, TLAPS

USE DEF vars, driver, wait, create, history

-----------------------------------------------------------------------------
(* What the wait may conclude.                                             *)

\* The registration is known to be under way, done or failed wherever something depends on
\* it: a record, a ready signal, a read that was issued after either.
OrderInv ==
  /\ rec # "none" => reg # "sent"
  /\ isRegistered => reg # "sent"
  /\ "ready" \in inbox => reg # "sent"
  /\ \A i \in 1..MaxReads : reads[i].late \/ reads[i].ready => reg # "sent"

\* A registered record is missing only if somebody removed it, or createRoom itself, which
\* it does when the wait is over and no read is left.
MissInv ==
  /\ \A i \in 1..MaxReads : reads[i] # Idle => outcome = "pending"
  /\ phase = "cleaning" => outcome # "pending"
  /\ reg # "sent" /\ outcome = "pending" => rec # "none" \/ gone
  /\ \A i \in 1..MaxReads :
       reads[i].val = "none" /\ (reads[i].late \/ reads[i].ready) => gone

\* The course of createRoom.
CourseInv ==
  /\ phase = "registering" <=> reg \in {"sent", "landed"}
  /\ phase \in {"waiting", "cleaning", "resolved"} => reg = "ok"
  /\ phase = "waiting" => outcome = "pending"
  /\ reg = "failed" /\ ~unknown => rec = "none"

IInv == TypeOK /\ OrderInv /\ MissInv /\ CourseInv /\ FailsOnlyIfGone /\ RejectedLeavesNoRoom

-----------------------------------------------------------------------------
(* Type correctness.                                                       *)

\* Verdicts and what follows them.
LEMMA VerdictType ==
  ASSUME NEW r
  PROVE  Verdict(r) \in {"pending", "running", "start-error", "removed"}
BY DEF Verdict

LEMMA InitType == Init => TypeOK
<1> SUFFICES ASSUME Init PROVE TypeOK
  OBVIOUS
<1>1. reads \in [1..MaxReads -> Reads]
  <2>1. Idle \in Reads /\ [Idle EXCEPT !.val = "asked"] \in Reads
    BY DEF Reads, Idle
  <2>2. QED
    BY <2>1 DEF Init
<1>2. sub \in [Channels -> {"asked", "on", "failed", "off"}]
  BY DEF Init
<1>3. faults \in 0..MaxFaults
  BY CreationAssumption DEF Init
<1>4. QED
  BY <1>1, <1>2, <1>3 DEF Init, TypeOK, Records

\* One more read, or none.
LEMMA CheckType ==
  ASSUME TypeOK, NEW b \in BOOLEAN, isRegistered' \in BOOLEAN, Check(b)
  PROVE  reads' \in [1..MaxReads -> Reads]
<1>1. [val |-> "asked", ready |-> b, late |-> isRegistered'] \in Reads
  BY DEF Reads
<1>2. QED
  BY <1>1 DEF TypeOK, Check

LEMMA FinishType ==
  ASSUME TypeOK, NEW o \in {"running"} \cup Errors, NEW left \in SUBSET Channels,
         Finish(o, left)
  PROVE  /\ outcome' \in {"pending", "running"} \cup Errors
         /\ reads' \in [1..MaxReads -> Reads]
         /\ hooked' \in BOOLEAN
         /\ sub' \in [Channels -> {"asked", "on", "failed", "off"}]
         /\ inbox' \in SUBSET Channels
         /\ phase' \in {"registering", "waiting", "cleaning", "resolved", "rejected"}
         /\ unhandled' \in BOOLEAN
         /\ hooked' => \A c \in Channels : sub'[c] = "on"
<1>1. Idle \in Reads
  BY DEF Reads
<1>2. Release \in [Channels -> {"asked", "on", "failed", "off"}]
  BY DEF Release, TypeOK
<1>3. CASE outcome # "pending"
  BY <1>3 DEF Finish, TypeOK
<1>4. CASE outcome = "pending"
  <2>1. unhandled' \in BOOLEAN /\ hooked' = FALSE /\ outcome' = o
    BY <1>4 DEF Finish, TypeOK
  <2>2. reads' \in [1..MaxReads -> Reads]
    BY <1>1, <1>4 DEF Finish
  <2>3. sub' \in [Channels -> {"asked", "on", "failed", "off"}] /\ inbox' \in SUBSET Channels
    BY <1>2, <1>4 DEF Finish, TypeOK
  <2>4. phase' \in {"registering", "waiting", "cleaning", "resolved", "rejected"}
    BY <1>4 DEF Finish, Onward, TypeOK
  <2>5. QED
    BY <2>1, <2>2, <2>3, <2>4
<1>5. QED
  BY <1>3, <1>4

LEMMA ConcludeType ==
  ASSUME TypeOK, NEW now \in [Channels -> {"asked", "on", "failed", "off"}],
         UNCHANGED isRegistered, Conclude(now)
  PROVE  /\ reads' \in [1..MaxReads -> Reads]
         /\ hooked' \in BOOLEAN
         /\ sub' \in [Channels -> {"asked", "on", "failed", "off"}]
         /\ inbox' \in SUBSET Channels
         /\ ~hooked => (hooked' => \A c \in Channels : sub'[c] = "on")
<1>1. CASE Complete(now)
  <2>1. reads' \in [1..MaxReads -> Reads]
    BY <1>1, CheckType DEF Conclude, TypeOK
  <2>2. QED
    BY <1>1, <2>1 DEF Conclude, Complete, TypeOK
<1>2. CASE ~Complete(now)
  <2>1. sub' = [c \in Channels |-> IF now[c] = "on" THEN "off" ELSE now[c]]
    BY <1>2 DEF Conclude
  <2>2. sub' \in [Channels -> {"asked", "on", "failed", "off"}]
    BY <2>1
  <2>3. inbox' = {} /\ hooked' = hooked /\ reads' = reads
    BY <1>2 DEF Conclude
  <2>4. QED
    BY <2>2, <2>3 DEF TypeOK
<1>3. QED
  BY <1>1, <1>2

LEMMA NextType == TypeOK /\ [Next]_vars => TypeOK'
<1> SUFFICES ASSUME TypeOK, [Next]_vars PROVE TypeOK'
  OBVIOUS
<1>1. CASE UNCHANGED vars
  BY <1>1 DEF TypeOK
<1>2. ASSUME NEW i \in 1..MaxReads, ReadLands(i) PROVE TypeOK'
  <2>1. [reads[i] EXCEPT !.val = rec] \in Reads
    BY <1>2 DEF TypeOK, ReadLands, Reads, Idle, Records
  <2>2. reads' \in [1..MaxReads -> Reads]
    BY <1>2, <2>1 DEF TypeOK, ReadLands
  <2>3. QED
    BY <1>2, <2>2 DEF TypeOK, ReadLands
<1>3. ASSUME NEW i \in 1..MaxReads, ReadReturns(i) PROVE TypeOK'
  <2>1. CASE Verdict(reads[i]) = "pending"
    BY <1>3, <2>1 DEF TypeOK, ReadReturns, Reads
  <2>2. CASE Verdict(reads[i]) # "pending"
    <3>1. Verdict(reads[i]) \in {"running"} \cup Errors
      BY <2>2, VerdictType DEF Errors
    <3>2. Finish(Verdict(reads[i]), inbox) /\ inbox \in SUBSET Channels
      BY <1>3, <2>2 DEF ReadReturns, TypeOK
    <3>3. QED
      BY <1>3, <3>1, <3>2, FinishType DEF TypeOK, ReadReturns
  <2>3. QED
    BY <2>1, <2>2
<1>4. ASSUME NEW i \in 1..MaxReads, ReadFails(i) PROVE TypeOK'
  BY <1>4, CreationAssumption DEF TypeOK, ReadFails, Fault, Reads
<1>5. CASE Poll
  <2>1. reads' \in [1..MaxReads -> Reads]
    BY <1>5, CheckType DEF Poll, TypeOK
  <2>2. QED
    BY <1>5, <2>1 DEF TypeOK, Poll
<1>6. CASE TimesOut \/ FailedArrives
  <2>1. "timeout" \in Errors /\ "failed" \in Errors
    BY DEF Errors
  <2>2. inbox \in SUBSET Channels /\ inbox \ {"failed"} \in SUBSET Channels
    BY DEF TypeOK
  <2>3. QED
    BY <1>6, <2>1, <2>2, FinishType DEF TypeOK, TimesOut, FailedArrives
<1>7. CASE ReadyArrives
  <2>1. reads' \in [1..MaxReads -> Reads]
    BY <1>7, CheckType DEF ReadyArrives, TypeOK
  <2>2. QED
    BY <1>7, <2>1 DEF TypeOK, ReadyArrives
<1>8. ASSUME NEW c \in Channels, SignalLost(c) PROVE TypeOK'
  BY <1>8, CreationAssumption DEF TypeOK, SignalLost, Fault
<1>9. ASSUME NEW c \in Channels, SubscribeSettles(c) PROVE TypeOK'
  <2>1. PICK result \in {"on", "failed"} :
          /\ IF result = "failed" THEN Fault ELSE UNCHANGED faults
          /\ IF \E d \in Channels : [sub EXCEPT ![c] = result][d] = "asked"
             THEN sub' = [sub EXCEPT ![c] = result] /\ UNCHANGED <<inbox, hooked, reads>>
             ELSE Conclude([sub EXCEPT ![c] = result])
    BY <1>9 DEF SubscribeSettles
  <2>2. faults' \in 0..MaxFaults
    BY <2>1, CreationAssumption DEF TypeOK, Fault
  <2> DEFINE now == [sub EXCEPT ![c] = result]
  <2>3. now \in [Channels -> {"asked", "on", "failed", "off"}] /\ ~hooked
    BY <1>9 DEF TypeOK, SubscribeSettles
  <2>4. UNCHANGED <<isRegistered, rec, failing, outcome, reg, phase, gone, unhandled, unknown, botched>>
    BY <1>9 DEF SubscribeSettles
  <2>5. CASE Conclude(now)
    <3>1. /\ reads' \in [1..MaxReads -> Reads]
          /\ hooked' \in BOOLEAN
          /\ sub' \in [Channels -> {"asked", "on", "failed", "off"}]
          /\ inbox' \in SUBSET Channels
          /\ hooked' => \A d \in Channels : sub'[d] = "on"
      BY <2>3, <2>4, <2>5, ConcludeType
    <3>2. QED
      BY <2>2, <2>4, <3>1 DEF TypeOK
  <2>6. CASE sub' = now /\ UNCHANGED <<inbox, hooked, reads>>
    BY <2>2, <2>3, <2>4, <2>6 DEF TypeOK
  <2>7. QED
    BY <2>1, <2>5, <2>6
<1>10. CASE RegisterLands
  BY <1>10 DEF TypeOK, RegisterLands, Records
<1>11. CASE RegisterReturns
  <2>1. reads' \in [1..MaxReads -> Reads]
    BY <1>11, CheckType DEF RegisterReturns
  <2>2. QED
    BY <1>11, <2>1 DEF TypeOK, RegisterReturns, Onward
<1>12. CASE RegisterFails
  <2>1. Idle \in Reads /\ "not-registered" \in Errors
    BY DEF Reads, Errors
  <2>2. Release \in [Channels -> {"asked", "on", "failed", "off"}]
    BY DEF Release, TypeOK
  <2>3. reads' \in [1..MaxReads -> Reads] /\ sub' \in [Channels -> {"asked", "on", "failed", "off"}]
    BY <1>12, <2>1, <2>2 DEF TypeOK, RegisterFails, SettleRegistration
  <2>4. QED
    BY <1>12, <2>1, <2>3 DEF TypeOK, RegisterFails, SettleRegistration
<1>13. CASE CleanUp
  <2>1. phase' = "rejected"
    BY <1>13 DEF CleanUp
  <2>2. rec' \in Records /\ botched' \in BOOLEAN
    BY <1>13 DEF TypeOK, CleanUp, Records
  <2>3. UNCHANGED <<sub, inbox, failing, wait, reg, faults, gone, unhandled, unknown>>
    BY <1>13 DEF CleanUp
  <2>4. QED
    BY <2>1, <2>2, <2>3 DEF TypeOK
<1>14. CASE RoomReady \/ RoomFailurePublishes
  <2>1. rec' \in Records /\ failing' \in BOOLEAN
    BY <1>14 DEF TypeOK, RoomReady, RoomFailurePublishes, Records
  <2>2. inbox' \in SUBSET Channels
    BY <1>14 DEF TypeOK, RoomReady, RoomFailurePublishes, Publish, Channels
  <2>3. UNCHANGED <<sub, wait, create, history>>
    BY <1>14 DEF RoomReady, RoomFailurePublishes
  <2>4. QED
    BY <2>1, <2>2, <2>3 DEF TypeOK
<1>15. CASE RoomFailureDeletes \/ RecordRemoved
  <2>1. rec' \in Records /\ failing' \in BOOLEAN /\ gone' \in BOOLEAN
    BY <1>15 DEF TypeOK, RoomFailureDeletes, RecordRemoved, Records
  <2>2. UNCHANGED <<sub, inbox, wait, create, faults, unhandled, unknown, botched>>
    BY <1>15 DEF RoomFailureDeletes, RecordRemoved
  <2>3. QED
    BY <2>1, <2>2 DEF TypeOK
<1>16. QED
  BY <1>1, <1>2, <1>3, <1>4, <1>5, <1>6, <1>7, <1>8, <1>9, <1>10, <1>11, <1>12, <1>13,
     <1>14, <1>15 DEF Next, ReadStep, Registers

\* The variables of a createRoom keep their types; the wait holds either both channels or
\* none.
THEOREM CreationTypeCorrect == Spec => []TypeOK
  BY InitType, NextType, PTL DEF Spec

-----------------------------------------------------------------------------
(* What Check, Finish and Conclude do to the reads.                        *)

LEMMA CheckEffect ==
  ASSUME TypeOK, NEW b \in BOOLEAN, Check(b), NEW i \in 1..MaxReads
  PROVE  \/ reads'[i] = reads[i]
         \/ /\ outcome = "pending"
            /\ reads'[i] = [val |-> "asked", ready |-> b, late |-> isRegistered']
BY DEF Check, TypeOK

LEMMA FinishEffect ==
  ASSUME TypeOK, NEW o \in {"running"} \cup Errors, NEW left, Finish(o, left)
  PROVE  /\ outcome' = IF outcome = "pending" THEN o ELSE outcome
         /\ outcome' # "pending"
         /\ \A i \in 1..MaxReads : reads'[i] = Idle \/ (reads'[i] = reads[i] /\ outcome # "pending")
         /\ inbox' \subseteq left
         /\ phase' = IF outcome = "pending" /\ phase = "waiting" THEN Onward(o) ELSE phase
BY DEF Finish, Errors

\* One step of a subscription changes at most the reads, the inbox and the subscription.
LEMMA SettlesEffect ==
  ASSUME TypeOK, NEW c \in Channels, SubscribeSettles(c), NEW i \in 1..MaxReads
  PROVE  /\ UNCHANGED <<rec, failing, outcome, isRegistered, reg, phase, gone, unknown, botched>>
         /\ inbox' \subseteq inbox
         /\ \/ reads'[i] = reads[i]
            \/ /\ outcome = "pending"
               /\ reads'[i] = [val |-> "asked", ready |-> FALSE, late |-> isRegistered']
<1>1. UNCHANGED <<rec, failing, outcome, isRegistered, reg, phase, gone, unknown, botched>>
  BY DEF SubscribeSettles
<1>2. PICK now : Conclude(now) \/ UNCHANGED <<inbox, hooked, reads>>
  BY DEF SubscribeSettles
<1>3. CASE Conclude(now)
  <2>1. inbox' \subseteq inbox /\ (Check(FALSE) \/ UNCHANGED reads)
    BY <1>3 DEF Conclude
  <2>2. QED
    BY <1>1, <2>1, CheckEffect
<1>4. QED
  BY <1>1, <1>2, <1>3

\* What a read that returns may conclude.
LEMMA ReturnEffect ==
  ASSUME TypeOK, NEW i \in 1..MaxReads, ReadReturns(i)
  PROVE  /\ UNCHANGED <<rec, failing, isRegistered, reg, gone, unknown, botched>>
         /\ inbox' \subseteq inbox
         /\ \/ /\ UNCHANGED <<outcome, phase>>
               /\ \A j \in 1..MaxReads : reads'[j] \in {Idle, reads[j]}
            \/ \E o \in {"running", "start-error", "removed"} :
                 /\ o = Verdict(reads[i])
                 /\ Finish(o, inbox)
<1>1. UNCHANGED <<rec, failing, isRegistered, reg, gone, unknown, botched>>
  BY DEF ReadReturns
<1>2. CASE Verdict(reads[i]) = "pending"
  BY <1>1, <1>2 DEF ReadReturns, TypeOK
<1>3. CASE Verdict(reads[i]) # "pending"
  <2>1. Verdict(reads[i]) \in {"running", "start-error", "removed"} /\ Finish(Verdict(reads[i]), inbox)
    BY <1>3, VerdictType DEF ReadReturns
  <2>2. inbox' \subseteq inbox
    BY <2>1 DEF Finish
  <2>3. QED
    BY <1>1, <2>1, <2>2
<1>4. QED
  BY <1>2, <1>3

-----------------------------------------------------------------------------
(* The invariants, one step of the system at a time.                       *)

LEMMA OrderStep == TypeOK /\ OrderInv /\ [Next]_vars => OrderInv'
<1> SUFFICES ASSUME TypeOK, OrderInv, [Next]_vars PROVE OrderInv'
  OBVIOUS
<1> USE DEF OrderInv
<1>1. CASE UNCHANGED vars
  BY <1>1
<1>2. ASSUME NEW i \in 1..MaxReads, ReadLands(i) \/ ReadFails(i) PROVE OrderInv'
  <2>1. UNCHANGED <<rec, isRegistered, inbox, reg>>
    BY <1>2 DEF ReadLands, ReadFails
  <2>2. \A j \in 1..MaxReads : \/ reads'[j] = Idle
                               \/ reads'[j].late = reads[j].late /\ reads'[j].ready = reads[j].ready
    <3>1. CASE ReadLands(i)
      <4>1. [reads[i] EXCEPT !.val = rec].late = reads[i].late
        BY DEF TypeOK, Reads, Idle
      <4>2. [reads[i] EXCEPT !.val = rec].ready = reads[i].ready
        BY DEF TypeOK, Reads, Idle
      <4>3. QED
        BY <3>1, <4>1, <4>2 DEF ReadLands, TypeOK
    <3>2. CASE ReadFails(i)
      BY <3>2 DEF ReadFails, TypeOK
    <3>3. QED
      BY <1>2, <3>1, <3>2
  <2>3. QED
    BY <2>1, <2>2 DEF Idle
<1>3. ASSUME NEW i \in 1..MaxReads, ReadReturns(i) PROVE OrderInv'
  <2>1. \A j \in 1..MaxReads : reads'[j] \in {Idle, reads[j]}
    BY <1>3, ReturnEffect, FinishEffect DEF Errors
  <2>2. QED
    BY <1>3, <2>1, ReturnEffect DEF Idle
<1>4. CASE Poll \/ ReadyArrives \/ RegisterReturns
  <2>1. PICK b \in BOOLEAN : Check(b) /\ (b => "ready" \in inbox)
    BY <1>4 DEF Poll, ReadyArrives, RegisterReturns
  <2>2. rec' = rec /\ inbox' \subseteq inbox
    BY <1>4 DEF Poll, ReadyArrives, RegisterReturns
  <2>3. reg # "sent" => reg' # "sent"
    BY <1>4 DEF Poll, ReadyArrives, RegisterReturns
  <2>4. reg' # "sent" \/ UNCHANGED isRegistered
    BY <1>4 DEF Poll, ReadyArrives, RegisterReturns
  <2>5. (isRegistered' => reg' # "sent") /\ (b => reg' # "sent")
    BY <2>1, <2>3, <2>4
  <2>6. \A i \in 1..MaxReads : reads'[i].late \/ reads'[i].ready => reg' # "sent"
    <3>1. SUFFICES ASSUME NEW i \in 1..MaxReads, reads'[i].late \/ reads'[i].ready
                   PROVE  reg' # "sent"
      OBVIOUS
    <3>2. CASE reads'[i] = reads[i]
      BY <2>3, <3>1, <3>2
    <3>3. CASE reads'[i] = [val |-> "asked", ready |-> b, late |-> isRegistered']
      <4>1. reads'[i].late = isRegistered' /\ reads'[i].ready = b
        BY <3>3
      <4>2. QED
        BY <2>5, <3>1, <4>1
    <3>4. QED
      BY <2>1, <3>2, <3>3, CheckEffect
  <2>7. QED
    BY <2>2, <2>3, <2>5, <2>6
<1>5. CASE TimesOut \/ FailedArrives
  <2>1. PICK o \in {"timeout", "failed"}, left \in SUBSET inbox : Finish(o, left)
    BY <1>5 DEF TimesOut, FailedArrives
  <2>2. UNCHANGED <<rec, isRegistered, reg>>
    BY <1>5 DEF TimesOut, FailedArrives
  <2>3. QED
    BY <2>1, <2>2, FinishEffect DEF Errors, Idle
<1>6. ASSUME NEW c \in Channels, SignalLost(c) PROVE OrderInv'
  BY <1>6 DEF SignalLost
<1>7. ASSUME NEW c \in Channels, SubscribeSettles(c) PROVE OrderInv'
  <2>1. UNCHANGED <<rec, isRegistered, reg>> /\ inbox' \subseteq inbox
    <3>1. 1 \in 1..MaxReads
      BY CreationAssumption
    <3>2. QED
      BY <1>7, <3>1, SettlesEffect
  <2>2. \A i \in 1..MaxReads : reads'[i].late \/ reads'[i].ready => reg' # "sent"
    BY <1>7, <2>1, SettlesEffect
  <2>3. QED
    BY <2>1, <2>2
<1>8. CASE RegisterLands \/ CleanUp
  BY <1>8 DEF RegisterLands, CleanUp
<1>9. CASE RegisterFails
  BY <1>9 DEF RegisterFails, SettleRegistration, Idle
<1>10. CASE RoomReady \/ RoomFailurePublishes \/ RoomFailureDeletes \/ RecordRemoved
  BY <1>10 DEF RoomReady, RoomFailurePublishes, RoomFailureDeletes, RecordRemoved, Publish
<1>11. QED
  BY <1>1, <1>2, <1>3, <1>4, <1>5, <1>6, <1>7, <1>8, <1>9, <1>10
  DEF Next, ReadStep, Registers

LEMMA MissStep == TypeOK /\ OrderInv /\ MissInv /\ [Next]_vars => MissInv'
<1> SUFFICES ASSUME TypeOK, OrderInv, MissInv, [Next]_vars PROVE MissInv'
  OBVIOUS
<1> USE DEF MissInv
<1>1. CASE UNCHANGED vars
  BY <1>1
<1>2. ASSUME NEW i \in 1..MaxReads, ReadLands(i) PROVE MissInv'
  BY <1>2 DEF ReadLands, Idle, TypeOK, OrderInv
<1>3. ASSUME NEW i \in 1..MaxReads, ReadFails(i) PROVE MissInv'
  BY <1>3 DEF ReadFails, Idle, TypeOK
<1>4. ASSUME NEW i \in 1..MaxReads, ReadReturns(i) PROVE MissInv'
  <2>1. \/ UNCHANGED <<outcome, phase>> /\ \A j \in 1..MaxReads : reads'[j] \in {Idle, reads[j]}
        \/ outcome' # "pending" /\ \A j \in 1..MaxReads : reads'[j] = Idle
    BY <1>4, ReturnEffect, FinishEffect DEF Errors
  <2>2. rec' = rec /\ reg' = reg /\ gone' = gone
    BY <1>4, ReturnEffect
  <2>3. CASE UNCHANGED <<outcome, phase>> /\ \A j \in 1..MaxReads : reads'[j] \in {Idle, reads[j]}
    <3>1. outcome' = outcome /\ phase' = phase
      BY <2>3
    <3>2. \A j \in 1..MaxReads : reads'[j] = Idle \/ reads'[j] = reads[j]
      BY <2>3
    <3>3. Idle.val # "none"
      BY DEF Idle
    <3>4. QED
      BY <2>2, <3>1, <3>2, <3>3
  <2>4. CASE outcome' # "pending" /\ \A j \in 1..MaxReads : reads'[j] = Idle
    BY <2>2, <2>4 DEF Idle
  <2>5. QED
    BY <2>1, <2>3, <2>4
<1>5. CASE Poll \/ ReadyArrives \/ RegisterReturns
  <2>1. PICK b \in BOOLEAN : Check(b)
    BY <1>5 DEF Poll, ReadyArrives, RegisterReturns
  <2>2. UNCHANGED <<rec, outcome, gone>>
    BY <1>5 DEF Poll, ReadyArrives, RegisterReturns
  <2>3. phase' = "cleaning" => phase = "cleaning" \/ outcome # "pending"
    BY <1>5 DEF Poll, ReadyArrives, RegisterReturns
  <2>4. reg' # "sent" => reg # "sent"
    BY <1>5 DEF Poll, ReadyArrives, RegisterReturns
  <2>5. \A i \in 1..MaxReads :
          \/ reads'[i] = reads[i]
          \/ /\ outcome = "pending"
             /\ reads'[i] = [val |-> "asked", ready |-> b, late |-> isRegistered']
    BY <2>1, CheckEffect
  <2>6. QED
    BY <2>2, <2>3, <2>4, <2>5
<1>6. CASE TimesOut \/ FailedArrives
  <2>1. PICK o \in {"timeout", "failed"}, left \in SUBSET inbox : Finish(o, left)
    BY <1>6 DEF TimesOut, FailedArrives
  <2>2. UNCHANGED gone
    BY <1>6 DEF TimesOut, FailedArrives
  <2>3. QED
    BY <2>1, <2>2, FinishEffect DEF Errors, Idle
<1>7. ASSUME NEW c \in Channels, SignalLost(c) PROVE MissInv'
  BY <1>7 DEF SignalLost
<1>8. ASSUME NEW c \in Channels, SubscribeSettles(c) PROVE MissInv'
  <2>1. UNCHANGED <<rec, outcome, reg, phase, gone>>
    <3>1. 1 \in 1..MaxReads
      BY CreationAssumption
    <3>2. QED
      BY <1>8, <3>1, SettlesEffect
  <2>2. \A i \in 1..MaxReads :
          \/ reads'[i] = reads[i]
          \/ /\ outcome = "pending"
             /\ reads'[i] = [val |-> "asked", ready |-> FALSE, late |-> isRegistered']
    BY <1>8, SettlesEffect
  <2>3. QED
    BY <2>1, <2>2
<1>9. CASE RegisterLands
  BY <1>9 DEF RegisterLands
<1>10. CASE CleanUp
  <2>1. /\ outcome # "pending" /\ outcome' = outcome
        /\ phase' = "rejected" /\ reads' = reads /\ gone' = gone
    BY <1>10 DEF CleanUp
  <2>2. QED
    BY <2>1
<1>11. CASE RegisterFails
  <2>1. phase' = "rejected" /\ outcome' # "pending"
    BY <1>11 DEF RegisterFails, SettleRegistration
  <2>2. \A i \in 1..MaxReads : reads'[i] = Idle
    BY <1>11 DEF RegisterFails, SettleRegistration
  <2>3. Idle.val # "none"
    BY DEF Idle
  <2>4. QED
    BY <2>1, <2>2, <2>3
<1>12. CASE RoomReady \/ RoomFailurePublishes \/ RoomFailureDeletes \/ RecordRemoved
  BY <1>12 DEF RoomReady, RoomFailurePublishes, RoomFailureDeletes, RecordRemoved
<1>13. QED
  BY <1>1, <1>2, <1>3, <1>4, <1>5, <1>6, <1>7, <1>8, <1>9, <1>10, <1>11, <1>12
  DEF Next, ReadStep, Registers

LEMMA CourseStep ==
  TypeOK /\ OrderInv /\ CourseInv /\ RejectedLeavesNoRoom /\ [Next]_vars
    => CourseInv' /\ RejectedLeavesNoRoom'
<1> SUFFICES ASSUME TypeOK, OrderInv, CourseInv, RejectedLeavesNoRoom, [Next]_vars
             PROVE  CourseInv' /\ RejectedLeavesNoRoom'
  OBVIOUS
<1> USE DEF CourseInv, RejectedLeavesNoRoom
<1>1. CASE UNCHANGED vars
  BY <1>1
<1>2. ASSUME NEW i \in 1..MaxReads, ReadLands(i) \/ ReadFails(i)
      PROVE  CourseInv' /\ RejectedLeavesNoRoom'
  BY <1>2 DEF ReadLands, ReadFails
<1>3. ASSUME NEW o \in {"running"} \cup Errors, NEW left, Finish(o, left),
             UNCHANGED <<rec, reg, unknown, botched>>
      PROVE  CourseInv' /\ RejectedLeavesNoRoom'
  BY <1>3, FinishEffect DEF Onward
<1>4. ASSUME NEW i \in 1..MaxReads, ReadReturns(i)
      PROVE  CourseInv' /\ RejectedLeavesNoRoom'
  BY <1>3, <1>4, ReturnEffect DEF Errors
<1>5. CASE Poll \/ ReadyArrives
  BY <1>5 DEF Poll, ReadyArrives
<1>6. CASE TimesOut \/ FailedArrives
  <2>1. PICK o \in {"timeout", "failed"}, left \in SUBSET inbox : Finish(o, left)
    BY <1>6 DEF TimesOut, FailedArrives
  <2>2. UNCHANGED <<rec, reg, unknown, botched>>
    BY <1>6 DEF TimesOut, FailedArrives
  <2>3. QED
    BY <1>3, <2>1, <2>2 DEF Errors
<1>7. ASSUME NEW c \in Channels, SignalLost(c) \/ SubscribeSettles(c)
      PROVE  CourseInv' /\ RejectedLeavesNoRoom'
  <2>1. 1 \in 1..MaxReads
    BY CreationAssumption
  <2>2. QED
    BY <1>7, <2>1, SettlesEffect DEF SignalLost
<1>8. CASE RegisterLands
  BY <1>8 DEF RegisterLands
<1>9. CASE RegisterReturns
  BY <1>9 DEF RegisterReturns, Onward
<1>10. CASE RegisterFails
  <2>1. rec' = rec /\ reg' = "failed" /\ phase' = "rejected" /\ botched' = botched
    BY <1>10 DEF RegisterFails, SettleRegistration
  <2>2. reg = "sent" => rec = "none"
    BY DEF OrderInv
  <2>3. ~unknown' => reg = "sent"
    BY <1>10 DEF RegisterFails
  <2>4. QED
    BY <2>1, <2>2, <2>3
<1>11. CASE CleanUp
  <2>1. phase = "cleaning" /\ phase' = "rejected" /\ reg' = reg /\ unknown' = unknown
    BY <1>11 DEF CleanUp
  <2>2. rec' = "none" \/ (botched' /\ rec' = rec)
    BY <1>11 DEF CleanUp
  <2>3. QED
    BY <2>1, <2>2
<1>12. CASE RoomReady \/ RoomFailurePublishes \/ RoomFailureDeletes \/ RecordRemoved
  <2>1. reg' = reg /\ phase' = phase /\ unknown' = unknown /\ botched' = botched
    BY <1>12 DEF RoomReady, RoomFailurePublishes, RoomFailureDeletes, RecordRemoved
  <2>2. rec = "none" => rec' = "none"
    BY <1>12 DEF RoomReady, RoomFailurePublishes, RoomFailureDeletes, RecordRemoved
  <2>3. outcome' = outcome
    BY <1>12 DEF RoomReady, RoomFailurePublishes, RoomFailureDeletes, RecordRemoved
  <2>4. QED
    BY <2>1, <2>2, <2>3
<1>13. QED
  BY <1>1, <1>2, <1>4, <1>5, <1>6, <1>7, <1>8, <1>9, <1>10, <1>11, <1>12
  DEF Next, ReadStep, Registers

-----------------------------------------------------------------------------
(* The theorems.                                                           *)

LEMMA FailsStep == TypeOK /\ MissInv /\ FailsOnlyIfGone /\ [Next]_vars => FailsOnlyIfGone'
<1> SUFFICES ASSUME TypeOK, MissInv, FailsOnlyIfGone, [Next]_vars PROVE FailsOnlyIfGone'
  OBVIOUS
<1> USE DEF FailsOnlyIfGone
<1>1. ASSUME NEW i \in 1..MaxReads, ReadReturns(i) PROVE FailsOnlyIfGone'
  <2>1. gone' = gone
    BY <1>1, ReturnEffect
  <2>2. CASE outcome' = outcome
    BY <2>1, <2>2
  <2>3. CASE outcome' # outcome
    <3>1. Verdict(reads[i]) = outcome'
      BY <1>1, <2>3, ReturnEffect, FinishEffect DEF Errors
    <3>2. outcome' \in {"removed", "start-error"} => gone
      BY <3>1 DEF Verdict, MissInv
    <3>3. QED
      BY <2>1, <3>2
  <2>4. QED
    BY <2>2, <2>3
<1>2. CASE TimesOut \/ FailedArrives
  <2>1. PICK o \in {"timeout", "failed"}, left \in SUBSET inbox : Finish(o, left)
    BY <1>2 DEF TimesOut, FailedArrives
  <2>2. gone' = gone /\ (outcome' = outcome \/ outcome' \in {"timeout", "failed"})
    BY <1>2, <2>1, FinishEffect DEF TimesOut, FailedArrives, Errors
  <2>3. QED
    BY <2>2
<1>3. CASE RegisterFails
  <2>1. gone' = gone /\ (outcome' = outcome \/ outcome' = "not-registered")
    BY <1>3 DEF RegisterFails, SettleRegistration
  <2>2. QED
    BY <2>1
<1>4. CASE outcome' = outcome /\ (gone => gone')
  BY <1>4
<1>5. ASSUME NEW i \in 1..MaxReads, ReadLands(i) \/ ReadFails(i)
      PROVE  outcome' = outcome /\ (gone => gone')
  BY <1>5 DEF ReadLands, ReadFails
<1>6. ASSUME NEW c \in Channels, SignalLost(c) \/ SubscribeSettles(c)
      PROVE  outcome' = outcome /\ (gone => gone')
  BY <1>6 DEF SignalLost, SubscribeSettles
<1>7. ASSUME \/ UNCHANGED vars \/ Poll \/ ReadyArrives \/ RegisterLands \/ RegisterReturns
             \/ CleanUp \/ RoomReady \/ RoomFailurePublishes \/ RoomFailureDeletes
             \/ RecordRemoved
      PROVE  outcome' = outcome /\ (gone => gone')
  BY <1>7 DEF Poll, ReadyArrives, RegisterLands, RegisterReturns, CleanUp, RoomReady,
              RoomFailurePublishes, RoomFailureDeletes, RecordRemoved
<1>8. QED
  BY <1>1, <1>2, <1>3, <1>4, <1>5, <1>6, <1>7 DEF Next, ReadStep, Registers

LEMMA Invariance == Spec => []IInv
<1>1. Init => IInv
  <2> SUFFICES ASSUME Init PROVE IInv
    OBVIOUS
  <2>1. TypeOK
    BY InitType
  <2>2. \A i \in 1..MaxReads : reads[i].val # "none" /\ ~reads[i].late /\ ~reads[i].ready
    BY DEF Init, Idle
  <2>3. OrderInv /\ MissInv /\ CourseInv
    BY <2>2 DEF Init, OrderInv, MissInv, CourseInv
  <2>4. FailsOnlyIfGone /\ RejectedLeavesNoRoom
    BY DEF Init, FailsOnlyIfGone, RejectedLeavesNoRoom
  <2>5. QED
    BY <2>1, <2>3, <2>4 DEF IInv
<1>2. IInv /\ [Next]_vars => IInv'
  BY NextType, OrderStep, MissStep, CourseStep, FailsStep DEF IInv
<1>3. QED
  BY <1>1, <1>2, PTL DEF Spec

\* The wait says that a room was removed, or was ready and could not be found, only if its
\* record had been made and was removed, however its reads, signals and the reply of the
\* registration overtake each other.
THEOREM MissesAreReal == Spec => []FailsOnlyIfGone
<1>1. IInv => FailsOnlyIfGone
  BY DEF IInv
<1>2. QED
  BY <1>1, Invariance, PTL

\* A createRoom that rejects leaves no record behind, unless its last removal failed or
\* registerRoom failed after it had taken effect.
THEOREM RejectionCleansUp == Spec => []RejectedLeavesNoRoom
<1>1. IInv => RejectedLeavesNoRoom
  BY DEF IInv
<1>2. QED
  BY <1>1, Invariance, PTL

-----------------------------------------------------------------------------
(* The subscription.                                                       *)

\* Channels that are both in force belong to a wait that is pending and will release them;
\* there is no other way for one to be in force once neither is on its way.
ChannelsInv ==
  /\ hooked => outcome = "pending"
  /\ (\A c \in Channels : sub[c] # "asked") /\ (\E c \in Channels : sub[c] = "on") => hooked

\* Settling the wait releases what it holds.
LEMMA FinishReleases ==
  ASSUME TypeOK, ChannelsInv, NEW o \in {"running"} \cup Errors, NEW left, Finish(o, left)
  PROVE  ChannelsInv'
<1>1. CASE outcome # "pending"
  BY <1>1 DEF Finish, ChannelsInv
<1>2. CASE outcome = "pending" /\ hooked
  <2>1. sub' = Release /\ ~hooked'
    BY <1>2 DEF Finish
  <2>2. \A c \in Channels : sub'[c] # "on"
    BY <2>1 DEF Release, TypeOK
  <2>3. QED
    BY <2>1, <2>2 DEF ChannelsInv
<1>3. CASE outcome = "pending" /\ ~hooked
  <2>1. sub' = sub /\ ~hooked'
    BY <1>3 DEF Finish
  <2>2. QED
    BY <1>3, <2>1 DEF ChannelsInv
<1>4. QED
  BY <1>1, <1>2, <1>3 DEF TypeOK

LEMMA ChannelsStep == TypeOK /\ ChannelsInv /\ [Next]_vars => ChannelsInv'
<1> SUFFICES ASSUME TypeOK, ChannelsInv, [Next]_vars PROVE ChannelsInv'
  OBVIOUS
<1>1. ASSUME UNCHANGED <<sub, hooked, outcome>> PROVE ChannelsInv'
  BY <1>1 DEF ChannelsInv
<1>2. ASSUME NEW i \in 1..MaxReads, ReadStep(i) PROVE ChannelsInv'
  <2>1. CASE ReadLands(i) \/ ReadFails(i)
    BY <1>1, <2>1 DEF ReadLands, ReadFails
  <2>2. CASE ReadReturns(i)
    <3>1. CASE Verdict(reads[i]) = "pending"
      BY <1>1, <2>2, <3>1 DEF ReadReturns
    <3>2. CASE Verdict(reads[i]) # "pending"
      <4>1. Verdict(reads[i]) \in {"running"} \cup Errors
        BY <3>2, VerdictType DEF Errors
      <4>2. QED
        BY <2>2, <3>2, <4>1, FinishReleases DEF ReadReturns
    <3>3. QED
      BY <3>1, <3>2
  <2>3. QED
    BY <1>2, <2>1, <2>2 DEF ReadStep
<1>3. CASE TimesOut \/ FailedArrives
  BY <1>3, FinishReleases DEF TimesOut, FailedArrives, Errors
<1>4. ASSUME NEW c \in Channels, SubscribeSettles(c) PROVE ChannelsInv'
  <2>1. PICK result \in {"on", "failed"} :
          IF \E d \in Channels : [sub EXCEPT ![c] = result][d] = "asked"
          THEN sub' = [sub EXCEPT ![c] = result] /\ UNCHANGED <<inbox, hooked, reads>>
          ELSE Conclude([sub EXCEPT ![c] = result])
    BY <1>4 DEF SubscribeSettles
  <2> DEFINE now == [sub EXCEPT ![c] = result]
  <2>2. outcome' = outcome /\ ~hooked
    BY <1>4 DEF SubscribeSettles, TypeOK
  <2>3. CASE \E d \in Channels : now[d] = "asked"
    <3>1. sub' = now /\ hooked' = hooked
      BY <2>1, <2>3
    <3>2. \E d \in Channels : sub'[d] = "asked"
      BY <2>3, <3>1
    <3>3. QED
      BY <2>2, <3>1, <3>2 DEF ChannelsInv
  <2>4. CASE Conclude(now) /\ Complete(now)
    BY <2>2, <2>4 DEF Conclude, Complete, ChannelsInv
  <2>5. CASE Conclude(now) /\ ~Complete(now)
    <3>1. sub' = [d \in Channels |-> IF now[d] = "on" THEN "off" ELSE now[d]] /\ ~hooked'
      BY <2>2, <2>5 DEF Conclude
    <3>2. \A d \in Channels : sub'[d] # "on"
      BY <3>1
    <3>3. QED
      BY <3>1, <3>2 DEF ChannelsInv
  <2>6. QED
    BY <2>1, <2>3, <2>4, <2>5
<1>5. CASE RegisterFails
  <2>1. CASE outcome = "pending" /\ hooked
    <3>1. sub' = Release /\ ~hooked'
      BY <1>5, <2>1 DEF RegisterFails, SettleRegistration
    <3>2. \A c \in Channels : sub'[c] # "on"
      BY <3>1 DEF Release, TypeOK
    <3>3. QED
      BY <3>1, <3>2 DEF ChannelsInv
  <2>2. CASE outcome = "pending" /\ ~hooked
    <3>1. sub' = sub /\ ~hooked'
      BY <1>5, <2>2 DEF RegisterFails, SettleRegistration
    <3>2. QED
      BY <2>2, <3>1 DEF ChannelsInv
  <2>3. CASE outcome # "pending"
    BY <1>1, <1>5, <2>3 DEF RegisterFails, SettleRegistration
  <2>4. QED
    BY <2>1, <2>2, <2>3 DEF TypeOK
<1>6. CASE UNCHANGED vars
  BY <1>1, <1>6
<1>7. CASE Poll \/ ReadyArrives \/ RegisterLands \/ RegisterReturns \/ CleanUp
  BY <1>1, <1>7 DEF Poll, ReadyArrives, RegisterLands, RegisterReturns, CleanUp
<1>8. ASSUME NEW c \in Channels, SignalLost(c) PROVE ChannelsInv'
  BY <1>1, <1>8 DEF SignalLost
<1>9. CASE RoomReady \/ RoomFailurePublishes \/ RoomFailureDeletes \/ RecordRemoved
  BY <1>1, <1>9 DEF RoomReady, RoomFailurePublishes, RoomFailureDeletes, RecordRemoved
<1>10. QED
  BY <1>2, <1>3, <1>4, <1>5, <1>6, <1>7, <1>8, <1>9 DEF Next, Registers

\* A settled wait holds no channel once neither SUBSCRIBE is under way any more, whatever
\* failed and however late the answers came.
THEOREM ListensNoMore == Spec => []ReleasesChannels
<1>1. Init => ChannelsInv
  BY DEF Init, ChannelsInv
<1>2. ChannelsInv => ReleasesChannels
  BY DEF ChannelsInv, ReleasesChannels
<1>3. QED
  BY <1>1, <1>2, ChannelsStep, CreationTypeCorrect, PTL DEF Spec
=============================================================================
