------------------------- MODULE Subscriber_proofs --------------------------
(***************************************************************************)
(* Proofs about Subscriber, for any listeners and channels, any interval   *)
(* and timeout of the canary and any number of faults.                     *)
(***************************************************************************)
EXTENDS Subscriber, TLAPS

USE DEF vars, map, canary

\* The types of what the canary reads and writes.
CanaryType ==
  /\ conn \in {"none", "down", "ready", "deaf"}
  /\ outstanding \in {"no", "sent", "published"}
  /\ sinceSent \in 0..Interval
  /\ sincePublished \in 0..(Timeout + 1)
  /\ deafFor \in Nat
  /\ trouble \in BOOLEAN
  /\ unrouted \in BOOLEAN
  /\ faults \in Nat

\* How long a connection may have been deaf, by where the canary stands: the time to the
\* next token is at most the interval, and from its PUBLISH on the canary counts along.
DeafInv ==
  /\ conn # "deaf" => deafFor = 0
  /\ conn = "deaf" => arriving = {}
  /\ conn = "deaf" /\ ~trouble =>
       /\ outstanding = "no" => deafFor = 0 \/ (deafFor <= sinceSent /\ sinceSent < Interval)
       /\ outstanding = "sent" => deafFor <= Interval
       /\ outstanding = "published" => deafFor <= Interval + sincePublished

\* A token that was published is on its way or has been received, unless it was published
\* to no subscription, or the connection is deaf.
RoutedInv ==
  /\ conn = "none" => outstanding = "no"
  /\ conn = "down" /\ outstanding = "published" => unrouted
  /\ conn = "ready" /\ outstanding = "published" /\ "current" \notin arriving => unrouted

-----------------------------------------------------------------------------

LEMMA Parameters ==
  Interval \in Nat /\ Interval >= 1 /\ Timeout \in Nat /\ Timeout >= 1 /\ MaxFaults \in Nat
BY SubscriberAssumption

LEMMA InitCanary == Init => CanaryType /\ DeafInv /\ RoutedInv
<1> SUFFICES ASSUME Init PROVE CanaryType /\ DeafInv /\ RoutedInv
  OBVIOUS
<1>1. sinceSent = Interval /\ sincePublished = 0 /\ deafFor = 0 /\ faults = 0
  BY DEF Init
<1>2. conn = "none" /\ outstanding = "no" /\ trouble = FALSE /\ unrouted = FALSE
  BY DEF Init
<1>3. sinceSent \in 0..Interval /\ sincePublished \in 0..(Timeout + 1)
  BY <1>1, Parameters
<1>4. QED
  BY <1>1, <1>2, <1>3 DEF CanaryType, DeafInv, RoutedInv

\* What a step that is none of the canary's, and none of the connection's, leaves alone.
LEMMA Bystander ==
  ASSUME CanaryType, DeafInv, RoutedInv, UNCHANGED canary, UNCHANGED <<conn, deafFor>>,
         faults' \in Nat
  PROVE  CanaryType' /\ DeafInv' /\ RoutedInv'
BY DEF CanaryType, DeafInv, RoutedInv

LEMMA TickType ==
  ASSUME CanaryType, Tick
  PROVE  CanaryType'
<1> USE Parameters
<1>1. sincePublished' \in 0..(Timeout + 1)
  BY DEF Tick, Passes, CanaryType
<1>2. sinceSent' \in 0..Interval
  BY DEF Tick, Passes, CanaryType
<1>3. /\ conn' \in {"none", "down", "ready", "deaf"}
      /\ outstanding' \in {"no", "sent", "published"}
  BY DEF Tick, Ended, CanaryType
<1>4. deafFor' \in Nat
  BY DEF Tick, Passes, Ended, CanaryType
<1>5. trouble' \in BOOLEAN /\ unrouted' \in BOOLEAN
  BY DEF Tick, CanaryType
<1>6. faults' \in Nat
  BY DEF Tick, CanaryType
<1>7. QED
  BY <1>1, <1>2, <1>3, <1>4, <1>5, <1>6 DEF CanaryType

LEMMA TickDeaf ==
  ASSUME CanaryType, DeafInv, Tick
  PROVE  DeafInv'
<1> USE Parameters
<1>1. CASE conn # "deaf"
  <2>1. conn' # "deaf"
    BY <1>1 DEF Tick, Ended
  <2>2. deafFor' = 0
    BY <1>1 DEF Tick, Ended, DeafInv
  <2>3. QED
    BY <2>1, <2>2 DEF DeafInv
<1>2. CASE conn = "deaf" /\ Missed
  <2>1. conn' = "down" /\ deafFor' = 0
    BY <1>2 DEF Tick, Ended
  <2>2. QED
    BY <2>1 DEF DeafInv
<1>3. CASE conn = "deaf" /\ ~Missed
  <2>1. conn' = "deaf" /\ deafFor' = Passes(deafFor, Interval + Timeout + 2)
    BY <1>3 DEF Tick
  <2>2. arriving' = {}
    BY <1>3 DEF Tick, DeafInv
  <2>3. trouble' = trouble
    BY <1>3 DEF Tick, CanaryType
  <2>4. deafFor' <= deafFor + 1
    BY <2>1 DEF Passes, CanaryType
  <2> USE TickType
  <2>5. ASSUME ~trouble
        PROVE  /\ outstanding' = "no" => deafFor' <= sinceSent' /\ sinceSent' < Interval
               /\ outstanding' = "sent" => deafFor' <= Interval
               /\ outstanding' = "published" => deafFor' <= Interval + sincePublished'
    <3>1. outstanding # "sent"
      BY <2>5 DEF Tick, Prompt
    <3>2. CASE outstanding = "no" /\ sinceSent + 1 >= Interval
      <4>1. outstanding' = "sent"
        BY <1>3, <3>2 DEF Tick
      <4>2. deafFor <= Interval - 1
        BY <1>3, <2>5, <3>2 DEF DeafInv, CanaryType
      <4>3. deafFor' <= Interval
        BY <2>4, <4>2 DEF CanaryType
      <4>4. QED
        BY <4>1, <4>3
    <3>3. CASE outstanding = "no" /\ ~(sinceSent + 1 >= Interval)
      <4>1. outstanding' = "no" /\ sinceSent' = sinceSent + 1
        BY <1>3, <3>3 DEF Tick, Passes, CanaryType
      <4>2. deafFor <= sinceSent
        BY <1>3, <2>5, <3>3 DEF DeafInv, CanaryType
      <4>3. QED
        BY <2>4, <3>3, <4>1, <4>2 DEF CanaryType
    <3>4. CASE outstanding = "published"
      <4>1. outstanding' = "published"
        BY <1>3, <3>4 DEF Tick
      <4>2. sincePublished' = sincePublished + 1
        BY <1>3, <3>4 DEF Tick, Missed, Passes, CanaryType
      <4>3. QED
        BY <1>3, <2>4, <2>5, <3>4, <4>1, <4>2 DEF DeafInv, CanaryType
    <3>5. QED
      BY <3>1, <3>2, <3>3, <3>4 DEF CanaryType
  <2>6. QED
    BY <2>1, <2>2, <2>3, <2>5 DEF DeafInv
<1>4. QED
  BY <1>1, <1>2, <1>3

LEMMA TickRouted ==
  ASSUME CanaryType, RoutedInv, Tick
  PROVE  RoutedInv'
<1>1. conn # "none" /\ conn' # "none"
  BY DEF Tick, Ended
<1>2. CASE outstanding' = "published"
  <2>1. outstanding = "published" /\ conn' = conn /\ arriving' = arriving /\ conn # "down"
    BY <1>2 DEF Tick, CanaryType
  <2>2. unrouted' = unrouted
    BY <1>2 DEF Tick, CanaryType
  <2>3. QED
    BY <1>1, <1>2, <2>1, <2>2 DEF RoutedInv
<1>3. CASE outstanding' # "published"
  BY <1>1, <1>3 DEF RoutedInv
<1>4. QED
  BY <1>2, <1>3

LEMMA NextCanary ==
  CanaryType /\ DeafInv /\ RoutedInv /\ [Next]_vars => CanaryType' /\ DeafInv' /\ RoutedInv'
<1> SUFFICES ASSUME CanaryType, DeafInv, RoutedInv, [Next]_vars
             PROVE  CanaryType' /\ DeafInv' /\ RoutedInv'
  OBVIOUS
<1> USE Parameters
<1>1. CASE UNCHANGED vars
  BY <1>1, Bystander DEF CanaryType
<1>2. ASSUME NEW l \in Listener, NEW c \in Channel, SubscribeChannel(l, c)
      PROVE  CanaryType' /\ DeafInv' /\ RoutedInv'
  <2>1. UNCHANGED canary /\ deafFor' = deafFor /\ faults' = faults
    BY <1>2 DEF SubscribeChannel
  <2>2. conn' = IF conn = "none" THEN "down" ELSE conn
    BY <1>2 DEF SubscribeChannel
  <2>3. QED
    BY <2>1, <2>2 DEF CanaryType, DeafInv, RoutedInv
<1>3. ASSUME NEW l \in Listener, Unsubscribe(l) PROVE CanaryType' /\ DeafInv' /\ RoutedInv'
  BY <1>3, Bystander DEF Unsubscribe, CanaryType
<1>4. CASE Answered \/ Rejected
  <2>1. UNCHANGED canary /\ UNCHANGED <<conn, deafFor>>
    BY <1>4 DEF Answered, Rejected
  <2>2. faults' = faults \/ faults' = faults + 1
    BY <1>4 DEF Answered, Rejected, Fault
  <2>3. QED
    BY <2>1, <2>2, Bystander DEF CanaryType
<1>5. CASE GoesDeaf
  <2>1. conn' = "deaf" /\ arriving' = {} /\ deafFor' = 0
    BY <1>5 DEF GoesDeaf
  <2>2. trouble' \in BOOLEAN /\ faults' \in Nat
    BY <1>5 DEF GoesDeaf, Fault, CanaryType
  <2>3. UNCHANGED <<outstanding, sinceSent, sincePublished, unrouted>>
    BY <1>5 DEF GoesDeaf
  <2>4. QED
    BY <2>1, <2>2, <2>3 DEF CanaryType, DeafInv, RoutedInv
<1>6. CASE Drops
  <2>1. conn' = "down" /\ arriving' = {} /\ deafFor' = 0
    BY <1>6 DEF Drops, Ended
  <2>2. unrouted' = (outstanding = "published" \/ unrouted)
    BY <1>6 DEF Drops
  <2>3. UNCHANGED <<outstanding, sinceSent, sincePublished, trouble>> /\ faults' \in Nat
    BY <1>6 DEF Drops, Fault, CanaryType
  <2>4. QED
    BY <2>1, <2>2, <2>3 DEF CanaryType, DeafInv, RoutedInv
<1>7. CASE Ready
  <2>1. conn = "down" /\ conn' = "ready" /\ UNCHANGED canary /\ deafFor' = deafFor /\ faults' = faults
    BY <1>7 DEF Ready
  <2>2. QED
    BY <2>1 DEF CanaryType, DeafInv, RoutedInv
<1>8. CASE Published
  <2>1. outstanding = "sent" /\ outstanding' = "published" /\ sincePublished' = 0
    BY <1>8 DEF Published
  <2>2. UNCHANGED <<conn, sinceSent, deafFor, trouble, faults>>
    BY <1>8 DEF Published
  <2>3. unrouted' = (conn = "down" \/ Canary \notin subscribed)
    BY <1>8 DEF Published
  <2>4. arriving' = IF conn = "ready" /\ Canary \in subscribed
                    THEN arriving \cup {"current"} ELSE arriving
    BY <1>8 DEF Published
  <2>5. CanaryType'
    BY <2>1, <2>2, <2>3 DEF CanaryType
  <2>6. DeafInv'
    BY <2>1, <2>2, <2>4 DEF DeafInv, CanaryType
  <2>7. RoutedInv'
    BY <2>1, <2>2, <2>3, <2>4 DEF RoutedInv
  <2>8. QED
    BY <2>5, <2>6, <2>7
<1>9. CASE PublishFails \/ PublishHangs
  <2>1. trouble' = TRUE /\ outstanding' \in {"no", outstanding} /\ outstanding = "sent"
    BY <1>9 DEF PublishFails, PublishHangs
  <2>2. UNCHANGED <<conn, sinceSent, sincePublished, arriving, deafFor, unrouted>>
    BY <1>9 DEF PublishFails, PublishHangs
  <2>4. faults' \in Nat
    BY <1>9 DEF PublishFails, PublishHangs, Fault, CanaryType
  <2>5. QED
    BY <2>1, <2>2, <2>4 DEF CanaryType, DeafInv, RoutedInv
<1>10. ASSUME NEW t \in arriving, Receives(t) PROVE CanaryType' /\ DeafInv' /\ RoutedInv'
  <2>1. arriving' = arriving \ {t} /\ UNCHANGED <<conn, sinceSent, deafFor, trouble, unrouted, faults>>
    BY <1>10 DEF Receives
  <2>2. CASE Received(t)
    <3>1. outstanding' = "no" /\ sincePublished' = 0
      BY <1>10, <2>2 DEF Receives
    <3>2. conn # "deaf"
      BY DEF DeafInv
    <3>3. QED
      BY <2>1, <3>1, <3>2 DEF CanaryType, DeafInv, RoutedInv
  <2>3. CASE ~Received(t)
    <3>1. UNCHANGED <<outstanding, sincePublished>>
      BY <1>10, <2>3 DEF Receives
    <3>2. outstanding = "no" \/ t # "current"
      BY <2>3 DEF Received
    <3>3. QED
      BY <2>1, <3>1, <3>2 DEF CanaryType, DeafInv, RoutedInv
  <2>4. QED
    BY <2>2, <2>3
<1>11. CASE Tick
  BY <1>11, TickType, TickDeaf, TickRouted
<1>12. QED
  BY <1>1, <1>2, <1>3, <1>4, <1>5, <1>6, <1>7, <1>8, <1>9, <1>10, <1>11 DEF Next

LEMMA CanaryInvariance == Spec => [](CanaryType /\ DeafInv /\ RoutedInv)
BY InitCanary, NextCanary, PTL DEF Spec

-----------------------------------------------------------------------------

\* A connection that has gone deaf is given up within interval, timeout and one check, as
\* long as publishing works: CANARY_DETECTION_BOUND_MS (subscriber-canary.ts:7).
THEOREM DeafnessIsDetected == Spec => []DetectedInTime
<1>1. CanaryType /\ DeafInv => DetectedInTime
  <2> SUFFICES ASSUME CanaryType, DeafInv PROVE DetectedInTime
    OBVIOUS
  <2>1. deafFor = 0 \/ trouble \/ deafFor <= Interval + Timeout + 1
    BY Parameters DEF CanaryType, DeafInv
  <2>2. QED
    BY <2>1, Parameters DEF DetectedInTime
<1>2. QED
  BY <1>1, CanaryInvariance, PTL

\* The canary disconnects a connection that hears only for a token that had no subscription
\* to reach, or whose connection was replaced between two ticks.
THEOREM HealthyIsSpared == Spec => OnlyTheDeafIsBlamed
<1>1. CanaryType /\ DeafInv /\ RoutedInv /\ [Next]_vars =>
        [conn = "ready" /\ conn' = "down" /\ faults' = faults => unrouted]_vars
  <2> SUFFICES ASSUME CanaryType, RoutedInv, Next, conn = "ready", conn' = "down", faults' = faults
               PROVE  unrouted
    OBVIOUS
  <2>1. CASE Tick
    <3>1. Missed /\ "current" \notin arriving
      BY <2>1 DEF Tick, Prompt
    <3>2. QED
      BY <3>1 DEF Missed, RoutedInv
  <2>2. CASE ~Tick
    <3>1. ~Drops
      BY DEF Drops, Fault, CanaryType
    <3>2. QED
      BY <2>2, <3>1 DEF Next, SubscribeChannel, Unsubscribe, Answered, Rejected, GoesDeaf,
                        Ready, Published, PublishFails, PublishHangs, Receives
  <2>3. QED
    BY <2>1, <2>2
<1>2. QED
  BY <1>1, CanaryInvariance, PTL DEF Spec, OnlyTheDeafIsBlamed

=============================================================================
