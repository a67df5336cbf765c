----------------------------- MODULE Subscriber -----------------------------
(***************************************************************************)
(* The one subscriber connection of a Redis driver: the channels its       *)
(* callers listen on (src/src/driver/redis.ts) and the canary that proves  *)
(* that it still receives (src/src/driver/subscriber-canary.ts).           *)
(*                                                                         *)
(* Commands on the connection are answered in order.  While it is down     *)
(* they wait; a connection that has gone deaf looks ready, but answers and *)
(* delivers nothing.  Time is counted in ticks of the canary's timer:      *)
(* before the next, Redis answers, carries out a PUBLISH of the main       *)
(* connection and delivers a token, unless the connection is in trouble.   *)
(***************************************************************************)
EXTENDS Naturals, Sequences, FiniteSets

CONSTANTS
  Channel, Listener,
  Canary,           \* the canary's own channel
  Interval,         \* CANARY_INTERVAL_MS in ticks
  Timeout,          \* CANARY_TIMEOUT_MS in ticks
  MaxFaults         \* bound: things that go wrong

ASSUME SubscriberAssumption ==
  /\ Canary \notin Channel
  /\ {Interval, Timeout} \subseteq Nat \ {0}
  /\ MaxFaults \in Nat

VARIABLES
  conn,         \* "none" before the first use, "down", "ready", "deaf"
  subscribed,   \* channels ioredis has seen a subscription of succeed on this connection
  queue,        \* commands that have not been answered
  on,           \* the channel each listener is in the map under, "new", "left"
  outstanding,  \* the canary: "no", "sent", "published" when PUBLISH has resolved
  sinceSent, sincePublished,
  arriving,     \* tokens on their way on this connection, "current" or "old"
  faults,
  \* history
  deafFor,      \* ticks for which the connection has been deaf
  trouble,      \* a PUBLISH has failed or hung since
  unrouted      \* the token was published to no subscription, or to one that has ended

map    == <<conn, subscribed, queue, on>>
canary == <<outstanding, sinceSent, sincePublished, arriving, trouble, unrouted>>
vars   == <<map, canary, faults, deafFor>>

Wanted == {c \in Channel : \E l \in Listener : on[l] = c}

\* channelListeners.keys()
Keys == Wanted \cup {Canary}

Sub(C, W)  == [op |-> "sub", of |-> C, waiters |-> W]
Unsub(C)   == [op |-> "unsub", of |-> C, waiters |-> {}]

Waiting == UNION {queue[i].waiters : i \in DOMAIN queue}

Init ==
  /\ conn = "none" /\ subscribed = {} /\ queue = <<>>
  /\ on = [l \in Listener |-> "new"]
  /\ outstanding = "no" /\ sinceSent = Interval /\ sincePublished = 0 /\ arriving = {}
  /\ faults = 0 /\ deafFor = 0 /\ trouble = FALSE /\ unrouted = FALSE

Fault == faults < MaxFaults /\ faults' = faults + 1

-----------------------------------------------------------------------------
(* subscribeChannel.                                                       *)

\* The first listener of a channel subscribes; one that finds a SUBSCRIBE under way
\* waits for it too; others are there at once.
SubscribeChannel(l, c) ==
  LET pending == {i \in DOMAIN queue : queue[i].op = "sub" /\ queue[i].of = {c}
                                       /\ queue[i].waiters # {}}
  IN
  /\ on[l] = "new"
  /\ on' = [on EXCEPT ![l] = c]
  /\ queue' = IF c \notin Wanted THEN Append(queue, Sub({c}, {l}))
              ELSE [i \in DOMAIN queue |->
                      IF i \in pending
                      THEN [queue[i] EXCEPT !.waiters = @ \cup {l}] ELSE queue[i]]
  /\ conn' = IF conn = "none" THEN "down" ELSE conn
  /\ UNCHANGED <<subscribed, canary, faults, deafFor>>

\* removeListener for those of L: a channel that is left by its last is unsubscribed.
Left(L) == [l \in Listener |-> IF l \in L THEN "left" ELSE on[l]]

Deserted(L) == {c \in Wanted : \A l \in Listener : on[l] = c => l \in L}

Unsubs(C) == IF C = {} THEN <<>> ELSE <<Unsub(C)>>

\* The function that subscribeChannel returned.
Unsubscribe(l) ==
  /\ on[l] \in Channel /\ l \notin Waiting
  /\ on' = Left({l})
  /\ queue' = queue \o Unsubs(Deserted({l}))
  /\ UNCHANGED <<conn, subscribed, canary, faults, deafFor>>

\* Redis answers the first command.
Answered ==
  /\ conn = "ready" /\ queue # <<>>
  /\ queue' = Tail(queue)
  /\ subscribed' = IF Head(queue).op = "sub" THEN subscribed \cup Head(queue).of
                   ELSE subscribed \ Head(queue).of
  /\ UNCHANGED <<conn, on, canary, faults, deafFor>>

\* A command is rejected: everyone who waits for it leaves again.
RolledBack_First(W) == {CHOOSE l \in W : TRUE}
RolledBack(W) == W

Rejected ==
  /\ queue # <<>> /\ conn \in {"ready", "down"}
  /\ Fault
  /\ LET W == IF Head(queue).waiters = {} THEN {} ELSE RolledBack(Head(queue).waiters) IN
     /\ on' = Left(W)
     /\ queue' = Tail(queue) \o Unsubs(Deserted(W))
  /\ UNCHANGED <<conn, subscribed, canary, deafFor>>

-----------------------------------------------------------------------------
(* The connection.                                                         *)

GoesDeaf ==
  /\ conn = "ready"
  /\ Fault
  /\ conn' = "deaf"
  /\ arriving' = {}
  /\ deafFor' = 0 /\ trouble' = (trouble /\ outstanding = "sent")
  /\ UNCHANGED <<subscribed, queue, on, outstanding, sinceSent, sincePublished, unrouted>>

\* It ends, by itself or by disconnect(true), and what was subscribed with it.
Ended ==
  /\ conn' = "down"
  /\ arriving' = {}
  /\ deafFor' = 0

Drops ==
  /\ conn \in {"ready", "deaf"}
  /\ Fault
  /\ Ended
  /\ unrouted' = (outstanding = "published" \/ unrouted)
  /\ UNCHANGED <<subscribed, queue, on, outstanding, sinceSent, sincePublished, trouble>>

\* ioredis restores what it saw succeed and sends what has been waiting; then, on the
\* 'ready' event, all that is listened on.
Ready ==
  /\ conn = "down"
  /\ conn' = "ready"
  /\ queue' = (IF subscribed = {} THEN <<>> ELSE <<Sub(subscribed, {})>>)
              \o queue \o <<Sub(Keys, {})>>
  /\ subscribed' = {}
  /\ UNCHANGED <<on, canary, faults, deafFor>>

-----------------------------------------------------------------------------
(* The canary.                                                             *)

\* PUBLISH has been carried out, and its promise is resolved.
Published ==
  /\ outstanding = "sent"
  /\ outstanding' = "published" /\ sincePublished' = 0
  /\ unrouted' = (conn = "down" \/ Canary \notin subscribed)
  /\ arriving' = IF conn = "ready" /\ Canary \in subscribed
                 THEN arriving \cup {"current"} ELSE arriving
  /\ UNCHANGED <<map, sinceSent, faults, deafFor, trouble>>

\* PUBLISH fails, or is not answered for a while.
PublishFails ==
  /\ outstanding = "sent"
  /\ Fault
  /\ outstanding' = "no" /\ trouble' = TRUE
  /\ UNCHANGED <<map, sinceSent, sincePublished, arriving, deafFor, unrouted>>

PublishHangs ==
  /\ outstanding = "sent" /\ ~trouble
  /\ Fault
  /\ trouble' = TRUE
  /\ UNCHANGED <<map, outstanding, sinceSent, sincePublished, arriving, deafFor, unrouted>>

\* received()
Received(t) == outstanding # "no" /\ t = "current"

Receives(t) ==
  /\ t \in arriving
  /\ arriving' = arriving \ {t}
  /\ outstanding' = IF Received(t) THEN "no" ELSE outstanding
  /\ sincePublished' = IF Received(t) THEN 0 ELSE sincePublished
  /\ UNCHANGED <<map, sinceSent, faults, deafFor, trouble, unrouted>>

\* A token is missed Timeout after its PUBLISH resolved.
Missed_Sent == outstanding # "no" /\ sinceSent >= Interval
Missed_Twice == outstanding = "published" /\ sincePublished' > 2 * Timeout
Missed == outstanding = "published" /\ sincePublished' > Timeout

\* Nothing that takes less than a tick is left.
Prompt ==
  /\ conn = "ready" => queue = <<>>
  /\ "current" \notin arriving
  /\ outstanding = "sent" => trouble

Passes(n, limit) == IF n < limit THEN n + 1 ELSE n

\* tick(), and the time since the last.
Tick ==
  /\ conn # "none" /\ Prompt
  /\ sincePublished' = IF outstanding = "published" THEN Passes(sincePublished, Timeout + 1)
                       ELSE 0
  /\ IF conn = "down"
     THEN /\ outstanding' = "no"
          /\ sinceSent' = Passes(sinceSent, Interval)
          /\ UNCHANGED <<conn, subscribed, arriving, deafFor, trouble>>
     ELSE IF Missed
     THEN /\ outstanding' = "no"
          /\ sinceSent' = Passes(sinceSent, Interval)
          /\ Ended
          /\ UNCHANGED <<subscribed, trouble>>
     ELSE /\ IF outstanding = "no" /\ sinceSent + 1 >= Interval
             THEN outstanding' = "sent" /\ sinceSent' = 0 /\ arriving' = {"old" : t \in arriving}
             ELSE sinceSent' = Passes(sinceSent, Interval) /\ UNCHANGED <<outstanding, arriving>>
          /\ deafFor' = IF conn = "deaf" THEN Passes(deafFor, Interval + Timeout + 2) ELSE 0
          /\ trouble' = (trouble /\ (conn = "deaf" \/ outstanding = "sent"))
          /\ UNCHANGED <<conn, subscribed>>
  /\ unrouted' = (unrouted /\ outstanding' # "no")
  /\ UNCHANGED <<queue, on, faults>>

-----------------------------------------------------------------------------

Next ==
  \/ \E l \in Listener : Unsubscribe(l) \/ \E c \in Channel : SubscribeChannel(l, c)
  \/ Answered \/ Rejected \/ GoesDeaf \/ Drops \/ Ready
  \/ Published \/ PublishFails \/ PublishHangs \/ Tick
  \/ \E t \in arriving : Receives(t)

Spec == Init /\ [][Next]_vars

\* Redis answers and can be reached again, PUBLISH ends, the timer runs.
FairSpec ==
  /\ Spec
  /\ WF_vars(Answered) /\ WF_vars(Ready) /\ WF_vars(Published) /\ WF_vars(Tick)
  /\ WF_vars(\E t \in arriving : Receives(t))

-----------------------------------------------------------------------------
(* Properties.                                                             *)

\* A connection that goes deaf is given up within CANARY_DETECTION_BOUND_MS, unless the
\* canary's own publishing was in trouble: interval, timeout and one check
\* (subscriber-canary.ts:7).
DetectedInTime == deafFor <= Interval + Timeout + 1 \/ trouble

\* The subscriber is not blamed for the trouble of the connection that publishes
\* (subscriber-canary.ts:21), nor while it receives: the canary disconnects a connection
\* that hears only for a token that was published to no subscription, or to one that had
\* ended and was replaced between two ticks.
OnlyTheDeafIsBlamed ==
  [][conn = "ready" /\ conn' = "down" /\ faults' = faults => unrouted]_vars

\* Whatever goes wrong, rejected commands and roll-backs among it, a channel that is
\* listened on is heard again: the canary speaks for all.
ListenersAreHeard ==
  \A c \in Channel : c \in Wanted ~> (c \notin Wanted \/ (c \in subscribed /\ conn = "ready"))

=============================================================================
