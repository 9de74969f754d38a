------------------------------ MODULE DeviceLink ------------------------------
(***************************************************************************)
(* The way of a reading from the simulator's timer to the buffer of the    *)
(* ingestion service: the simulator's MQTT client, the broker, and the     *)
(* subscriber's, each connection failing on its own.  Readings are those   *)
(* of one device, numbered as they are made; every device of the fleet     *)
(* makes one at a tick and shares the client, so its readings fare alike.  *)
(*                                                                         *)
(* Of the MQTT library the code relies on the defaults: publications with  *)
(* QoS 1 wait while the client is offline and are sent again, in order,    *)
(* until acknowledged; sessions are clean.                                 *)
(***************************************************************************)
EXTENDS Integers, Sequences, FiniteSets, SequencesExt

CONSTANTS
    MaxReadings,    \* bound: readings made
    MaxConnects,    \* bound: connections of the simulator
    MaxOutages,     \* bound: connections the subscriber loses
    MaxRefusals     \* bound: subscriptions that fail

ASSUME LinkAssumption == {MaxReadings, MaxConnects, MaxOutages, MaxRefusals} \subseteq Nat

VARIABLES
    \* the simulator
    interval,   \* PUBLISH_INTERVAL_MS elapsed so far
    timers,     \* timers set by setInterval and not cleared, by number
    timer,      \* the variable timer: the last one set, 0: undefined
    due,        \* timers that have not fired in this interval
    made,       \* readings made: the interval of each
    simOnline, connects,
    outbox,     \* readings its client has not sent on this connection
    sent,       \* sent on it and not acknowledged
    stopping,   \* readings made when it was told to stop, -1: not yet
    \* the broker
    takenHere,  \* how many of sent the broker has taken
    subscribed, \* is the pattern subscribed to on the subscriber's connection?
    outbound,   \* readings on their way to the subscriber
    \* the subscriber
    online, outages,
    subscribing,\* is a subscribe request out?
    refused,    \* has the one of this connection failed?
    refusals,
    arrived,    \* readings handed to handleMessage, in order
    excused     \* history: readings taken or dropped by the broker when the
                \* subscriber was away, or was told that it is not subscribed

simulator == <<interval, timers, timer, due, made, stopping>>
upstream == <<simOnline, connects, outbox, sent, takenHere>>
session == <<online, outages, subscribing, subscribed, refused, refusals>>
downstream == <<outbound, arrived, excused>>
vars == <<simulator, upstream, session, downstream>>

Init ==
    /\ interval = 0 /\ timers = {} /\ timer = 0 /\ due = {}
    /\ made = << >> /\ stopping = -1
    /\ simOnline = FALSE /\ connects = 0
    /\ outbox = << >> /\ sent = << >> /\ takenHere = 0
    /\ online = FALSE /\ outages = 0
    /\ subscribing = FALSE /\ subscribed = FALSE
    /\ refused = FALSE /\ refusals = 0
    /\ outbound = << >> /\ arrived = << >> /\ excused = {}

-----------------------------------------------------------------------------
(* The simulator.                                                          *)

NextInterval ==
    /\ timers # {} /\ due = {}
    /\ Len(made) < MaxReadings
    /\ interval' = interval + 1
    /\ due' = timers
    /\ UNCHANGED <<timers, timer, made, stopping, upstream, session, downstream>>

\* tick: a client that is being ended takes no publication.
Tick ==
    /\ Len(made) < MaxReadings
    /\ \E t \in due : due' = due \ {t}
    /\ made' = Append(made, interval)
    /\ outbox' = IF stopping = -1 THEN Append(outbox, Len(made) + 1) ELSE outbox
    /\ UNCHANGED <<interval, timers, timer, stopping, simOnline, connects, sent,
                   takenHere, session, downstream>>

\* QoS 1: what was not acknowledged comes first.
SendAgain == outbox' = sent \o outbox

\* The 'connect' listener, at the first connection and at every further one:
\* the timer set before runs on.
SimulatorConnects ==
    /\ ~simOnline /\ stopping = -1
    /\ connects < MaxConnects
    /\ simOnline' = TRUE /\ connects' = connects + 1
    /\ timers' = timers \union {connects + 1}
    /\ timer' = connects + 1
    /\ SendAgain
    /\ sent' = << >> /\ takenHere' = 0
    /\ UNCHANGED <<interval, due, made, stopping, session, downstream>>

SimulatorLoses ==
    /\ simOnline /\ connects < MaxConnects
    /\ simOnline' = FALSE
    /\ UNCHANGED <<simulator, connects, outbox, sent, takenHere, session,
                   downstream>>

Send ==
    /\ simOnline /\ outbox # << >>
    /\ outbox' = Tail(outbox) /\ sent' = Append(sent, Head(outbox))
    /\ UNCHANGED <<simulator, simOnline, connects, takenHere, session, downstream>>

Acknowledged ==
    /\ simOnline /\ takenHere > 0
    /\ sent' = Tail(sent) /\ takenHere' = takenHere - 1
    /\ UNCHANGED <<simulator, simOnline, connects, outbox, session, downstream>>

\* Variant: the timer is not cleared.
KeepTimers == timers

ClearTimer == timers \ {timer}

\* SIGINT or SIGTERM: the last timer is cleared; the client ends, and the
\* process with it, some time after.
Shutdown ==
    /\ stopping = -1
    /\ stopping' = Len(made)
    /\ timers' = ClearTimer /\ due' = due \intersect timers'
    /\ UNCHANGED <<interval, timer, made, upstream, session, downstream>>

-----------------------------------------------------------------------------
(* The broker.                                                             *)

\* What the subscriber's health check asks for: nothing of subscriptions.
IsConnected == online

\* The subscriber has no subscription, and its health check or its log tells.
KnownDeaf == ~IsConnected \/ subscribing \/ refused

Take ==
    /\ simOnline /\ takenHere < Len(sent)
    /\ takenHere' = takenHere + 1
    /\ LET reading == sent[takenHere + 1] IN
       IF subscribed
       THEN outbound' = Append(outbound, reading) /\ UNCHANGED excused
       ELSE /\ UNCHANGED outbound
            /\ excused' = IF KnownDeaf THEN excused \union {reading} ELSE excused
    /\ UNCHANGED <<simulator, simOnline, connects, outbox, sent, session, arrived>>

\* Variant: the broker delivers in any order.
AnyNext(n) == n \in DOMAIN outbound

IsNext(n) == n = 1

\* The 'message' listener calls handleMessage.
Deliver ==
    /\ online
    /\ \E n \in DOMAIN outbound :
          /\ IsNext(n)
          /\ arrived' = Append(arrived, outbound[n])
          /\ outbound' = RemoveAt(outbound, n)
    /\ UNCHANGED <<simulator, upstream, session, excused>>

-----------------------------------------------------------------------------
(* The subscriber.                                                         *)

\* Variant: subscribes when it connects for the first time only.
SubscribeOnce == subscribing' = (outages = 0)

Subscribe == subscribing' = TRUE

SubscriberConnects ==
    /\ ~online
    /\ online' = TRUE
    /\ Subscribe
    /\ UNCHANGED <<simulator, upstream, outages, subscribed, refused, refusals,
                   downstream>>

\* The answer to subscribe; an error is logged and nothing more.
Answered ==
    /\ subscribing /\ subscribing' = FALSE
    /\ \/ subscribed' = TRUE /\ UNCHANGED <<refused, refusals>>
       \/ /\ refusals < MaxRefusals /\ refusals' = refusals + 1
          /\ refused' = TRUE /\ UNCHANGED subscribed
    /\ UNCHANGED <<simulator, upstream, online, outages, downstream>>

\* The connection ends and with it the clean session: the subscription, and what
\* was on its way.
SubscriberLoses ==
    /\ online /\ outages < MaxOutages
    /\ outages' = outages + 1
    /\ online' = FALSE /\ subscribing' = FALSE
    /\ subscribed' = FALSE /\ refused' = FALSE
    /\ outbound' = << >>
    /\ excused' = excused \union {outbound[n] : n \in DOMAIN outbound}
    /\ UNCHANGED <<simulator, upstream, refusals, arrived>>

\* Nothing is on its way; a simulator that ended while offline keeps the rest.
Rest ==
    /\ \/ outbox = << >> /\ takenHere = Len(sent)
       \/ stopping # -1 /\ ~simOnline
    /\ outbound = << >> /\ online /\ ~subscribing
    /\ UNCHANGED vars

Next ==
    \/ NextInterval \/ Tick \/ Shutdown
    \/ SimulatorConnects \/ SimulatorLoses \/ Send \/ Acknowledged
    \/ Take \/ Deliver
    \/ SubscriberConnects \/ Answered \/ SubscriberLoses
    \/ Rest

Spec == Init /\ [][Next]_vars

\* Clients reconnect (reconnectPeriod), send what they have and are answered;
\* outages end.  The timers need not tick for what is claimed.
FairSpec ==
    /\ Spec
    /\ WF_vars(SimulatorConnects) /\ WF_vars(Send) /\ WF_vars(Take)
    /\ WF_vars(Deliver) /\ WF_vars(SubscriberConnects) /\ WF_vars(Answered)

-----------------------------------------------------------------------------
(* Properties.                                                             *)

\* As long as the simulator's connection has not been lost, its readings arrive
\* in the order in which they were made and none twice, whatever the
\* subscriber's connection does: what the ingestion service is given then meets
\* its assumption DevicesReportInOrder.  At any time a reading arrives at most
\* once for each connection of the simulator.
RepeatsOnlyByResending ==
    /\ connects <= 1 =>
          \A i, j \in DOMAIN arrived : i < j => arrived[i] < arrived[j]
    /\ \A m \in DOMAIN made :
          Cardinality({i \in DOMAIN arrived : arrived[i] = m}) <= connects

\* As long as the simulator's connection has not been lost, a device reports at
\* most once in an interval, and not at all once the simulator was told to stop.
\* Each reconnect leaves a timer behind that makes one reading more per interval,
\* and that the shutdown does not clear.
OneTimerUntilReconnect ==
    /\ \A i \in DOMAIN made :
          i + connects \in DOMAIN made => made[i + connects] > made[i]
    /\ connects <= 1 /\ stopping # -1 => Len(made) = stopping

\* Every reading the simulator publishes is handed to the ingestion service in
\* the end, through the outages of either side, unless the broker takes it while
\* the subscriber is away or told that its subscription failed.  In particular a
\* subscriber does not come back connected, healthy and deaf.
EveryReadingArrives ==
    \A m \in 1 .. MaxReadings :
        Len(made) >= m /\ stopping = -1 ~>
            \/ \E i \in DOMAIN arrived : arrived[i] = m
            \/ m \in excused \/ stopping # -1

=============================================================================
