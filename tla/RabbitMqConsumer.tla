-------------------------- MODULE RabbitMqConsumer --------------------------
(***************************************************************************)
(* One durable queue of the platform (rule-engine.telemetry or             *)
(* notification.alerts, each with its .dlq) and the one service that       *)
(* consumes it through RabbitMqService: delivery under prefetch(1), the    *)
(* handler running across awaits, the settlement on whatever channel       *)
(* this.channel names by then, the loss of the connection, the reconnect,  *)
(* a crash of the process.                                                 *)
(*                                                                         *)
(* A message is the number of its publication.  A connection is named by   *)
(* its generation, 0 standing for none; the service opens one channel per  *)
(* connection, so a generation names that channel too.  Delivery tags      *)
(* restart at 1 on every channel.                                          *)
(***************************************************************************)
EXTENDS Integers

CONSTANTS
    MaxMessages,    \* bound: messages published to the queue
    MaxOutages,     \* bound: connections lost
    MaxCrashes      \* bound: crashes of the consuming process

ASSUME BoundsAssumption ==
    MaxMessages \in Nat /\ MaxOutages \in Nat /\ MaxCrashes \in Nat

VARIABLES
    \* the broker
    published,  \* messages published so far: 1 .. published
    ready,      \* messages in the queue, delivered in ascending order
    unacked,    \* [tag, msg] delivered on the open connection, not settled
    dlq,        \* messages in the dead-letter queue
    link,       \* generation of the connection open at the broker, 0: none
    lastTag,    \* last delivery tag used on it
    \* the service
    epoch,      \* connections made so far
    channel,    \* this.channel: its generation, 0: undefined
    handlers,   \* handleMessage invocations in progress: [gen, tag, msg]
    \* history and bounds
    handled,    \* messages some handler has completed
    late,       \* has a handler still run when the service was back on a new
                \* connection?  One that ends within the backoff, 2 s or more
                \* (line 14), is never late
    outages, crashes

brokerVars  == <<published, ready, unacked, dlq, link, lastTag>>
serviceVars == <<epoch, channel, handlers>>
boundVars   == <<outages, crashes>>
vars == <<brokerVars, serviceVars, handled, late, boundVars>>

Messages == 1 .. MaxMessages

Init ==
    /\ published = 0
    /\ ready = {} /\ unacked = {} /\ dlq = {}
    /\ epoch = 1 /\ link = 1 /\ channel = 1
    /\ lastTag = 0
    /\ handlers = {} /\ handled = {} /\ late = FALSE
    /\ outages = 0 /\ crashes = 0

-----------------------------------------------------------------------------
(* The broker.                                                             *)

Publish ==
    /\ published < MaxMessages
    /\ published' = published + 1
    /\ ready' = ready \union {published + 1}
    /\ UNCHANGED <<unacked, dlq, link, lastTag, serviceVars, handled, late,
                   boundVars>>

\* Variant: the prefetch limit is not set.
PrefetchUnlimited == TRUE

\* prefetch(1): no delivery while one is unsettled on the channel.
PrefetchAllows == unacked = {}

\* Variant: the queue keeps no order.
Anywhere(m) == m \in ready

\* Queue order; a message that comes back takes its old place.
AtHead(m) == \A n \in ready : m <= n

\* The consume callback starts handleMessage and does not await it.
Deliver ==
    /\ link # 0
    /\ PrefetchAllows
    /\ \E m \in ready :
          /\ AtHead(m)
          /\ ready' = ready \ {m}
          /\ unacked' = unacked \union {[tag |-> lastTag + 1, msg |-> m]}
          /\ handlers' = handlers \union
                {[gen |-> link, tag |-> lastTag + 1, msg |-> m]}
    /\ lastTag' = lastTag + 1
    /\ UNCHANGED <<published, dlq, link, epoch, channel, handled, late, boundVars>>

\* Variant: tags, counted from 0, taken for messages.
UnsettledTags == {d.tag - 1 : d \in unacked}

\* The broker drops the connection and takes back what was not settled on it.
UnsettledMessages == {d.msg : d \in unacked}

\* Variant: messages count as acknowledged once they are sent (noAck).
Forget ==
    /\ UNCHANGED ready
    /\ unacked' = {}
    /\ link' = 0

Requeue ==
    /\ ready' = ready \union UnsettledMessages
    /\ unacked' = {}
    /\ link' = 0

ConnectionLost ==
    /\ link # 0
    /\ outages < MaxOutages
    /\ outages' = outages + 1
    /\ Requeue
    /\ UNCHANGED <<published, dlq, lastTag, serviceVars, handled, late, crashes>>

-----------------------------------------------------------------------------
(* The service.                                                            *)

\* The 'close' event reaches the service some time after the connection died.
HandleClose ==
    /\ channel # 0 /\ link = 0
    /\ channel' = 0
    /\ UNCHANGED <<brokerVars, epoch, handlers, handled, late, boundVars>>

\* A reconnect that succeeds (RabbitMqConnection has its steps), or the start
\* of the process after a crash.
Reconnect ==
    /\ channel = 0 /\ link = 0
    /\ late' = (late \/ handlers # {})
    /\ epoch' = epoch + 1
    /\ link' = epoch + 1 /\ channel' = epoch + 1
    /\ lastTag' = 0
    /\ UNCHANGED <<published, ready, unacked, dlq, handlers, handled, boundVars>>

\* The deliveries that a settlement by handler h names at the broker: those
\* with its tag on the current channel, whichever channel h was started on.
Settles(h) == {d \in unacked : d.tag = h.tag}

\* this.channel is undefined or dead: the ack or nack goes nowhere.
SettlementLost(h) ==
    /\ link = 0
    /\ UNCHANGED brokerVars

\* Variant: a failed handler settles nothing.
SettlementOfSuccess(h, ok) ==
    /\ link # 0 /\ Settles(h) # {}
    /\ unacked' = IF ok THEN unacked \ Settles(h) ELSE unacked
    /\ UNCHANGED <<published, ready, dlq, link, lastTag>>

SettlementTaken(h, ok) ==
    /\ link # 0 /\ Settles(h) # {}
    /\ unacked' = unacked \ Settles(h)
    /\ dlq' = IF ok THEN dlq ELSE dlq \union {d.msg : d \in Settles(h)}
    /\ UNCHANGED <<published, ready, link, lastTag>>

\* A tag the channel does not know is a channel error: the broker closes the
\* channel, and the error, which no listener takes, ends the connection.
SettlementRefused(h) ==
    /\ link # 0 /\ Settles(h) = {}
    /\ Requeue
    /\ UNCHANGED <<published, dlq, lastTag>>

\* The handler has returned (ok) or thrown, and the message is settled.
Settle(h, ok) ==
    /\ h \in handlers
    /\ handlers' = handlers \ {h}
    /\ handled' = IF ok THEN handled \union {h.msg} ELSE handled
    /\ \/ SettlementLost(h)
       \/ SettlementTaken(h, ok)
       \/ SettlementRefused(h)
    /\ UNCHANGED <<epoch, channel, late, boundVars>>

HandlerEnds == \E h \in handlers, ok \in BOOLEAN : Settle(h, ok)

Crash ==
    /\ crashes < MaxCrashes
    /\ crashes' = crashes + 1
    /\ handlers' = {} /\ channel' = 0
    /\ Requeue
    /\ UNCHANGED <<published, dlq, lastTag, epoch, handled, late, outages>>

\* Nothing is left to do: the only state the system may rest in.
Quiescent ==
    /\ published = MaxMessages /\ channel # 0 /\ link # 0
    /\ ready = {} /\ unacked = {} /\ handlers = {}
Rest == Quiescent /\ UNCHANGED vars

Next ==
    \/ Publish \/ Deliver \/ ConnectionLost
    \/ HandleClose \/ Reconnect \/ HandlerEnds \/ Crash
    \/ Rest

Spec == Init /\ [][Next]_vars

\* The broker delivers and the event loop runs what is ready to run; outages
\* end, so a reconnect succeeds in the end.  Nothing makes a message come, a
\* connection fail or a process crash.
Fairness ==
    /\ WF_vars(Deliver) /\ WF_vars(HandleClose)
    /\ WF_vars(Reconnect) /\ WF_vars(HandlerEnds)
FairSpec == Spec /\ Fairness

-----------------------------------------------------------------------------
(* Properties.                                                             *)

Deliveries == [tag : Nat, msg : Messages]
HandlerRuns == [gen : Nat, tag : Nat, msg : Messages]

\* Types: every variable stays in the range its declaration comments on.
TypeOK ==
    /\ published \in 0 .. MaxMessages
    /\ ready \subseteq Messages /\ dlq \subseteq Messages
    /\ handled \subseteq Messages
    /\ unacked \subseteq Deliveries
    /\ handlers \subseteq HandlerRuns
    /\ link \in Nat /\ channel \in Nat /\ epoch \in Nat /\ lastTag \in Nat
    /\ late \in BOOLEAN /\ outages \in Nat /\ crashes \in Nat

\* At most one handler is in progress, as long as none was late: it is what the
\* code gets from prefetch(1).  A handler's steps on the breach state in Redis (a
\* read, a decision, a write) are then not interleaved with another's.
OneMessageAtATime == ~late => \A g, h \in handlers : g = h

\* A message is in the queue, unsettled at the broker, dead-lettered, completed
\* by a handler, or in the hands of one.
IsKept(m) ==
    \/ m \in ready \union dlq \union handled \union UnsettledMessages
    \/ \E h \in handlers : h.msg = m

\* "A failing consumer quarantines a message instead of dropping it"
\* (README.md:196), whatever handlers do: no settlement removes a message that
\* its handler was not given.
NoEventIsLost == \A m \in 1 .. published : IsKept(m)

\* No message vanishes as long as no handler was late.
NoMessageVanishes == ~late => NoEventIsLost

\* The prefetch slot never leaks, late handlers or not: a delivery the broker
\* waits on belongs to a handler still in progress on this very connection.  A
\* slot without one would stop the queue for good, connected and silent.
SlotIsOwned ==
    \A d \in unacked : [gen |-> link, tag |-> d.tag, msg |-> d.msg] \in handlers

\* No handler starts on a message before each earlier one is completed or
\* dead-lettered, through outages, crashes and redeliveries, as long as none was
\* late: episodes of a breach are computed from the readings in their order of
\* publication.
NoOvertaking ==
    ~late => \A h \in handlers : \A m \in 1 .. (h.msg - 1) : m \in dlq \union handled

\* Every message published is completed by a handler or dead-lettered in the
\* end, whatever connections and processes failed on the way.  Late handlers
\* may lose one, but not block the queue: no exchange of wrong settlements and
\* channel errors goes on for ever.
EveryMessageIsSettled ==
    \A m \in Messages :
        published >= m ~>
            \/ m \in dlq \union handled
            \/ late /\ m \notin ready \union UnsettledMessages

=============================================================================
