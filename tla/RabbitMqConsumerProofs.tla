----------------------- MODULE RabbitMqConsumerProofs -----------------------
(***************************************************************************)
(* What prefetch(1) buys as long as every handler ends within the          *)
(* reconnect backoff, for every number of messages, outages and crashes:   *)
(* one handler at a time, no message lost, no message overtaken.           *)
(***************************************************************************)
EXTENDS RabbitMqConsumer, TLAPS

\* The channel object of the service and the connection open at the broker.
ChannelInv ==
    /\ link # 0 => channel = link
    /\ link \in 0 .. epoch
    /\ link = 0 => unacked = {}

\* On an open connection a handler's delivery is the one it was started for.
HandlersOwnTheirDelivery ==
    link # 0 => \A h \in handlers :
        h.gen = link /\ [tag |-> h.tag, msg |-> h.msg] \in unacked

\* NoEventIsLost without its way out for messages in a handler's hands.
MessagesAreKept ==
    \A m \in 1 .. published :
        m \in ready \union dlq \union handled \union UnsettledMessages

\* Every message the broker or a handler holds has been published.
HeldArePublished ==
    /\ ready \subseteq 1 .. published
    /\ \A d \in unacked : d.msg \in 1 .. published

\* OneMessageAtATime and NoOvertaking, of handlers none of which was late.
OneHandler == \A g, h \in handlers : g = h
InOrderSoFar ==
    \A h \in handlers : \A m \in 1 .. (h.msg - 1) : m \in dlq \union handled

-----------------------------------------------------------------------------

\* What a lost connection gives back to the queue are messages.
LEMMA UnsettledAreMessages ==
    ASSUME TypeOK PROVE UnsettledMessages \subseteq Messages
BY DEF TypeOK, UnsettledMessages, Deliveries

\* The types hold whatever handlers do: this needs no assumption on them.
LEMMA TypeStep == ASSUME TypeOK, [Next]_vars PROVE TypeOK'
<1>0. UnsettledMessages \subseteq Messages
  BY UnsettledAreMessages
<1> USE BoundsAssumption DEF TypeOK, Messages, Deliveries, HandlerRuns
<1>1. CASE Publish
  BY <1>1 DEF Publish, serviceVars, boundVars
<1>2. CASE Deliver
  <2>1. PICK m \in ready :
          /\ unacked' = unacked \union {[tag |-> lastTag + 1, msg |-> m]}
          /\ handlers' = handlers \union
                {[gen |-> link, tag |-> lastTag + 1, msg |-> m]}
          /\ ready' = ready \ {m}
    BY <1>2 DEF Deliver
  <2> QED BY <1>2, <2>1 DEF Deliver, boundVars
<1>3. CASE ConnectionLost
  BY <1>3, <1>0 DEF ConnectionLost, Requeue, serviceVars
<1>4. CASE HandleClose
  BY <1>4 DEF HandleClose, brokerVars, boundVars
<1>5. CASE Reconnect
  BY <1>5 DEF Reconnect, boundVars
<1>6. CASE HandlerEnds
  <2>1. PICK h \in handlers, ok \in BOOLEAN : Settle(h, ok)
    BY <1>6 DEF HandlerEnds
  <2>2. h.msg \in 1 .. MaxMessages
    OBVIOUS
  <2>3. handlers' \subseteq HandlerRuns /\ handled' \subseteq Messages
        /\ epoch' = epoch /\ channel' = channel
        /\ late' = late /\ outages' = outages /\ crashes' = crashes
    BY <2>1, <2>2 DEF Settle, boundVars
  <2>4. CASE SettlementLost(h)
    BY <2>3, <2>4 DEF SettlementLost, brokerVars
  <2>5. CASE SettlementTaken(h, ok)
    BY <2>3, <2>5 DEF SettlementTaken, Settles
  <2>6. CASE SettlementRefused(h)
    BY <2>3, <2>6, <1>0 DEF SettlementRefused, Requeue
  <2> QED BY <2>1, <2>4, <2>5, <2>6 DEF Settle
<1>7. CASE Crash
  BY <1>7, <1>0 DEF Crash, Requeue
<1>8. CASE UNCHANGED vars
  BY <1>8 DEF vars, brokerVars, serviceVars, boundVars
<1> QED
  BY <1>1, <1>2, <1>3, <1>4, <1>5, <1>6, <1>7, <1>8 DEF Next, Rest

\* The first state has the right types.
LEMMA TypesAtFirst == Init => TypeOK
<1>1. Init => late \in BOOLEAN
  BY Zenon DEF Init
<1> QED BY <1>1, BoundsAssumption DEF Init, TypeOK

\* Types are right in every reachable state, late handlers or not.
THEOREM TypeCorrect == Spec => []TypeOK
BY TypesAtFirst, TypeStep, PTL DEF Spec

-----------------------------------------------------------------------------

\* The part of the invariant that is not about types.
SafeInv ==
    /\ ChannelInv /\ HeldArePublished
    /\ OneHandler /\ SlotIsOwned /\ HandlersOwnTheirDelivery
    /\ MessagesAreKept /\ InOrderSoFar

\* The broker taking back a connection's deliveries: a lost connection (ended
\* by the network or by a refused settlement) and, with no handler left, a
\* crash of the process.
LEMMA RequeueStep ==
    ASSUME TypeOK, SafeInv, Requeue,
           handlers' \subseteq handlers, handled \subseteq handled',
           published' = published, dlq' = dlq, epoch' = epoch
    PROVE  SafeInv'
<1> USE DEF SafeInv, TypeOK, Requeue
<1>1. UnsettledMessages \subseteq 1 .. published
  BY DEF HeldArePublished, UnsettledMessages
<1>2. ChannelInv'
  BY DEF ChannelInv
<1>3. HeldArePublished'
  BY <1>1 DEF HeldArePublished
<1>4. OneHandler' /\ SlotIsOwned' /\ HandlersOwnTheirDelivery'
  BY DEF OneHandler, SlotIsOwned, HandlersOwnTheirDelivery
<1>5. MessagesAreKept'
  BY DEF MessagesAreKept
<1>6. InOrderSoFar'
  BY DEF InOrderSoFar
<1> QED BY <1>2, <1>3, <1>4, <1>5, <1>6

\* A delivery: the slot it takes was free, so no handler was in progress.
LEMMA DeliverStep ==
    ASSUME TypeOK, SafeInv, Deliver PROVE SafeInv'
<1> USE DEF SafeInv
<1> DEFINE d(m) == [tag |-> lastTag + 1, msg |-> m]
           h(m) == [gen |-> link, tag |-> lastTag + 1, msg |-> m]
<1>1. PICK m \in ready :
        /\ AtHead(m)
        /\ ready' = ready \ {m}
        /\ unacked' = unacked \union {d(m)}
        /\ handlers' = handlers \union {h(m)}
  BY DEF Deliver
<1>2. unacked = {} /\ link # 0 /\ handlers = {}
  BY DEF Deliver, PrefetchAllows, HandlersOwnTheirDelivery
<1>3. unacked' = {d(m)} /\ handlers' = {h(m)}
  BY <1>1, <1>2
<1>4. /\ published' = published /\ dlq' = dlq /\ handled' = handled
      /\ link' = link /\ channel' = channel /\ epoch' = epoch
  BY DEF Deliver
<1>5. m \in 1 .. published
  BY <1>1 DEF HeldArePublished
<1>6. ChannelInv'
  BY <1>2, <1>4 DEF ChannelInv
<1>7. HeldArePublished'
  BY <1>1, <1>3, <1>4, <1>5 DEF HeldArePublished
<1>8. OneHandler'
  BY <1>3 DEF OneHandler
<1>9. SlotIsOwned' /\ HandlersOwnTheirDelivery'
  BY <1>3, <1>4 DEF SlotIsOwned, HandlersOwnTheirDelivery
<1>10. MessagesAreKept'
  <2>1. UnsettledMessages' = {m} /\ UnsettledMessages = {}
    BY <1>2, <1>3 DEF UnsettledMessages
  <2> QED BY <1>1, <1>4, <2>1 DEF MessagesAreKept
<1>11. InOrderSoFar'
  <2>1. \A n \in 1 .. (m - 1) : n \notin ready /\ n \in 1 .. published
    BY <1>1, <1>5 DEF AtHead, TypeOK, Messages
  <2>2. \A n \in 1 .. (m - 1) : n \in dlq \union handled
    BY <1>2, <2>1 DEF MessagesAreKept, UnsettledMessages
  <2> QED BY <1>3, <1>4, <2>2 DEF InOrderSoFar
<1> QED BY <1>6, <1>7, <1>8, <1>9, <1>10, <1>11

\* A settlement is of the handler's own message, or goes nowhere.
LEMMA OwnSettlement ==
    ASSUME SafeInv, NEW h \in handlers, NEW ok \in BOOLEAN, Settle(h, ok)
    PROVE  /\ handlers = {h} /\ handlers' = {}
           /\ link' = link /\ ready' = ready /\ published' = published
           /\ handled' = IF ok THEN handled \union {h.msg} ELSE handled
           /\ dlq \subseteq dlq'
           /\ link # 0 => handled' \union dlq' = handled \union dlq \union {h.msg}
<1> USE DEF SafeInv
<1>1. /\ handlers = {h} /\ handlers' = {}
      /\ handled' = IF ok THEN handled \union {h.msg} ELSE handled
  BY DEF OneHandler, Settle
<1>2. CASE link = 0
  BY <1>1, <1>2
     DEF Settle, SettlementLost, SettlementTaken, SettlementRefused, brokerVars
<1>3. CASE link # 0
  <2>1. Settles(h) # {} /\ \A d \in Settles(h) : d.msg = h.msg
    BY <1>1, <1>3 DEF HandlersOwnTheirDelivery, SlotIsOwned, Settles
  <2>2. {d.msg : d \in Settles(h)} = {h.msg}
    BY <2>1
  <2>3. SettlementTaken(h, ok)
    BY <1>3, <2>1 DEF Settle, SettlementLost, SettlementRefused
  <2>4. /\ link' = link /\ ready' = ready /\ published' = published
        /\ dlq' = IF ok THEN dlq ELSE dlq \union {h.msg}
    BY <2>2, <2>3 DEF SettlementTaken
  <2> QED BY <1>1, <2>4
<1> QED BY <1>2, <1>3

\* The one handler in progress settles its own delivery, or none at all.
LEMMA SettleStep ==
    ASSUME TypeOK, SafeInv, NEW h \in handlers, NEW ok \in BOOLEAN,
           Settle(h, ok)
    PROVE  SafeInv'
<1> USE DEF SafeInv
<1>1. /\ handlers' = {} /\ handlers = {h}
      /\ handled \subseteq handled' /\ epoch' = epoch /\ channel' = channel
  BY DEF Settle, OneHandler
<1>2. CASE SettlementRefused(h)
  BY <1>1, <1>2, RequeueStep DEF SettlementRefused
<1>3. CASE SettlementLost(h)
  <2>1. /\ published' = published /\ ready' = ready /\ unacked' = unacked
        /\ dlq' = dlq /\ link' = link /\ unacked = {} /\ link = 0
    BY <1>3 DEF SettlementLost, brokerVars, ChannelInv
  <2>2. UnsettledMessages' = UnsettledMessages
    BY <2>1 DEF UnsettledMessages
  <2> QED
    BY <1>1, <2>1, <2>2 DEF ChannelInv, HeldArePublished, OneHandler,
       SlotIsOwned, HandlersOwnTheirDelivery, MessagesAreKept, InOrderSoFar
<1>4. CASE SettlementTaken(h, ok)
  <2>1. /\ published' = published /\ ready' = ready /\ link' = link
        /\ unacked' = unacked \ Settles(h) /\ link # 0
        /\ dlq' = IF ok THEN dlq ELSE dlq \union {d.msg : d \in Settles(h)}
    BY <1>4 DEF SettlementTaken
  <2>2. /\ unacked = {[tag |-> h.tag, msg |-> h.msg]}
        /\ Settles(h) = unacked
    <3>1. [tag |-> h.tag, msg |-> h.msg] \in unacked
      BY <2>1 DEF HandlersOwnTheirDelivery
    <3>2. ASSUME NEW d \in unacked
          PROVE  d = [tag |-> h.tag, msg |-> h.msg]
      <4>1. h = [gen |-> link, tag |-> d.tag, msg |-> d.msg]
        BY <1>1 DEF SlotIsOwned
      <4>2. d = [tag |-> d.tag, msg |-> d.msg]
        BY DEF TypeOK, Deliveries
      <4> QED BY <4>1, <4>2
    <3> QED BY <3>1, <3>2 DEF Settles
  <2>3. unacked' = {} /\ {d.msg : d \in Settles(h)} = {h.msg}
        /\ UnsettledMessages = {h.msg}
    BY <2>1, <2>2 DEF UnsettledMessages
  <2>4. h.msg \in dlq' \union handled'
    BY <2>1, <2>3 DEF Settle
  <2>5. MessagesAreKept'
    BY <1>1, <2>1, <2>3, <2>4 DEF MessagesAreKept
  <2> QED
    BY <1>1, <2>1, <2>3, <2>5 DEF ChannelInv, HeldArePublished,
       OneHandler, SlotIsOwned, HandlersOwnTheirDelivery, InOrderSoFar
<1> QED BY <1>2, <1>3, <1>4 DEF Settle

\* Every step after which no handler has been late keeps the invariant.
LEMMA SafeStep ==
    ASSUME TypeOK, SafeInv, [Next]_vars, ~late'
    PROVE  SafeInv'
<1> USE DEF SafeInv
<1>1. CASE Publish
  <2>1. /\ published' = published + 1 /\ ready' = ready \union {published + 1}
        /\ unacked' = unacked /\ dlq' = dlq /\ handled' = handled
        /\ link' = link /\ handlers' = handlers /\ channel' = channel
        /\ epoch' = epoch /\ UnsettledMessages' = UnsettledMessages
    BY <1>1 DEF Publish, serviceVars, UnsettledMessages
  <2>2. published \in Nat
    BY BoundsAssumption DEF TypeOK
  <2>3. MessagesAreKept' /\ HeldArePublished'
    BY <2>1, <2>2 DEF MessagesAreKept, HeldArePublished
  <2> QED
    BY <2>1, <2>3 DEF ChannelInv, OneHandler, SlotIsOwned,
       HandlersOwnTheirDelivery, InOrderSoFar
<1>2. CASE Deliver
  BY <1>2, DeliverStep
<1>3. CASE ConnectionLost
  BY <1>3, RequeueStep DEF ConnectionLost, serviceVars
<1>4. CASE HandleClose
  <2>1. /\ link = 0 /\ link' = link /\ published' = published
        /\ ready' = ready /\ unacked' = unacked /\ dlq' = dlq
        /\ epoch' = epoch /\ handlers' = handlers /\ handled' = handled
    BY <1>4 DEF HandleClose, brokerVars
  <2> QED
    BY <2>1 DEF ChannelInv, HeldArePublished, OneHandler, SlotIsOwned,
       HandlersOwnTheirDelivery, MessagesAreKept, InOrderSoFar,
       UnsettledMessages
<1>5. CASE Reconnect
  <2>1. /\ handlers = {} /\ handlers' = {} /\ link = 0
        /\ link' = epoch + 1 /\ channel' = epoch + 1 /\ epoch' = epoch + 1
        /\ published' = published /\ ready' = ready /\ unacked' = unacked
        /\ dlq' = dlq /\ handled' = handled
    BY <1>5 DEF Reconnect, TypeOK
  <2>2. unacked = {}
    BY <2>1 DEF ChannelInv
  <2> QED
    BY <2>1, <2>2 DEF ChannelInv, HeldArePublished, OneHandler, TypeOK,
       SlotIsOwned, HandlersOwnTheirDelivery, MessagesAreKept, InOrderSoFar,
       UnsettledMessages
<1>6. CASE HandlerEnds
  BY <1>6, SettleStep DEF HandlerEnds
<1>7. CASE Crash
  BY <1>7, RequeueStep DEF Crash
<1>8. CASE UNCHANGED vars
  BY <1>8 DEF vars, brokerVars, serviceVars, ChannelInv, HeldArePublished,
     OneHandler, SlotIsOwned, HandlersOwnTheirDelivery,
     MessagesAreKept, InOrderSoFar, UnsettledMessages
<1> QED
  BY <1>1, <1>2, <1>3, <1>4, <1>5, <1>6, <1>7, <1>8 DEF Next, Rest

\* No step forgets that a handler was late.
LEMMA LateForGood == ASSUME [Next]_vars PROVE late => late'
<1>1. CASE Reconnect
  BY <1>1, Zenon DEF Reconnect
<1>2. CASE ~Reconnect
  <2>1. late' = late
    BY <1>2 DEF Next, Publish, Deliver, ConnectionLost, HandleClose,
       HandlerEnds, Settle, Crash, Rest, vars
  <2> QED BY <2>1
<1> QED BY <1>1, <1>2

\* The invariant of which the three theorems below are parts.
LEMMA SafeInvariant == Spec => [](TypeOK /\ (~late => SafeInv))
<1>1. Init => TypeOK /\ SafeInv
  BY TypesAtFirst, BoundsAssumption DEF Init, SafeInv, ChannelInv,
     HeldArePublished, OneHandler, SlotIsOwned, HandlersOwnTheirDelivery,
     MessagesAreKept, InOrderSoFar
<1>2. TypeOK /\ (~late => SafeInv) /\ [Next]_vars
        => TypeOK' /\ (~late' => SafeInv')
  BY TypeStep, SafeStep, LateForGood
<1> QED BY <1>1, <1>2, PTL DEF Spec

\* As long as handlers end within the reconnect backoff, prefetch(1) does give
\* one handler at a time, across every outage, crash and redelivery.
THEOREM OneAtATime == Spec => []OneMessageAtATime
<1>1. (~late => SafeInv) => OneMessageAtATime
  BY DEF SafeInv, OneHandler, OneMessageAtATime
<1> QED BY <1>1, SafeInvariant, PTL

\* Until then no message is lost: a message leaves the broker only completed or
\* dead-lettered.
THEOREM NothingVanishes == Spec => []NoMessageVanishes
<1>1. (~late => SafeInv) => NoMessageVanishes
  BY DEF SafeInv, MessagesAreKept, NoMessageVanishes, NoEventIsLost, IsKept
<1> QED BY <1>1, SafeInvariant, PTL

\* Until then handlers start on messages in their order of publication,
\* redelivered ones included.
THEOREM InOrder == Spec => []NoOvertaking
<1>1. (~late => SafeInv) => NoOvertaking
  BY DEF SafeInv, InOrderSoFar, NoOvertaking
<1> QED BY <1>1, SafeInvariant, PTL

-----------------------------------------------------------------------------

\* The broker waits on nothing when no connection is open.
NothingUnackedOffline == link = 0 => unacked = {}

\* The prefetch slot never leaks, however late handlers settle and whatever
\* deliveries their acks and nacks hit.
THEOREM SlotNeverLeaks == Spec => []SlotIsOwned
<1> DEFINE Inv == NothingUnackedOffline /\ SlotIsOwned
<1> USE DEF NothingUnackedOffline, SlotIsOwned
<1>1. Init => Inv
  BY DEF Init
<1>2. TypeOK /\ Inv /\ [Next]_vars => Inv'
  <2> SUFFICES ASSUME TypeOK, Inv, [Next]_vars PROVE Inv'
    OBVIOUS
  <2>1. CASE Deliver
    BY <2>1 DEF Deliver, PrefetchAllows
  <2>2. CASE Reconnect
    BY <2>2 DEF Reconnect
  <2>3. CASE HandlerEnds
    <3>1. PICK h \in handlers, ok \in BOOLEAN : Settle(h, ok)
      BY <2>3 DEF HandlerEnds
    <3>2. handlers' = handlers \ {h}
      BY <3>1 DEF Settle
    <3>3. CASE SettlementTaken(h, ok)
      <4>1. link' = link /\ link # 0 /\ unacked' = unacked \ Settles(h)
        BY <3>3 DEF SettlementTaken
      <4>2. ASSUME NEW d \in unacked, d \notin Settles(h)
            PROVE  [gen |-> link, tag |-> d.tag, msg |-> d.msg] # h
        BY <4>2 DEF Settles
      <4> QED BY <3>2, <4>1, <4>2
    <3> QED
      BY <3>1, <3>2, <3>3
      DEF Settle, SettlementLost, SettlementRefused, Requeue, brokerVars
  <2>4. CASE UNCHANGED vars
    BY <2>4 DEF vars, brokerVars, serviceVars
  <2> QED
    BY <2>1, <2>2, <2>3, <2>4 DEF Next, Rest, Publish, ConnectionLost,
       HandleClose, Crash, Requeue, brokerVars, serviceVars
<1>3. Inv => SlotIsOwned
  OBVIOUS
<1> QED BY <1>1, <1>2, <1>3, TypeCorrect, PTL DEF Spec

=============================================================================
