-------------------------- MODULE RuleEngineProofs --------------------------
(***************************************************************************)
(* The rule engine for all rules, devices and readings, whatever outages,  *)
(* crashes and Redis failures come: it is a consumer of its queue in the   *)
(* sense of RabbitMqConsumer, no alert is of a transient spike, an episode *)
(* alerts once unless a crash or Redis undoes the record, and a breach     *)
(* that lasts alerts unless the connection or Redis fails.  Where nothing  *)
(* fails the rule engine implements AlertEpisodes.                         *)
(***************************************************************************)
EXTENDS RuleEngine, TLAPS, FiniteSetTheorems

QueueProofs == INSTANCE RabbitMqConsumerProofs

-----------------------------------------------------------------------------
(* The service implements its queue.                                       *)

\* A handler is completed or it is not.
LEMMA SettledEitherWay ==
    ASSUME NEW h, Queue!Settle(h, Handled(h))
    PROVE  \E ok \in BOOLEAN : Queue!Settle(h, ok) /\ (ok <=> Handled(h))
<1>1. CASE Handled(h)
  <2>1. Queue!Settle(h, TRUE)
    BY <1>1 DEF Queue!Settle, Queue!SettlementTaken
  <2> QED BY <1>1, <2>1
<1>2. CASE ~Handled(h)
  <2>1. Queue!Settle(h, FALSE)
    BY <1>2 DEF Queue!Settle, Queue!SettlementTaken
  <2> QED BY <1>2, <2>1
<1> QED BY <1>1, <1>2

\* A step of the service is one of the queue, or leaves the queue alone.
LEMMA StepOfQueue == [Next]_vars => [Queue!Next]_Queue!vars
<1> SUFFICES ASSUME [Next]_vars PROVE [Queue!Next]_Queue!vars
  OBVIOUS
<1> USE DEF Queue!Next
<1>1. ASSUME UNCHANGED queueVars PROVE UNCHANGED Queue!vars
  BY <1>1 DEF queueVars, Queue!vars, Queue!brokerVars, Queue!serviceVars,
     Queue!boundVars
<1>2. ASSUME NEW h \in handlers, Evaluate(h) \/ RedisFails(h) PROVE UNCHANGED queueVars
  BY <1>2 DEF Evaluate, Clear, Decide, Store, RedisFails
<1>3. CASE HandlerEnds
  <2>1. PICK h \in handlers : Queue!Settle(h, Handled(h))
    BY <1>3 DEF HandlerEnds
  <2>2. \E ok \in BOOLEAN : Queue!Settle(h, ok)
    BY <2>1, SettledEitherWay
  <2> QED BY <2>2 DEF Queue!HandlerEnds
<1>4. ASSUME NEW reading \in Readings, Publish(reading) PROVE Queue!Publish
  BY <1>4 DEF Publish
<1>5. CASE Deliver \/ Connectivity \/ Crash \/ Rest
  BY <1>5 DEF Deliver, Connectivity, Crash, Rest
<1>6. CASE UNCHANGED vars
  BY <1>1, <1>6 DEF vars
<1> QED BY <1>1, <1>2, <1>3, <1>4, <1>5, <1>6 DEF Next

\* The rule engine consumes its queue as RabbitMqConsumer has it.
THEOREM ConsumesItsQueue == Spec => Queue!Spec
<1>1. Init => Queue!Init
  BY DEF Init
<1> QED BY <1>1, StepOfQueue, PTL DEF Spec, Queue!Spec

\* Handlers being over within the backoff, none is late.
LEMMA NeverLate == Spec => []~late
<1>1. Init => ~late
  BY DEF Init, Queue!Init
<1>2. ASSUME ~late, [Next]_vars PROVE ~late'
  <2>1. CASE Connectivity
    <3>1. CASE Queue!Reconnect /\ BackoffOutlastsHandlers
      BY <1>2, <3>1, Zenon DEF Queue!Reconnect, BackoffOutlastsHandlers
    <3> QED
      BY <1>2, <2>1, <3>1 DEF Connectivity, Queue!ConnectionLost, Queue!HandleClose
  <2>2. CASE UNCHANGED late
    BY <1>2, <2>2
  <2> QED
    BY <1>2, <2>1, <2>2
       DEF Next, Publish, Deliver, HandlerEnds, Crash, Rest, Evaluate, Clear, Decide,
           Store, RedisFails, vars, queueVars, Queue!Publish, Queue!Deliver,
           Queue!Crash, Queue!Settle
<1> QED BY <1>1, <1>2, PTL DEF Spec

\* What RabbitMqConsumerProofs shows of a queue holds of this one.
QueueInv == QueueProofs!TypeOK /\ QueueProofs!SafeInv

LEMMA QueueIsSafe == Spec => []QueueInv
<1>1. Queue!Init <=> QueueProofs!Init
  BY DEF Queue!Init, QueueProofs!Init
<1>2. [Queue!Next]_Queue!vars <=> [QueueProofs!Next]_QueueProofs!vars
  BY Zenon
     DEF Queue!brokerVars, QueueProofs!brokerVars, Queue!serviceVars,
         QueueProofs!serviceVars, Queue!boundVars,
         QueueProofs!boundVars, Queue!vars, QueueProofs!vars,
         Queue!Messages, QueueProofs!Messages, Queue!Publish,
         QueueProofs!Publish, Queue!PrefetchAllows,
         QueueProofs!PrefetchAllows, Queue!AtHead, QueueProofs!AtHead,
         Queue!Deliver, QueueProofs!Deliver, Queue!UnsettledMessages,
         QueueProofs!UnsettledMessages, Queue!Requeue,
         QueueProofs!Requeue, Queue!ConnectionLost,
         QueueProofs!ConnectionLost, Queue!HandleClose,
         QueueProofs!HandleClose, Queue!Reconnect,
         QueueProofs!Reconnect, Queue!Settles, QueueProofs!Settles,
         Queue!SettlementLost, QueueProofs!SettlementLost,
         Queue!SettlementTaken, QueueProofs!SettlementTaken,
         Queue!SettlementRefused, QueueProofs!SettlementRefused,
         Queue!Settle, QueueProofs!Settle, Queue!HandlerEnds,
         QueueProofs!HandlerEnds, Queue!Crash, QueueProofs!Crash,
         Queue!Quiescent, QueueProofs!Quiescent, Queue!Rest,
         QueueProofs!Rest, Queue!Next, QueueProofs!Next
<1>3. QueueProofs!Spec
        => [](QueueProofs!TypeOK /\ (~late => QueueProofs!SafeInv))
  BY EngineAssumption, QueueProofs!SafeInvariant
<1> QED
  BY <1>1, <1>2, <1>3, ConsumesItsQueue, NeverLate, PTL
     DEF Queue!Spec, QueueProofs!Spec, QueueInv

\* A handler in progress is the only one, and settles its own message.
LEMMA OneHandler == ASSUME QueueInv, NEW h \in handlers PROVE handlers = {h}
BY DEF QueueInv, QueueProofs!SafeInv, QueueProofs!OneHandler

LEMMA SettlesItsOwn ==
    ASSUME QueueInv, NEW h \in handlers, NEW ok \in BOOLEAN, Queue!Settle(h, ok)
    PROVE  /\ handlers' = {} /\ handlers = {h}
           /\ ready' = ready /\ published' = published /\ dlq \subseteq dlq'
           /\ handled' = IF ok THEN handled \union {h.msg} ELSE handled
<1>1. QueueProofs!Settle(h, ok)
  BY Zenon
     DEF Queue!Settle, QueueProofs!Settle, Queue!Settles,
         QueueProofs!Settles, Queue!SettlementLost,
         QueueProofs!SettlementLost, Queue!SettlementTaken,
         QueueProofs!SettlementTaken, Queue!SettlementRefused,
         QueueProofs!SettlementRefused, Queue!Requeue,
         QueueProofs!Requeue, Queue!UnsettledMessages,
         QueueProofs!UnsettledMessages, Queue!brokerVars,
         QueueProofs!brokerVars, Queue!boundVars, QueueProofs!boundVars
<1> QED BY <1>1, EngineAssumption, QueueProofs!OwnSettlement DEF QueueInv

\* A delivery comes when no handler is in progress.
LEMMA DeliveryIsAlone ==
    ASSUME QueueInv, Queue!Deliver
    PROVE  /\ handlers = {} /\ published' = published /\ handled' = handled
           /\ dlq' = dlq
           /\ \E m \in ready, g \in Queue!HandlerRuns :
                 /\ g.msg = m /\ handlers' = {g} /\ ready' = ready \ {m}
                 /\ \A n \in ready : m <= n
<1>1. /\ published' = published /\ handled' = handled /\ dlq' = dlq
      /\ link # 0 /\ unacked = {}
  BY DEF Queue!Deliver, Queue!boundVars, Queue!PrefetchAllows
<1>2. handlers = {}
  BY <1>1 DEF QueueInv, QueueProofs!SafeInv, QueueProofs!HandlersOwnTheirDelivery
<1>3. PICK m \in ready :
          /\ Queue!AtHead(m) /\ ready' = ready \ {m}
          /\ handlers' = handlers \union
                 {[gen |-> link, tag |-> lastTag + 1, msg |-> m]}
  BY DEF Queue!Deliver
<1> DEFINE g == [gen |-> link, tag |-> lastTag + 1, msg |-> m]
<1>4. g \in Queue!HandlerRuns /\ g.msg = m
  <2>1. link \in Nat /\ lastTag \in Nat /\ m \in Queue!Messages
    BY DEF Queue!Messages, QueueInv, QueueProofs!TypeOK, QueueProofs!Messages
  <2> QED BY <2>1 DEF Queue!HandlerRuns
<1> QED BY <1>1, <1>2, <1>3, <1>4 DEF Queue!AtHead

\* What is requeued are messages of handlers.
LEMMA RequeuedAreHandlers ==
    ASSUME QueueInv, NEW n \in Queue!UnsettledMessages
    PROVE  \E h \in handlers : h.msg = n
<1>1. PICK d \in unacked : n = d.msg
  BY DEF Queue!UnsettledMessages
<1>2. [gen |-> link, tag |-> d.tag, msg |-> d.msg] \in handlers
  BY DEF QueueInv, QueueProofs!SafeInv, QueueProofs!SlotIsOwned
<1> QED BY <1>1, <1>2

-----------------------------------------------------------------------------
(* The invariant.                                                          *)

Times == {reading.timestamp : reading \in Readings}
Steps == {"evaluate", "store", "failed"}

\* The log and the locals of the handler, whose command is the one in the
\* pipeline.
LocalsInv ==
    /\ readings \in Seq(Readings) /\ Len(readings) = published
    /\ DOMAIN progress = handlers
    /\ \A h \in handlers :
          /\ h.msg \in 1 .. published
          /\ progress[h] \in [rule : 1 .. Len(Rules) + 1, step : Steps,
                              state : BreachStates \union {NoState}]
          /\ progress[h].step # "evaluate" => progress[h].rule \in RuleIndices
          /\ pipeline = IF progress[h].step = "failed" THEN << >>
                        ELSE Issue(h, progress[h])
    /\ handlers = {} => pipeline = << >>
    /\ redis \in [Keys -> BreachStates \union {NoState}]
    /\ redisFailures \in 0 .. MaxRedisFailures

\* What is completed lies before what a handler has, and that before what is
\* queued (or is queued again itself).
FrontierInv ==
    /\ handled \subseteq 1 .. published
    /\ \A k \in handled :
          /\ \A n \in ready : k <= n
          /\ \A h \in handlers : k <= h.msg
    /\ \A h \in handlers, n \in ready : h.msg <= n

\* A breach of rule r that device d entered at time start: some reading, not
\* behind any still to be evaluated, entered it, and none completed since ends it.
Justified(r, d, start) ==
    \E j \in 1 .. published :
        /\ readings[j].device = d /\ readings[j].timestamp = start
        /\ Breaching(r, readings[j])
        /\ \A n \in ready : j <= n
        /\ \A h \in handlers : j <= h.msg
        /\ \A k \in handled \ dlq :
              j <= k /\ readings[k].device = d => Breaching(r, readings[k])

\* The states in Redis, and the one a handler is about to store.
EpisodesInv ==
    /\ \A r \in RuleIndices, d \in Devices :
          redis[<<r, d>>] # NoState => Justified(r, d, redis[<<r, d>>].breachStart)
    /\ \A h \in handlers :
          progress[h].state # NoState =>
              /\ Breaching(progress[h].rule, Reading(h))
              /\ Justified(progress[h].rule, Reading(h).device,
                           progress[h].state.breachStart)

\* A handler past a rule has cleared its state, or the reading breaches it.
PastInv ==
    \A h \in handlers, r \in RuleIndices :
        r < progress[h].rule =>
            Breaching(r, Reading(h)) \/ redis[<<r, Reading(h).device>>] = NoState

\* The alert of message m under rule r is not of a spike.
GoodAlert(r, m) ==
    /\ r \in RuleIndices /\ m \in 1 .. published
    /\ \E j \in 1 .. m : SameEpisode(r, j, m) /\ Lasts(r, j, m)

AlertsInv == \A i \in DOMAIN alerts : GoodAlert(alerts[i].rule, alerts[i].msg)

EngineInv ==
    LocalsInv /\ FrontierInv /\ EpisodesInv /\ PastInv
    /\ alerts \in Seq([rule : RuleIndices, msg : Nat]) /\ AlertsInv

-----------------------------------------------------------------------------
(* What the log's growth leaves alone.                                     *)

LogKept ==
    /\ published \in Nat /\ published' \in Nat /\ published <= published'
    /\ \A k \in 1 .. published : readings'[k] = readings[k]
    /\ dlq \subseteq dlq'

\* An alert that was good stays so.
LEMMA GoodAlertKept ==
    ASSUME LogKept, NEW r, NEW m, GoodAlert(r, m) PROVE GoodAlert(r, m)'
<1>1. PICK j \in 1 .. m : SameEpisode(r, j, m) /\ Lasts(r, j, m)
  BY DEF GoodAlert
<1>2. m \in 1 .. published /\ m \in 1 .. published' /\ r \in RuleIndices
  BY DEF GoodAlert, LogKept
<1>3. /\ readings'[j] = readings[j] /\ readings'[m] = readings[m]
      /\ \A k \in j .. m : readings'[k] = readings[k]
  BY <1>2 DEF LogKept
<1>4. SameEpisode(r, j, m)' /\ Lasts(r, j, m)'
  BY <1>1, <1>3 DEF SameEpisode, Lasts, LogKept
<1> QED BY <1>2, <1>4 DEF GoodAlert

LEMMA AlertsKept ==
    ASSUME LogKept, AlertsInv, alerts' = alerts PROVE AlertsInv'
BY GoodAlertKept DEF AlertsInv

\* A breach stays one as messages move between queue and handlers.
LEMMA JustifiedKept ==
    ASSUME LogKept, NEW r, NEW d, NEW start, Justified(r, d, start),
           handled \subseteq 1 .. published,
           \A n \in ready' :
               n \in ready \/ n = published + 1 \/ \E h \in handlers : n = h.msg,
           \A g \in handlers' : g.msg \in ready \/ g \in handlers,
           \A k \in handled' :
               \/ k \in handled
               \/ /\ k \in 1 .. published
                  /\ readings[k].device = d => Breaching(r, readings[k])
    PROVE  Justified(r, d, start)'
<1>1. PICK j \in 1 .. published :
        /\ readings[j].device = d /\ readings[j].timestamp = start
        /\ Breaching(r, readings[j])
        /\ \A n \in ready : j <= n
        /\ \A h \in handlers : j <= h.msg
        /\ \A k \in handled \ dlq :
              j <= k /\ readings[k].device = d => Breaching(r, readings[k])
  BY DEF Justified
<1>2. j \in 1 .. published' /\ readings'[j] = readings[j]
  BY DEF LogKept
<1>3. (\A n \in ready' : j <= n) /\ \A h \in handlers' : j <= h.msg
  BY <1>1 DEF LogKept
<1>4. \A k \in handled' \ dlq' :
          j <= k /\ readings'[k].device = d => Breaching(r, readings'[k])
  BY <1>1 DEF LogKept
<1> QED BY <1>1, <1>2, <1>3, <1>4 DEF Justified

LEMMA Basics ==
    ASSUME QueueInv, LocalsInv
    PROVE  /\ published \in Nat /\ ready \subseteq 1 .. published
           /\ RuleIndices = 1 .. Len(Rules) /\ Len(Rules) \in Nat
           /\ \A k \in 1 .. published : readings[k] \in Readings
           /\ \A h \in handlers : /\ Reading(h) = readings[h.msg]
                                  /\ Reading(h).device \in Devices
                                  /\ Reading(h).timestamp \in Times
                                  /\ Key(h) = <<progress[h].rule, Reading(h).device>>
<1>1. published \in Nat /\ ready \subseteq 1 .. published
  BY DEF QueueInv, QueueProofs!TypeOK, QueueProofs!SafeInv, QueueProofs!HeldArePublished
<1>2. RuleIndices = 1 .. Len(Rules) /\ Len(Rules) \in Nat
  <2>1. ASSUME NEW S, Rules \in Seq(S) PROVE DOMAIN Rules = 1 .. Len(Rules) /\ Len(Rules) \in Nat
    BY <2>1
  <2> QED BY <2>1, EngineAssumption DEF RuleIndices
<1>3. \A k \in 1 .. published : readings[k] \in Readings
  BY <1>1 DEF LocalsInv
<1>4. \A h \in handlers : h.msg \in 1 .. published
  BY DEF LocalsInv
<1> QED BY <1>1, <1>2, <1>3, <1>4, EngineAssumption DEF Reading, Key, Times

-----------------------------------------------------------------------------
(* The queue's steps.                                                      *)

\* A reading is published: it is behind all there is.
LEMMA PublishStep ==
    ASSUME QueueInv, EngineInv, NEW reading \in Readings, Publish(reading)
    PROVE  EngineInv'
<1> USE DEF EngineInv
<1>1. /\ published' = published + 1 /\ ready' = ready \union {published + 1}
      /\ dlq' = dlq /\ handlers' = handlers /\ handled' = handled
      /\ readings' = Append(readings, reading) /\ progress' = progress
      /\ pipeline' = pipeline /\ redis' = redis /\ alerts' = alerts
      /\ redisFailures' = redisFailures
  BY DEF Publish, engineVars, Queue!Publish, Queue!serviceVars
<1>2. /\ readings \in Seq(Readings) /\ Len(readings) = published
      /\ readings' \in Seq(Readings) /\ Len(readings') = published'
      /\ \A k \in 1 .. published : readings'[k] = readings[k]
  BY <1>1 DEF LocalsInv
<1>3. LogKept
  BY <1>1, <1>2, Basics DEF LogKept
<1>4. \A h \in handlers : Reading(h)' = Reading(h)
  BY <1>2 DEF Reading, LocalsInv
<1>5. ASSUME NEW r, NEW d, NEW start, Justified(r, d, start)
      PROVE  Justified(r, d, start)'
  BY <1>1, <1>3, <1>5, JustifiedKept DEF FrontierInv
<1>6. LocalsInv'
  BY <1>1, <1>2, Basics DEF LocalsInv, Issue
<1>7. FrontierInv'
  BY <1>1, Basics DEF FrontierInv, LocalsInv
<1>8. EpisodesInv'
  BY <1>1, <1>4, <1>5 DEF EpisodesInv
<1>9. PastInv'
  BY <1>1, <1>4 DEF PastInv
<1>10. AlertsInv'
  BY <1>1, <1>3, AlertsKept
<1> QED BY <1>1, <1>6, <1>7, <1>8, <1>9, <1>10

\* A delivery: the handler starts at the first rule.
LEMMA DeliverStep ==
    ASSUME QueueInv, EngineInv, Deliver PROVE EngineInv'
<1> USE DEF EngineInv
<1>1. PICK m \in ready, g \in Queue!HandlerRuns :
        /\ g.msg = m /\ handlers = {} /\ handlers' = {g} /\ ready' = ready \ {m}
        /\ \A n \in ready : m <= n
        /\ published' = published /\ handled' = handled /\ dlq' = dlq
  BY DeliveryIsAlone DEF Deliver
<1>2. /\ readings' = readings /\ redis' = redis /\ alerts' = alerts
      /\ redisFailures' = redisFailures
      /\ progress' = [h \in {g} |-> AtRule(1)]
      /\ pipeline' = pipeline \o Issue(g, AtRule(1))
  BY <1>1 DEF Deliver
<1>3. pipeline' = Issue(g, AtRule(1))
  BY <1>1, <1>2 DEF LocalsInv, Issue
<1>4. LogKept
  BY <1>1, <1>2, Basics DEF LogKept
<1>5. ASSUME NEW r, NEW d, NEW start, Justified(r, d, start)
      PROVE  Justified(r, d, start)'
  BY <1>1, <1>4, <1>5, JustifiedKept DEF FrontierInv
<1>6. LocalsInv'
  BY <1>1, <1>2, <1>3, Basics DEF LocalsInv, Issue, AtRule, Steps
<1>7. FrontierInv'
  BY <1>1 DEF FrontierInv
<1>8. EpisodesInv'
  BY <1>1, <1>2, <1>5 DEF EpisodesInv, AtRule
<1>9. PastInv'
  BY <1>1, <1>2, Basics DEF PastInv, AtRule
<1>10. AlertsInv'
  BY <1>2, <1>4, AlertsKept
<1> QED BY <1>2, <1>6, <1>7, <1>8, <1>9, <1>10

\* A connection lost or made: messages of handlers may be queued again.
LEMMA ConnectivityStep ==
    ASSUME QueueInv, EngineInv, Connectivity PROVE EngineInv'
<1> USE DEF EngineInv
<1>1. /\ published' = published /\ handled' = handled /\ dlq' = dlq
      /\ handlers' = handlers /\ ready' \subseteq ready \union Queue!UnsettledMessages
      /\ readings' = readings /\ progress' = progress /\ pipeline' = pipeline
      /\ redis' = redis /\ alerts' = alerts /\ redisFailures' = redisFailures
  BY DEF Connectivity, engineVars, Queue!ConnectionLost, Queue!HandleClose,
     Queue!Reconnect, Queue!Requeue, Queue!brokerVars, Queue!serviceVars
<1>2. \A n \in ready' : n \in ready \/ \E h \in handlers : n = h.msg
  BY <1>1, RequeuedAreHandlers
<1>3. LogKept
  BY <1>1, Basics DEF LogKept
<1>4. \A h \in handlers : Reading(h)' = Reading(h)
  BY <1>1 DEF Reading
<1>5. ASSUME NEW r, NEW d, NEW start, Justified(r, d, start)
      PROVE  Justified(r, d, start)'
  BY <1>1, <1>2, <1>3, <1>5, JustifiedKept DEF FrontierInv
<1>6. LocalsInv'
  BY <1>1 DEF LocalsInv, Issue
<1>7. FrontierInv'
  <2>1. ASSUME NEW m \in ready'
        PROVE  /\ \A k \in handled : k <= m
               /\ \A h \in handlers : h.msg <= m
    <3>1. CASE m \in ready
      BY <3>1 DEF FrontierInv
    <3>2. ASSUME NEW g \in handlers, m = g.msg
          PROVE  /\ \A k \in handled : k <= m
                 /\ \A h \in handlers : h.msg <= m
      <4>1. handlers = {g} /\ m \in Nat
        BY <3>2, OneHandler DEF LocalsInv
      <4> QED BY <3>2, <4>1 DEF FrontierInv
    <3> QED BY <1>2, <3>1, <3>2
  <2> QED BY <1>1, <2>1 DEF FrontierInv
<1>8. EpisodesInv'
  BY <1>1, <1>4, <1>5 DEF EpisodesInv
<1>9. PastInv'
  BY <1>1, <1>4 DEF PastInv
<1>10. AlertsInv'
  BY <1>1, <1>3, AlertsKept
<1> QED BY <1>1, <1>6, <1>7, <1>8, <1>9, <1>10

\* A crash: the handler is gone, its message queued again.
LEMMA CrashStep ==
    ASSUME QueueInv, EngineInv, Crash PROVE EngineInv'
<1> USE DEF EngineInv
<1>1. /\ published' = published /\ handled' = handled /\ dlq' = dlq
      /\ handlers' = {} /\ ready' = ready \union Queue!UnsettledMessages
      /\ readings' = readings /\ progress' = << >> /\ pipeline' = << >>
      /\ redis' = redis /\ alerts' = alerts /\ redisFailures' = redisFailures
  BY DEF Crash, Queue!Crash, Queue!Requeue
<1>2. \A n \in ready' : n \in ready \/ \E h \in handlers : n = h.msg
  BY <1>1, RequeuedAreHandlers
<1>3. LogKept
  BY <1>1, Basics DEF LogKept
<1>4. ASSUME NEW r, NEW d, NEW start, Justified(r, d, start)
      PROVE  Justified(r, d, start)'
  BY <1>1, <1>2, <1>3, <1>4, JustifiedKept DEF FrontierInv
<1>5. LocalsInv'
  BY <1>1 DEF LocalsInv
<1>6. FrontierInv'
  BY <1>1, <1>2 DEF FrontierInv
<1>7. EpisodesInv' /\ PastInv'
  BY <1>1, <1>4 DEF EpisodesInv, PastInv
<1>8. AlertsInv'
  BY <1>1, <1>3, AlertsKept
<1> QED BY <1>1, <1>5, <1>6, <1>7, <1>8

\* A handler ends: completed, its reading breaches each rule whose state is kept.
LEMMA HandlerEndsStep ==
    ASSUME QueueInv, EngineInv, HandlerEnds PROVE EngineInv'
<1> USE DEF EngineInv
<1>1. PICK h \in handlers :
        (Finished(h) \/ Failed(h)) /\ Queue!Settle(h, Handled(h))
  BY DEF HandlerEnds
<1>2. PICK ok \in BOOLEAN : Queue!Settle(h, ok) /\ (ok <=> Finished(h))
  BY <1>1, SettledEitherWay DEF Handled
<1>3. /\ handlers' = {} /\ handlers = {h} /\ ready' = ready
      /\ published' = published /\ dlq \subseteq dlq'
      /\ handled' = IF ok THEN handled \union {h.msg} ELSE handled
  BY <1>2, SettlesItsOwn
<1>4. /\ readings' = readings /\ pipeline' = pipeline /\ redis' = redis
      /\ alerts' = alerts /\ redisFailures' = redisFailures
      /\ progress' = [g \in handlers' |-> progress[g]]
  BY DEF HandlerEnds
<1>5. h.msg \in 1 .. published /\ progress[h].rule \in 1 .. Len(Rules) + 1
  BY DEF LocalsInv
<1>6. LogKept
  BY <1>3, <1>4, Basics DEF LogKept
<1>7. pipeline = << >>
  BY <1>1, <1>5, Basics DEF LocalsInv, Finished, Failed, Issue
<1>8. LocalsInv'
  BY <1>3, <1>4, <1>7 DEF LocalsInv
<1>9. FrontierInv'
  <2>1. \A n \in ready : h.msg <= n
    BY DEF FrontierInv
  <2> QED BY <1>3, <1>5, <2>1 DEF FrontierInv
<1>10. ASSUME NEW r \in RuleIndices, NEW d \in Devices, redis[<<r, d>>] # NoState
       PROVE  Justified(r, d, redis[<<r, d>>].breachStart)'
  <2>1. ok => r < progress[h].rule
    BY <1>2, <1>5, Basics DEF Finished
  <2>2. \A k \in handled' :
            \/ k \in handled
            \/ /\ k \in 1 .. published
               /\ readings[k].device = d => Breaching(r, readings[k])
    BY <1>3, <1>5, <1>10, <2>1, Basics DEF PastInv
  <2> DEFINE start == redis[<<r, d>>].breachStart
  <2>3. Justified(r, d, start)
    BY <1>10 DEF EpisodesInv
  <2> HIDE DEF start
  <2>4. ASSUME NEW st, st = start PROVE Justified(r, d, st)'
    BY <1>3, <1>6, <2>2, <2>3, <2>4, JustifiedKept DEF FrontierInv
  <2> QED BY <1>4, <2>4 DEF start
<1>11. EpisodesInv' /\ PastInv'
  BY <1>3, <1>4, <1>10 DEF EpisodesInv, PastInv
<1>12. AlertsInv'
  BY <1>4, <1>6, AlertsKept
<1> QED BY <1>4, <1>8, <1>9, <1>11, <1>12

-----------------------------------------------------------------------------
(* The handler's steps.                                                    *)

Locals == [rule : 1 .. Len(Rules) + 1, step : Steps, state : BreachStates \union {NoState}]

\* A handler whose command is answered is at a rule, and alone.
LEMMA Evaluating ==
    ASSUME QueueInv, LocalsInv, NEW h \in handlers, pipeline # << >>, h = Head(pipeline)
    PROVE  /\ handlers = {h} /\ pipeline = <<h>> /\ progress[h] \in Locals
           /\ progress[h].rule \in RuleIndices /\ progress[h].step # "failed"
           /\ progress[h].rule + 1 \in 1 .. Len(Rules) + 1
           /\ Key(h) = <<progress[h].rule, Reading(h).device>>
           /\ Key(h) \in Keys /\ redis[Key(h)] \in BreachStates \union {NoState}
<1>1. handlers = {h}
  BY OneHandler
<1>2. /\ progress[h] \in Locals /\ progress[h].step # "failed"
      /\ pipeline = Issue(h, progress[h])
  BY DEF LocalsInv, Locals
<1>3. progress[h].rule \in RuleIndices /\ pipeline = <<h>>
  BY <1>2 DEF Issue
<1>4. Key(h) = <<progress[h].rule, Reading(h).device>> /\ Key(h) \in Keys
  BY <1>3, Basics DEF Keys
<1>5. redis[Key(h)] \in BreachStates \union {NoState}
  BY <1>4 DEF LocalsInv
<1>6. progress[h].rule + 1 \in 1 .. Len(Rules) + 1
  BY <1>3, Basics
<1> QED BY <1>1, <1>2, <1>3, <1>4, <1>5, <1>6

\* It goes on to what it awaits next.
LEMMA Proceeding ==
    ASSUME LocalsInv, NEW h, handlers = {h}, pipeline = <<h>>, NEW p \in Locals, Proceed(h, p)
    PROVE  DOMAIN progress' = {h} /\ progress'[h] = p /\ pipeline' = Issue(h, p)
<1>1. Tail(pipeline) = << >>
  OBVIOUS
<1>2. pipeline' = Issue(h, p)
  BY <1>1 DEF Proceed, Issue
<1> QED BY <1>2 DEF Proceed, LocalsInv

\* The queue and the log stand still.
LEMMA QueueStands ==
    ASSUME QueueInv, LocalsInv, FrontierInv, UNCHANGED <<queueVars, readings>>
    PROVE  /\ LogKept /\ FrontierInv'
           /\ published' = published /\ handlers' = handlers
           /\ \A h \in handlers : Reading(h)' = Reading(h)
           /\ \A r, d, start : Justified(r, d, start) => Justified(r, d, start)'
<1>1. /\ published' = published /\ ready' = ready /\ dlq' = dlq
      /\ handlers' = handlers /\ handled' = handled /\ readings' = readings
  BY DEF queueVars
<1> QED BY <1>1, Basics DEF LogKept, FrontierInv, Reading, Justified

\* A rule that is not breached: its state is cleared.
LEMMA ClearStep ==
    ASSUME QueueInv, EngineInv, NEW h \in handlers, Clear(h) PROVE EngineInv'
<1> USE DEF EngineInv
<1> DEFINE rule == progress[h].rule
           device == Reading(h).device
           p == AtRule(rule + 1)
<1>1. /\ handlers = {h} /\ pipeline = <<h>> /\ rule \in RuleIndices
      /\ rule + 1 \in 1 .. Len(Rules) + 1 /\ Key(h) = <<rule, device>> /\ Key(h) \in Keys
  BY Evaluating DEF Clear, Answered
<1>2. /\ redis' = [redis EXCEPT ![Key(h)] = NoState] /\ Proceed(h, p)
      /\ alerts' = alerts /\ redisFailures' = redisFailures
      /\ UNCHANGED <<queueVars, readings>>
  BY DEF Clear, NextRule
<1>3. p \in Locals /\ p.rule = rule + 1 /\ p.step = "evaluate" /\ p.state = NoState
  BY <1>1 DEF AtRule, Locals, Steps
<1>4. DOMAIN progress' = {h} /\ progress'[h] = p /\ pipeline' = Issue(h, p)
  BY <1>1, <1>2, <1>3, Proceeding
<1>5. /\ LogKept /\ FrontierInv' /\ published' = published /\ handlers' = handlers
      /\ Reading(h)' = Reading(h) /\ readings' = readings
      /\ \A r, d, start : Justified(r, d, start) => Justified(r, d, start)'
  BY <1>2, QueueStands
<1> HIDE DEF p
<1>6. LocalsInv'
  BY <1>1, <1>2, <1>3, <1>4, <1>5 DEF LocalsInv, Issue, Locals
<1>7. \A r \in RuleIndices, d \in Devices :
          redis'[<<r, d>>] = IF r = rule /\ d = device THEN NoState ELSE redis[<<r, d>>]
  BY <1>1, <1>2 DEF LocalsInv, Keys
<1>8. EpisodesInv'
  <2>1. ASSUME NEW r \in RuleIndices, NEW d \in Devices, redis'[<<r, d>>] # NoState
        PROVE  /\ redis'[<<r, d>>] = redis[<<r, d>>]
               /\ Justified(r, d, redis[<<r, d>>].breachStart)
    BY <1>7, <2>1 DEF EpisodesInv
  <2>2. ASSUME NEW r \in RuleIndices, NEW d \in Devices, NEW state,
               state = redis'[<<r, d>>], state # NoState
        PROVE  Justified(r, d, state.breachStart)'
    BY <1>5, <2>1, <2>2
  <2> QED BY <1>1, <1>3, <1>4, <1>5, <2>2 DEF EpisodesInv
<1>9. PastInv'
  <2>1. \A r \in RuleIndices : r < rule + 1 => r = rule \/ r < rule
    <3>1. \A n, m \in Nat : n < m + 1 => n = m \/ n < m
      OBVIOUS
    <3>2. RuleIndices \subseteq Nat
      BY Basics
    <3> QED BY <1>1, <3>1, <3>2
  <2>2. device \in Devices
    BY Basics
  <2> QED BY <1>1, <1>3, <1>4, <1>5, <1>7, <2>1, <2>2 DEF PastInv
<1>10. AlertsInv'
  BY <1>2, <1>5, AlertsKept
<1> QED BY <1>2, <1>5, <1>6, <1>8, <1>9, <1>10

\* A rule that is breached: what is decided rests on a breach that is entered
\* and not left.
LEMMA StateIsJustified ==
    ASSUME QueueInv, EngineInv, NEW h \in handlers, pipeline # << >>, h = Head(pipeline),
           BreachingNow(h)
    PROVE  /\ State(h) \in BreachStates
           /\ StateToStore(h) \in BreachStates
           /\ StateToStore(h).breachStart = State(h).breachStart
           /\ Justified(progress[h].rule, Reading(h).device, State(h).breachStart)
<1> USE DEF EngineInv
<1> DEFINE rule == progress[h].rule
           device == Reading(h).device
<1>1. /\ handlers = {h} /\ rule \in RuleIndices
      /\ Key(h) = <<rule, device>> /\ redis[Key(h)] \in BreachStates \union {NoState}
  BY Evaluating
<1>2. device \in Devices /\ Reading(h).timestamp \in Times
  BY Basics
<1>3. State(h) \in BreachStates
  BY <1>1, <1>2 DEF State, BreachStart, BreachStates, Times
<1>4. StateToStore(h) \in BreachStates /\ StateToStore(h).breachStart = State(h).breachStart
  <2>1. ASSUME NEW S, NEW s \in [breachStart : S, fired : BOOLEAN], NEW f \in BOOLEAN
        PROVE  /\ [s EXCEPT !.fired = @ \/ f] \in [breachStart : S, fired : BOOLEAN]
               /\ [s EXCEPT !.fired = @ \/ f].breachStart = s.breachStart
    BY <2>1
  <2> QED BY <1>3, <2>1 DEF StateToStore, BreachStates
<1>5. ASSUME redis[Key(h)] # NoState
      PROVE  Justified(rule, device, State(h).breachStart)
  BY <1>1, <1>2, <1>5 DEF State, EpisodesInv
<1>6. ASSUME redis[Key(h)] = NoState
      PROVE  Justified(rule, device, State(h).breachStart)
  <2>1. State(h).breachStart = Reading(h).timestamp
    BY <1>6 DEF State, BreachStart
  <2>2. /\ h.msg \in 1 .. published /\ Breaching(rule, readings[h.msg])
        /\ Reading(h) = readings[h.msg]
    BY Basics DEF BreachingNow, Reading, LocalsInv
  <2>3. (\A n \in ready : h.msg <= n) /\ \A g \in handlers : h.msg <= g.msg
    BY <1>1, <2>2 DEF FrontierInv
  <2>4. \A k \in handled : h.msg <= k => k = h.msg
    BY <2>2, Basics DEF FrontierInv
  <2>5. Justified(rule, device, readings[h.msg].timestamp)
    BY <2>2, <2>3, <2>4 DEF Justified
  <2> QED BY <2>1, <2>2, <2>5
<1> QED BY <1>3, <1>4, <1>5, <1>6

\* An alert that is sent has a breach behind it that outlasts the window.
LEMMA AlertIsGood ==
    ASSUME QueueInv, EngineInv, NEW h \in handlers, pipeline # << >>, h = Head(pipeline),
           BreachingNow(h), Fires(h)
    PROVE  GoodAlert(progress[h].rule, h.msg)
<1> USE DEF EngineInv
<1> DEFINE rule == progress[h].rule
           m == h.msg
<1>1. /\ rule \in RuleIndices /\ m \in 1 .. published /\ Reading(h) = readings[m]
      /\ Breaching(rule, readings[m]) /\ published \in Nat
  BY Evaluating, Basics DEF LocalsInv, BreachingNow
<1>2. PICK j \in 1 .. published :
        /\ readings[j].device = Reading(h).device
        /\ readings[j].timestamp = State(h).breachStart
        /\ Breaching(rule, readings[j])
        /\ \A g \in handlers : j <= g.msg
        /\ \A k \in handled \ dlq :
              j <= k /\ readings[k].device = Reading(h).device =>
                  Breaching(rule, readings[k])
  BY StateIsJustified DEF Justified
<1>3. j \in 1 .. m
  BY <1>1, <1>2
<1>4. \A k \in 1 .. (m - 1) : k \in dlq \union handled
  BY DEF QueueInv, QueueProofs!SafeInv, QueueProofs!InOrderSoFar
<1>5. \A k \in j .. m : readings[k].device = readings[m].device /\ k \notin dlq =>
          Breaching(rule, readings[k])
  <2>1. ASSUME NEW k \in j .. m, k # m, k \notin dlq
        PROVE  k \in handled \ dlq /\ j <= k
    BY <1>1, <1>3, <1>4, <2>1
  <2> QED BY <1>1, <1>2, <2>1
<1>6. SameEpisode(rule, j, m)
  BY <1>1, <1>2, <1>5 DEF SameEpisode
<1>7. Lasts(rule, j, m)
  BY <1>1, <1>2 DEF Fires, Sustained, Lasts
<1> QED BY <1>1, <1>3, <1>6, <1>7 DEF GoodAlert

\* The decision: an alert perhaps, and the state to store.
LEMMA DecideStep ==
    ASSUME QueueInv, EngineInv, NEW h \in handlers, Decide(h) PROVE EngineInv'
<1> USE DEF EngineInv
<1>1. /\ BreachingNow(h) /\ pipeline # << >> /\ h = Head(pipeline)
      /\ redis' = redis /\ redisFailures' = redisFailures
      /\ UNCHANGED <<queueVars, readings>>
  BY DEF Decide, Answered
<1>2. /\ handlers = {h} /\ pipeline = <<h>> /\ progress[h].rule \in RuleIndices
      /\ progress[h] \in Locals /\ StateToStore(h) \in BreachStates
      /\ Justified(progress[h].rule, Reading(h).device, StateToStore(h).breachStart)
  BY <1>1, Evaluating, StateIsJustified
<1>3. PICK r \in RuleIndices, d \in Devices, s \in BreachStates :
        /\ r = progress[h].rule /\ d = Reading(h).device /\ s = StateToStore(h)
        /\ Justified(r, d, s.breachStart)
  BY <1>2, Basics
<1> DEFINE p == [rule |-> r, step |-> "store", state |-> s]
<1>4. Proceed(h, p)
  BY <1>3 DEF Decide
<1>5. \/ alerts' = alerts
      \/ Fires(h) /\ alerts' = Append(alerts, [rule |-> r, msg |-> h.msg])
  BY <1>3 DEF Decide, Emit
<1>6. p \in Locals /\ p.rule = r /\ p.step = "store" /\ p.state = s
  BY <1>2, <1>3 DEF Locals, Steps
<1>7. DOMAIN progress' = {h} /\ progress'[h] = p /\ pipeline' = Issue(h, p)
  BY <1>2, <1>4, <1>6, Proceeding
<1>8. /\ LogKept /\ FrontierInv' /\ published' = published /\ handlers' = handlers
      /\ Reading(h)' = Reading(h) /\ readings' = readings
      /\ \A q, e, start : Justified(q, e, start) => Justified(q, e, start)'
  BY <1>1, QueueStands
<1> HIDE DEF p
<1>9. LocalsInv'
  BY <1>1, <1>2, <1>6, <1>7, <1>8 DEF LocalsInv, Issue, Locals
<1>10. EpisodesInv'
  <2>1. Justified(r, d, s.breachStart)' /\ Breaching(r, Reading(h)) /\ Reading(h)'.device = d
    BY <1>1, <1>3, <1>8 DEF BreachingNow
  <2> QED BY <1>1, <1>2, <1>6, <1>7, <1>8, <2>1 DEF EpisodesInv
<1>11. PastInv'
  BY <1>1, <1>2, <1>3, <1>6, <1>7, <1>8 DEF PastInv
<1>12. alerts' \in Seq([rule : RuleIndices, msg : Nat]) /\ AlertsInv'
  <2>1. CASE alerts' = alerts
    BY <1>8, <2>1, AlertsKept
  <2>2. CASE Fires(h) /\ alerts' = Append(alerts, [rule |-> r, msg |-> h.msg])
    <3>1. GoodAlert(r, h.msg)'
      BY <1>1, <1>3, <1>8, <2>2, AlertIsGood, GoodAlertKept
    <3>2. \A q, n : GoodAlert(q, n) => GoodAlert(q, n)'
      BY <1>8, GoodAlertKept
    <3>3. h.msg \in Nat /\ alerts \in Seq([rule : RuleIndices, msg : Nat])
      BY Basics DEF LocalsInv
    <3>4. \A i \in DOMAIN alerts' :
              \/ i \in DOMAIN alerts /\ alerts'[i] = alerts[i]
              \/ alerts'[i] = [rule |-> r, msg |-> h.msg]
      BY <2>2, <3>3
    <3>5. ASSUME NEW i \in DOMAIN alerts', NEW q, NEW n,
                 q = alerts'[i].rule, n = alerts'[i].msg
          PROVE  GoodAlert(q, n)'
      BY <3>1, <3>2, <3>4, <3>5 DEF AlertsInv
    <3> QED BY <2>2, <3>3, <3>5 DEF AlertsInv
  <2> QED BY <1>5, <2>1, <2>2
<1> QED BY <1>8, <1>9, <1>10, <1>11, <1>12

\* The SET: the state stored is one that was justified when it was decided on.
LEMMA StoreStep ==
    ASSUME QueueInv, EngineInv, NEW h \in handlers, Store(h) PROVE EngineInv'
<1> USE DEF EngineInv
<1>1. /\ pipeline # << >> /\ h = Head(pipeline)
      /\ redis' = [redis EXCEPT ![Key(h)] = progress[h].state]
      /\ alerts' = alerts /\ redisFailures' = redisFailures
      /\ UNCHANGED <<queueVars, readings>>
  BY DEF Store, Answered
<1>2. PICK r \in RuleIndices, d \in Devices, s \in BreachStates \union {NoState} :
        /\ r = progress[h].rule /\ d = Reading(h).device /\ s = progress[h].state
        /\ Key(h) = <<r, d>> /\ Key(h) \in Keys
        /\ handlers = {h} /\ pipeline = <<h>> /\ r + 1 \in 1 .. Len(Rules) + 1
  BY <1>1, Evaluating, Basics DEF Locals
<1> DEFINE p == AtRule(r + 1)
<1>3. Proceed(h, p)
  BY <1>2 DEF Store, NextRule
<1>4. p \in Locals /\ p.rule = r + 1 /\ p.step = "evaluate" /\ p.state = NoState
  BY <1>2 DEF AtRule, Locals, Steps
<1>5. DOMAIN progress' = {h} /\ progress'[h] = p /\ pipeline' = Issue(h, p)
  BY <1>2, <1>3, <1>4, Proceeding
<1>6. /\ LogKept /\ FrontierInv' /\ published' = published /\ handlers' = handlers
      /\ Reading(h)' = Reading(h) /\ readings' = readings
      /\ \A q, e, start : Justified(q, e, start) => Justified(q, e, start)'
  BY <1>1, QueueStands
<1>7. s # NoState => Breaching(r, Reading(h)) /\ Justified(r, d, s.breachStart)
  BY <1>2 DEF EpisodesInv
<1> HIDE DEF p
<1>8. LocalsInv'
  BY <1>1, <1>2, <1>4, <1>5, <1>6 DEF LocalsInv, Issue, Locals
<1>9. \A q \in RuleIndices, e \in Devices :
          redis'[<<q, e>>] = IF q = r /\ e = d THEN s ELSE redis[<<q, e>>]
  BY <1>1, <1>2 DEF LocalsInv, Keys
<1>10. EpisodesInv'
  BY <1>2, <1>4, <1>5, <1>6, <1>7, <1>9 DEF EpisodesInv
<1>11. PastInv'
  <2>1. \A q \in RuleIndices : q < r + 1 => q = r \/ q < r
    BY <1>2, Basics
  <2> QED BY <1>2, <1>4, <1>5, <1>6, <1>7, <1>9, <2>1 DEF PastInv
<1>12. AlertsInv'
  BY <1>1, <1>6, AlertsKept
<1> QED BY <1>1, <1>6, <1>8, <1>10, <1>11, <1>12

\* A rejected command, executed or not: the handler ends with it.
LEMMA RedisFailsStep ==
    ASSUME QueueInv, EngineInv, NEW h \in handlers, RedisFails(h) PROVE EngineInv'
<1> USE DEF EngineInv
<1>1. /\ pipeline # << >> /\ h = Head(pipeline)
      /\ redisFailures < MaxRedisFailures /\ redisFailures' = redisFailures + 1
      /\ progress' = [progress EXCEPT ![h].step = "failed"]
      /\ pipeline' = Tail(pipeline)
      /\ alerts' = alerts /\ UNCHANGED <<queueVars, readings>>
  BY DEF RedisFails
<1>2. /\ handlers = {h} /\ pipeline = <<h>> /\ progress[h] \in Locals
      /\ progress[h].rule \in RuleIndices
      /\ Key(h) = <<progress[h].rule, Reading(h).device>> /\ Key(h) \in Keys
  BY <1>1, Evaluating
<1>3. PICK r \in RuleIndices, d \in Devices, s \in BreachStates \union {NoState} :
        /\ r = progress[h].rule /\ d = Reading(h).device /\ s = progress[h].state
  BY <1>2, Basics DEF Locals
<1>4. PICK v \in {redis[<<r, d>>], s} : redis' = [redis EXCEPT ![<<r, d>>] = v]
  BY <1>2, <1>3 DEF RedisFails, Executed
<1>5. /\ DOMAIN progress' = {h} /\ progress'[h] \in Locals
      /\ progress'[h].rule = r /\ progress'[h].step = "failed"
      /\ progress'[h].state = s
  <2>1. ASSUME NEW R, NEW T, NEW q \in [rule : R, step : Steps, state : T]
        PROVE  LET f == [q EXCEPT !.step = "failed"]
               IN  /\ f \in [rule : R, step : Steps, state : T]
                   /\ f.rule = q.rule /\ f.step = "failed" /\ f.state = q.state
    BY <2>1 DEF Steps
  <2>2. progress'[h] = [progress[h] EXCEPT !.step = "failed"] /\ DOMAIN progress' = {h}
    BY <1>1, <1>2 DEF LocalsInv
  <2> QED BY <1>2, <1>3, <2>1, <2>2 DEF Locals
<1>6. pipeline' = << >>
  BY <1>1, <1>2
<1>7. /\ LogKept /\ FrontierInv' /\ published' = published /\ handlers' = handlers
      /\ Reading(h)' = Reading(h) /\ readings' = readings
      /\ \A q, e, start : Justified(q, e, start) => Justified(q, e, start)'
  BY <1>1, QueueStands
<1>8. s # NoState => Breaching(r, Reading(h)) /\ Justified(r, d, s.breachStart)
  BY <1>2, <1>3 DEF EpisodesInv
<1>9. /\ redis[<<r, d>>] \in BreachStates \union {NoState}
      /\ v # NoState => Justified(r, d, v.breachStart)
  BY <1>2, <1>3, <1>8 DEF EpisodesInv, LocalsInv
<1>10. LocalsInv'
  <2>1. redis' \in [Keys -> BreachStates \union {NoState}]
    BY <1>3, <1>4, <1>9 DEF LocalsInv
  <2>2. redisFailures' \in 0 .. MaxRedisFailures
    BY <1>1, EngineAssumption DEF LocalsInv
  <2> QED
    BY <1>2, <1>5, <1>6, <1>7, <2>1, <2>2 DEF LocalsInv, Locals
<1>11. \A q \in RuleIndices, e \in Devices :
          redis'[<<q, e>>] = IF q = r /\ e = d THEN v ELSE redis[<<q, e>>]
  BY <1>2, <1>3, <1>4 DEF LocalsInv, Keys
<1>12. EpisodesInv'
  BY <1>2, <1>3, <1>5, <1>7, <1>8, <1>9, <1>11 DEF EpisodesInv
<1>13. PastInv'
  <2>1. \A q \in RuleIndices : q < r => q # r
    BY Basics
  <2> QED BY <1>2, <1>3, <1>5, <1>7, <1>11, <2>1 DEF PastInv
<1>14. AlertsInv'
  BY <1>1, <1>7, AlertsKept
<1> QED BY <1>1, <1>7, <1>10, <1>12, <1>13, <1>14

-----------------------------------------------------------------------------

LEMMA EngineInit == Init => EngineInv
<1> SUFFICES ASSUME Init PROVE EngineInv
  OBVIOUS
<1>1. /\ readings = << >> /\ progress = << >> /\ pipeline = << >> /\ alerts = << >>
      /\ redis = [k \in Keys |-> NoState] /\ redisFailures = 0
      /\ published = 0 /\ ready = {} /\ handlers = {} /\ handled = {}
  BY DEF Init, Queue!Init
<1>2. \A r \in RuleIndices, d \in Devices : redis[<<r, d>>] = NoState
  BY <1>1 DEF Keys
<1>3. LocalsInv /\ FrontierInv
  BY <1>1, EngineAssumption DEF LocalsInv, FrontierInv
<1>4. EpisodesInv /\ PastInv /\ AlertsInv
  BY <1>1, <1>2 DEF EpisodesInv, PastInv, AlertsInv
<1> QED BY <1>1, <1>3, <1>4 DEF EngineInv

LEMMA EngineStep == ASSUME QueueInv, EngineInv, [Next]_vars PROVE EngineInv'
<1>1. ASSUME NEW reading \in Readings, Publish(reading) PROVE EngineInv'
  BY <1>1, PublishStep
<1>2. CASE Deliver
  BY <1>2, DeliverStep
<1>3. CASE HandlerEnds
  BY <1>3, HandlerEndsStep
<1>4. CASE Crash
  BY <1>4, CrashStep
<1>5. CASE Connectivity
  BY <1>5, ConnectivityStep
<1>6. ASSUME NEW h \in handlers, Evaluate(h) PROVE EngineInv'
  BY <1>6, ClearStep, DecideStep, StoreStep DEF Evaluate
<1>7. ASSUME NEW h \in handlers, RedisFails(h) PROVE EngineInv'
  BY <1>7, RedisFailsStep
<1>8. CASE UNCHANGED vars
  <2> USE DEF EngineInv
  <2>1. /\ UNCHANGED <<queueVars, readings>> /\ progress' = progress
        /\ pipeline' = pipeline /\ redis' = redis /\ alerts' = alerts
        /\ redisFailures' = redisFailures
    BY <1>8 DEF vars, engineVars
  <2>2. /\ LogKept /\ FrontierInv' /\ published' = published /\ handlers' = handlers
        /\ \A h \in handlers : Reading(h)' = Reading(h)
        /\ \A r, d, start : Justified(r, d, start) => Justified(r, d, start)'
    BY <2>1, QueueStands
  <2>3. LocalsInv' /\ PastInv'
    BY <2>1, <2>2 DEF LocalsInv, PastInv, Issue
  <2>4. EpisodesInv'
    BY <2>1, <2>2 DEF EpisodesInv
  <2>5. AlertsInv'
    BY <2>1, <2>2, AlertsKept
  <2> QED BY <2>1, <2>2, <2>3, <2>4, <2>5
<1> QED BY <1>1, <1>2, <1>3, <1>4, <1>5, <1>6, <1>7, <1>8 DEF Next, Rest

LEMMA EngineInvariant == Spec => [](QueueInv /\ EngineInv)
BY EngineInit, EngineStep, QueueIsSafe, PTL DEF Spec

\* Types of the queue, of the handler's locals and of the breach states, for all
\* rules and readings.
THEOREM TypeCorrect == Spec => []TypeOK
<1>1. QueueInv /\ EngineInv => TypeOK
  <2> SUFFICES ASSUME QueueInv, EngineInv PROVE TypeOK
    OBVIOUS
  <2>1. Queue!TypeOK
    BY Zenon
       DEF QueueInv, QueueProofs!TypeOK, Queue!TypeOK, QueueProofs!Messages,
           Queue!Messages, QueueProofs!Deliveries, Queue!Deliveries,
           QueueProofs!HandlerRuns, Queue!HandlerRuns
  <2>2. redis \in [Keys -> BreachStates \union {NoState}]
    BY DEF EngineInv, LocalsInv
  <2> QED
    BY <2>1, <2>2 DEF TypeOK, EngineInv, LocalsInv, AlertsInv, GoodAlert
<1> QED BY <1>1, EngineInvariant, PTL

\* No alert is of a transient spike: whatever the rules, the readings, the
\* outages, the crashes and the Redis commands that fail, executed or not, an
\* unbroken breach that lasted the sustain window lies behind each alert, as long
\* as handlers end within the reconnect backoff.
THEOREM NoSpikePages == Spec => []TransientSpikesNeverPage
<1>1. EngineInv => TransientSpikesNeverPage
  BY DEF EngineInv, AlertsInv, GoodAlert, TransientSpikesNeverPage
<1> QED BY <1>1, EngineInvariant, PTL

-----------------------------------------------------------------------------
(* Repeats, as long as the process does not crash and Redis does not fail. *)

\* Reading k, behind which nothing is left to be evaluated, ends the episode of
\* message m under rule r.
Ended(r, m) ==
    \E k \in m .. published :
        /\ readings[k].device = readings[m].device /\ ~Breaching(r, readings[k])
        /\ \A n \in ready : k <= n
        /\ \A h \in handlers : k <= h.msg

\* The alert of message m is on record: in Redis, or with the handler that sets it.
Recorded(r, m) ==
    \/ /\ redis[<<r, readings[m].device>>] # NoState
       /\ redis[<<r, readings[m].device>>].fired
    \/ \E h \in handlers :
          /\ progress[h].step = "store" /\ progress[h].rule = r
          /\ Reading(h).device = readings[m].device
          /\ progress[h].state.fired

OnRecord(r, m) ==
    /\ \A n \in ready : m <= n
    /\ \A h \in handlers : m <= h.msg
    /\ Ended(r, m) \/ Recorded(r, m)

RepeatsInv ==
    /\ dlq = {}
    /\ \A h \in handlers :
          /\ progress[h].step # "failed"
          /\ progress[h].step = "store" =>
                /\ progress[h].state # NoState
                /\ redis[Key(h)] # NoState /\ redis[Key(h)].fired => progress[h].state.fired
    /\ \A i \in DOMAIN alerts : OnRecord(alerts[i].rule, alerts[i].msg)
    /\ AtMostOncePerEpisode

\* The log having only grown, messages having only moved back to the queue, and
\* Redis and the locals being as they were, all is still on record.
LEMMA OnRecordKept ==
    ASSUME LogKept, NEW r, NEW m, m \in 1 .. published, OnRecord(r, m),
           \A n \in ready' :
               n \in ready \/ n = published + 1 \/ \E h \in handlers : n = h.msg,
           \A g \in handlers' : g.msg \in ready \/ g \in handlers,
           Recorded(r, m) => Ended(r, m)' \/ Recorded(r, m)'
    PROVE  OnRecord(r, m)'
<1>1. (\A n \in ready' : m <= n) /\ \A g \in handlers' : m <= g.msg
  BY DEF OnRecord, LogKept
<1>2. ASSUME Ended(r, m) PROVE Ended(r, m)'
  <2>1. PICK k \in m .. published :
          /\ readings[k].device = readings[m].device /\ ~Breaching(r, readings[k])
          /\ \A n \in ready : k <= n
          /\ \A h \in handlers : k <= h.msg
    BY <1>2 DEF Ended
  <2>2. /\ k \in m .. published' /\ readings'[k] = readings[k]
        /\ readings'[m] = readings[m]
    BY <2>1 DEF LogKept
  <2>3. (\A n \in ready' : k <= n) /\ \A g \in handlers' : k <= g.msg
    BY <2>1 DEF LogKept
  <2> QED BY <2>1, <2>2, <2>3 DEF Ended
<1> QED BY <1>1, <1>2 DEF OnRecord

LEMMA OnceKept ==
    ASSUME LogKept, AlertsInv, AtMostOncePerEpisode, alerts' = alerts, dlq' = dlq
    PROVE  AtMostOncePerEpisode'
<1>1. ASSUME NEW i \in DOMAIN alerts, NEW j \in DOMAIN alerts, i < j,
             alerts[i].rule = alerts[j].rule,
             SameEpisode(alerts[i].rule, alerts[i].msg, alerts[j].msg)'
      PROVE  FALSE
  <2>1. alerts[i].msg \in 1 .. published /\ alerts[j].msg \in 1 .. published
    BY DEF AlertsInv, GoodAlert
  <2>2. SameEpisode(alerts[i].rule, alerts[i].msg, alerts[j].msg)
    BY <1>1, <2>1 DEF SameEpisode, LogKept
  <2> QED BY <1>1, <2>2 DEF AtMostOncePerEpisode
<1> QED BY <1>1 DEF AtMostOncePerEpisode

\* The queue's steps, with the handler's locals as they were.
LEMMA RepeatsQueueStep ==
    ASSUME QueueInv, EngineInv, RepeatsInv,
           (\E reading \in Readings : Publish(reading)) \/ Connectivity
    PROVE  RepeatsInv'
<1> USE DEF EngineInv
<1>1. /\ dlq' = dlq /\ handlers' = handlers /\ progress' = progress
      /\ redis' = redis /\ alerts' = alerts
      /\ \/ /\ published' = published /\ readings' = readings
            /\ ready' \subseteq ready \union Queue!UnsettledMessages
         \/ \E reading \in Readings :
               /\ published' = published + 1 /\ ready' = ready \union {published + 1}
               /\ readings' = Append(readings, reading)
  BY DEF Publish, Connectivity, engineVars, Queue!Publish, Queue!ConnectionLost,
     Queue!HandleClose, Queue!Reconnect, Queue!Requeue, Queue!brokerVars,
     Queue!serviceVars
<1>2. \A n \in ready' :
          n \in ready \/ n = published + 1 \/ \E h \in handlers : n = h.msg
  BY <1>1, RequeuedAreHandlers
<1>3. LogKept
  <2>1. CASE published' = published /\ readings' = readings
    BY <1>1, <2>1, Basics DEF LogKept
  <2>2. ASSUME NEW reading \in Readings, published' = published + 1,
               readings' = Append(readings, reading)
        PROVE  LogKept
    <3>1. /\ readings \in Seq(Readings) /\ Len(readings) = published
          /\ published \in Nat
      BY Basics DEF LocalsInv
    <3>2. \A k \in 1 .. published : readings'[k] = readings[k]
      BY <2>2, <3>1
    <3> QED BY <1>1, <2>2, <3>1, <3>2 DEF LogKept
  <2> QED BY <1>1, <2>1, <2>2
<1>4. \A h \in handlers : Reading(h)' = Reading(h) /\ Key(h)' = Key(h)
  BY <1>1, <1>3 DEF LogKept, LocalsInv, Reading, Key
<1>5. ASSUME NEW r, NEW m, m \in 1 .. published, OnRecord(r, m)
      PROVE  OnRecord(r, m)'
  <2>1. Recorded(r, m) => Recorded(r, m)'
    BY <1>1, <1>3, <1>4, <1>5 DEF Recorded, LogKept
  <2> QED BY <1>1, <1>2, <1>3, <1>5, <2>1, OnRecordKept
<1>6. \A i \in DOMAIN alerts' : OnRecord(alerts[i].rule, alerts[i].msg)'
  BY <1>1, <1>5 DEF RepeatsInv, AlertsInv, GoodAlert
<1>7. AtMostOncePerEpisode'
  BY <1>1, <1>3, OnceKept DEF RepeatsInv
<1> QED BY <1>1, <1>4, <1>6, <1>7 DEF RepeatsInv

\* The handler starts, or ends: what was on record is so in Redis.
LEMMA RepeatsHandlerStep ==
    ASSUME QueueInv, EngineInv, RepeatsInv, Deliver \/ HandlerEnds
    PROVE  RepeatsInv'
<1> USE DEF EngineInv
<1>1. /\ published' = published /\ readings' = readings /\ dlq' = dlq
      /\ redis' = redis /\ alerts' = alerts /\ ready' \subseteq ready
      /\ \A g \in handlers' : g.msg \in ready /\ progress'[g] = AtRule(1)
      /\ \A h \in handlers : progress[h].rule \notin RuleIndices
  <2>1. CASE Deliver
    <3>1. PICK g \in Queue!HandlerRuns :
            /\ g.msg \in ready /\ handlers = {} /\ handlers' = {g}
            /\ ready' \subseteq ready /\ published' = published /\ dlq' = dlq
      BY <2>1, DeliveryIsAlone DEF Deliver
    <3> QED BY <2>1, <3>1 DEF Deliver
  <2>2. CASE HandlerEnds
    <3>1. PICK h \in handlers :
            (Finished(h) \/ Failed(h)) /\ Queue!Settle(h, Handled(h))
      BY <2>2 DEF HandlerEnds
    <3>2. Finished(h)
      BY <3>1 DEF RepeatsInv, Failed
    <3>3. PICK ok \in BOOLEAN : Queue!Settle(h, ok) /\ ok
      BY <3>1, <3>2, SettledEitherWay DEF Handled
    <3>4. /\ handlers' = {} /\ handlers = {h} /\ ready' = ready /\ published' = published
      BY <3>3, SettlesItsOwn
    <3>5. dlq' = dlq
      BY <3>3 DEF Queue!Settle, Queue!SettlementLost, Queue!SettlementTaken,
         Queue!SettlementRefused, Queue!Requeue, Queue!brokerVars
    <3>6. progress[h].rule \notin RuleIndices
      BY <3>2, Basics DEF Finished, LocalsInv
    <3> QED BY <2>2, <3>4, <3>5, <3>6 DEF HandlerEnds
  <2> QED BY <2>1, <2>2
<1>2. LogKept
  BY <1>1, Basics DEF LogKept
<1>3. ASSUME NEW r \in RuleIndices, NEW m, m \in 1 .. published, OnRecord(r, m)
      PROVE  OnRecord(r, m)'
  <2>1. Recorded(r, m) => Recorded(r, m)'
    BY <1>1 DEF Recorded
  <2> QED BY <1>1, <1>2, <1>3, <2>1, OnRecordKept
<1>4. \A i \in DOMAIN alerts' : OnRecord(alerts[i].rule, alerts[i].msg)'
  BY <1>1, <1>3 DEF RepeatsInv, AlertsInv, GoodAlert
<1>5. AtMostOncePerEpisode'
  BY <1>1, <1>2, OnceKept DEF RepeatsInv
<1> QED BY <1>1, <1>4, <1>5 DEF RepeatsInv, AtRule

\* A rule that is not breached: the reading ends the episode whose alert was on
\* record at the key it clears.
LEMMA RepeatsClearStep ==
    ASSUME QueueInv, EngineInv, RepeatsInv, NEW h \in handlers, Clear(h)
    PROVE  RepeatsInv'
<1> USE DEF EngineInv
<1>1. /\ handlers = {h} /\ pipeline = <<h>> /\ progress[h].rule \in RuleIndices
      /\ Key(h) = <<progress[h].rule, Reading(h).device>> /\ Key(h) \in Keys
      /\ progress[h].rule + 1 \in 1 .. Len(Rules) + 1
  BY Evaluating DEF Clear, Answered
<1>2. PICK q \in RuleIndices, d \in Devices :
        q = progress[h].rule /\ d = Reading(h).device /\ Key(h) = <<q, d>>
  BY <1>1, Basics
<1> DEFINE p == AtRule(q + 1)
<1>3. /\ redis' = [redis EXCEPT ![<<q, d>>] = NoState] /\ Proceed(h, p)
      /\ alerts' = alerts /\ UNCHANGED <<queueVars, readings>>
      /\ progress[h].step = "evaluate" /\ ~Breaching(q, Reading(h))
  BY <1>2 DEF Clear, NextRule, Answered, BreachingNow
<1>4. p \in Locals /\ p.step = "evaluate"
  BY <1>1, <1>2 DEF AtRule, Locals, Steps
<1>5. DOMAIN progress' = {h} /\ progress'[h] = p
  BY <1>1, <1>3, <1>4, Proceeding
<1> HIDE DEF p
<1>6. /\ LogKept /\ published' = published /\ handlers' = handlers /\ readings' = readings
      /\ ready' = ready /\ dlq' = dlq
  BY <1>3, QueueStands DEF queueVars
<1>7. \A r \in RuleIndices, e \in Devices :
          redis'[<<r, e>>] = IF r = q /\ e = d THEN NoState ELSE redis[<<r, e>>]
  BY <1>3 DEF LocalsInv, Keys
<1>8. ASSUME NEW r \in RuleIndices, NEW m, m \in 1 .. published, OnRecord(r, m)
      PROVE  OnRecord(r, m)'
  <2>1. m <= h.msg /\ h.msg \in 1 .. published /\ \A n \in ready : h.msg <= n
    BY <1>8 DEF OnRecord, FrontierInv, LocalsInv
  <2>2. readings[m].device \in Devices /\ Reading(h) = readings[h.msg]
    BY <1>8, Basics, EngineAssumption
  <2>3. ASSUME Recorded(r, m) PROVE Ended(r, m)' \/ Recorded(r, m)'
    <3>1. redis[<<r, readings[m].device>>] # NoState /\ redis[<<r, readings[m].device>>].fired
      BY <1>1, <1>3, <2>3 DEF Recorded
    <3>2. CASE r = q /\ readings[m].device = d
      <4>1. h.msg \in m .. published
        BY <1>8, <2>1, Basics
      <4>2. readings'[h.msg].device = readings'[m].device /\ ~Breaching(r, readings'[h.msg])
        BY <1>2, <1>3, <1>6, <2>2, <3>2
      <4>3. \A g \in handlers' : h.msg <= g.msg
        BY <1>1, <1>6, <2>1
      <4> QED BY <1>6, <2>1, <4>1, <4>2, <4>3 DEF Ended
    <3>3. CASE ~(r = q /\ readings[m].device = d)
      BY <1>6, <1>7, <2>2, <3>1, <3>3 DEF Recorded
    <3> QED BY <3>2, <3>3
  <2> QED BY <1>6, <1>8, <2>3, OnRecordKept
<1>9. \A i \in DOMAIN alerts' : OnRecord(alerts[i].rule, alerts[i].msg)'
  BY <1>3, <1>8 DEF RepeatsInv, AlertsInv, GoodAlert
<1>10. AtMostOncePerEpisode'
  BY <1>3, <1>6, OnceKept DEF RepeatsInv
<1> QED BY <1>1, <1>3, <1>4, <1>5, <1>6, <1>9, <1>10 DEF RepeatsInv

\* The SET: the record moves from the handler to Redis.
LEMMA RepeatsStoreStep ==
    ASSUME QueueInv, EngineInv, RepeatsInv, NEW h \in handlers, Store(h)
    PROVE  RepeatsInv'
<1> USE DEF EngineInv
<1>1. /\ handlers = {h} /\ pipeline = <<h>> /\ progress[h].rule \in RuleIndices
      /\ Key(h) = <<progress[h].rule, Reading(h).device>> /\ Key(h) \in Keys
      /\ progress[h].rule + 1 \in 1 .. Len(Rules) + 1
  BY Evaluating DEF Store, Answered
<1>2. PICK q \in RuleIndices, d \in Devices :
        q = progress[h].rule /\ d = Reading(h).device /\ Key(h) = <<q, d>>
  BY <1>1, Basics
<1> DEFINE p == AtRule(q + 1)
           s == progress[h].state
<1>3. /\ redis' = [redis EXCEPT ![<<q, d>>] = s] /\ Proceed(h, p)
      /\ alerts' = alerts /\ UNCHANGED <<queueVars, readings>>
      /\ progress[h].step = "store"
  BY <1>2 DEF Store, NextRule, Answered
<1>4. p \in Locals /\ p.step = "evaluate"
  BY <1>1, <1>2 DEF AtRule, Locals, Steps
<1>5. DOMAIN progress' = {h} /\ progress'[h] = p
  BY <1>1, <1>3, <1>4, Proceeding
<1> HIDE DEF p
<1>6. /\ LogKept /\ published' = published /\ handlers' = handlers /\ readings' = readings
      /\ ready' = ready /\ dlq' = dlq
  BY <1>3, QueueStands DEF queueVars
<1>7. \A r \in RuleIndices, e \in Devices :
          redis'[<<r, e>>] = IF r = q /\ e = d THEN s ELSE redis[<<r, e>>]
  BY <1>3 DEF LocalsInv, Keys
<1>8. /\ s # NoState
      /\ redis[<<q, d>>] # NoState /\ redis[<<q, d>>].fired => s.fired
  BY <1>2, <1>3 DEF RepeatsInv
<1>9. ASSUME NEW r \in RuleIndices, NEW m, m \in 1 .. published, OnRecord(r, m)
      PROVE  OnRecord(r, m)'
  <2>1. readings[m].device \in Devices
    BY <1>9, Basics, EngineAssumption
  <2>2. ASSUME Recorded(r, m) PROVE Recorded(r, m)'
    <3>1. \/ /\ redis[<<r, readings[m].device>>] # NoState
             /\ redis[<<r, readings[m].device>>].fired
          \/ q = r /\ d = readings[m].device /\ s.fired
      BY <1>1, <1>2, <2>2 DEF Recorded
    <3> QED BY <1>6, <1>7, <1>8, <2>1, <3>1 DEF Recorded
  <2> QED BY <1>6, <1>9, <2>2, OnRecordKept
<1>10. \A i \in DOMAIN alerts' : OnRecord(alerts[i].rule, alerts[i].msg)'
  BY <1>3, <1>9 DEF RepeatsInv, AlertsInv, GoodAlert
<1>11. AtMostOncePerEpisode'
  BY <1>3, <1>6, OnceKept DEF RepeatsInv
<1> QED BY <1>1, <1>4, <1>5, <1>6, <1>10, <1>11, <1>3 DEF RepeatsInv

\* The decision: an alert comes only with nothing on record at its key, so that
\* every earlier one for the device is of an episode that ended.
LEMMA RepeatsDecideStep ==
    ASSUME QueueInv, EngineInv, RepeatsInv, NEW h \in handlers, Decide(h)
    PROVE  RepeatsInv'
<1> USE DEF EngineInv
<1>1. /\ handlers = {h} /\ pipeline = <<h>> /\ progress[h] \in Locals
      /\ progress[h].rule \in RuleIndices
      /\ Key(h) = <<progress[h].rule, Reading(h).device>>
      /\ BreachingNow(h) /\ progress[h].step = "evaluate" /\ State(h) \in BreachStates
      /\ StateToStore(h) \in BreachStates
  BY Evaluating, StateIsJustified DEF Decide, Answered
<1>2. PICK q \in RuleIndices, d \in Devices, s \in BreachStates :
        /\ q = progress[h].rule /\ d = Reading(h).device /\ Key(h) = <<q, d>>
        /\ s = StateToStore(h)
  BY <1>1, Basics
<1>3. s.fired = (State(h).fired \/ Fires(h))
  <2>1. ASSUME NEW S, NEW t \in [breachStart : S, fired : BOOLEAN], NEW f \in BOOLEAN
        PROVE  [t EXCEPT !.fired = @ \/ f].fired = (t.fired \/ f)
    BY <2>1
  <2>2. Fires(h) \in BOOLEAN
    BY DEF Fires
  <2> QED BY <1>1, <1>2, <2>1, <2>2 DEF StateToStore, BreachStates
<1> DEFINE p == [rule |-> q, step |-> "store", state |-> s]
<1>4. /\ Proceed(h, p) /\ UNCHANGED <<queueVars, readings>> /\ redis' = redis
  BY <1>2 DEF Decide
<1>5. p \in Locals /\ p.rule = q /\ p.step = "store" /\ p.state = s
  BY <1>1, <1>2 DEF Locals, Steps
<1>6. DOMAIN progress' = {h} /\ progress'[h] = p
  BY <1>1, <1>4, <1>5, Proceeding
<1> HIDE DEF p
<1>7. /\ LogKept /\ published' = published /\ handlers' = handlers /\ readings' = readings
      /\ ready' = ready /\ dlq' = dlq /\ Reading(h)' = Reading(h)
  BY <1>4, QueueStands DEF queueVars
<1>8. /\ s # NoState
      /\ redis[<<q, d>>] # NoState /\ redis[<<q, d>>].fired => s.fired
  <2>1. redis[<<q, d>>] # NoState => State(h) = redis[<<q, d>>]
    BY <1>2 DEF State
  <2> QED BY <1>2, <1>3, <2>1, EngineAssumption
<1>9. ASSUME NEW r, NEW m, m \in 1 .. published, OnRecord(r, m)
      PROVE  OnRecord(r, m)'
  <2>1. Recorded(r, m) => Recorded(r, m)'
    BY <1>1, <1>4, <1>7, <1>9 DEF Recorded
  <2> QED BY <1>7, <1>9, <2>1, OnRecordKept
<1>10. /\ dlq' = {}
       /\ \A g \in handlers' :
             /\ progress'[g].step # "failed"
             /\ progress'[g].step = "store" =>
                   /\ progress'[g].state # NoState
                   /\ redis'[Key(g)'] # NoState /\ redis'[Key(g)'].fired =>
                         progress'[g].state.fired
  <2>1. Key(h)' = <<q, d>>
    BY <1>2, <1>5, <1>6, <1>7 DEF Key
  <2> QED BY <1>1, <1>4, <1>5, <1>6, <1>7, <1>8, <2>1 DEF RepeatsInv
<1>11. CASE alerts' = alerts
  <2>1. AtMostOncePerEpisode'
    BY <1>7, <1>11, OnceKept DEF RepeatsInv
  <2>2. \A i \in DOMAIN alerts' : OnRecord(alerts[i].rule, alerts[i].msg)'
    BY <1>9, <1>11 DEF RepeatsInv, AlertsInv, GoodAlert
  <2> QED BY <1>10, <2>1, <2>2 DEF RepeatsInv
<1>12. CASE Fires(h) /\ alerts' = Append(alerts, [rule |-> q, msg |-> h.msg])
  <2>1. /\ alerts \in Seq([rule : RuleIndices, msg : Nat]) /\ h.msg \in 1 .. published
        /\ h.msg \in Nat
    BY Basics DEF LocalsInv
  <2>2. \A i \in DOMAIN alerts' :
            \/ i \in DOMAIN alerts /\ alerts'[i] = alerts[i]
            \/ i = Len(alerts) + 1 /\ alerts'[i] = [rule |-> q, msg |-> h.msg]
    BY <1>12, <2>1
  <2>3. OnRecord(q, h.msg)'
    <3>1. s.fired
      BY <1>2, <1>3, <1>12
    <3>2. Recorded(q, h.msg)'
      BY <1>1, <1>2, <1>5, <1>6, <1>7, <3>1 DEF Recorded, Reading
    <3>3. (\A n \in ready' : h.msg <= n) /\ \A g \in handlers' : h.msg <= g.msg
      BY <1>1, <1>7, <2>1 DEF FrontierInv
    <3> QED BY <3>2, <3>3 DEF OnRecord
  <2>4. ASSUME NEW i \in DOMAIN alerts', NEW r, NEW m,
               r = alerts'[i].rule, m = alerts'[i].msg
        PROVE  OnRecord(r, m)'
    BY <1>9, <2>2, <2>3, <2>4 DEF RepeatsInv, AlertsInv, GoodAlert
  <2>5. ASSUME NEW i \in DOMAIN alerts, alerts[i].rule = q,
               SameEpisode(q, alerts[i].msg, h.msg)
        PROVE  FALSE
    <3> DEFINE m == alerts[i].msg
    <3>1. OnRecord(q, m) /\ readings[m].device = d /\ m \in 1 .. published
      BY <1>2, <2>5 DEF RepeatsInv, SameEpisode, Reading, AlertsInv, GoodAlert
    <3>2. ~Recorded(q, m)
      BY <1>1, <1>2, <1>12, <3>1 DEF Recorded, Fires, State
    <3>3. PICK k \in m .. published :
            /\ readings[k].device = readings[m].device /\ ~Breaching(q, readings[k])
            /\ k <= h.msg
      BY <3>1, <3>2 DEF OnRecord, Ended
    <3>4. k \in m .. h.msg /\ k \notin dlq /\ readings[k].device = readings[h.msg].device
      BY <1>2, <2>1, <3>1, <3>3 DEF RepeatsInv, Reading
    <3> QED BY <2>5, <3>3, <3>4 DEF SameEpisode
  <2>6. AtMostOncePerEpisode'
    <3>1. ASSUME NEW i \in DOMAIN alerts', NEW j \in DOMAIN alerts', i < j,
                 alerts'[i].rule = alerts'[j].rule,
                 SameEpisode(alerts[i].rule, alerts[i].msg, alerts[j].msg)'
          PROVE  FALSE
      <4>1. SameEpisode(alerts'[i].rule, alerts'[i].msg, alerts'[j].msg)
        BY <1>7, <3>1 DEF SameEpisode
      <4>2. i \in DOMAIN alerts /\ alerts'[i] = alerts[i]
        BY <2>1, <2>2, <3>1
      <4>3. CASE j \in DOMAIN alerts /\ alerts'[j] = alerts[j]
        BY <3>1, <4>1, <4>2, <4>3 DEF RepeatsInv, AtMostOncePerEpisode
      <4>4. CASE alerts'[j] = [rule |-> q, msg |-> h.msg]
        BY <2>5, <3>1, <4>1, <4>2, <4>4
      <4> QED BY <2>2, <4>3, <4>4
    <3> QED BY <3>1 DEF AtMostOncePerEpisode
  <2>7. \A i \in DOMAIN alerts' : OnRecord(alerts[i].rule, alerts[i].msg)'
    BY <2>4
  <2> QED BY <1>10, <2>6, <2>7 DEF RepeatsInv
<1> QED BY <1>2, <1>11, <1>12 DEF Decide, Emit

NothingLost == crashes = 0 /\ redisFailures = 0

LEMMA RepeatsStep ==
    ASSUME QueueInv, EngineInv, RepeatsInv, [Next]_vars, NothingLost'
    PROVE  RepeatsInv'
<1>1. CASE (\E reading \in Readings : Publish(reading)) \/ Connectivity
  BY <1>1, RepeatsQueueStep
<1>2. CASE Deliver \/ HandlerEnds
  BY <1>2, RepeatsHandlerStep
<1>3. ASSUME NEW h \in handlers, Evaluate(h) PROVE RepeatsInv'
  BY <1>3, RepeatsClearStep, RepeatsDecideStep, RepeatsStoreStep DEF Evaluate
<1>4. ASSUME Crash \/ \E h \in handlers : RedisFails(h) PROVE FALSE
  BY <1>4 DEF Crash, Queue!Crash, RedisFails, NothingLost, QueueInv, QueueProofs!TypeOK,
     EngineInv, LocalsInv
<1>5. CASE UNCHANGED vars
  BY <1>5 DEF vars, queueVars, engineVars, RepeatsInv, OnRecord, Ended, Recorded,
     AtMostOncePerEpisode, SameEpisode, Reading, Key
<1> QED BY <1>1, <1>2, <1>3, <1>4, <1>5 DEF Next, Rest

\* An episode alerts at most once for all rules and readings, whatever the
\* outages: unless the process crashes or a Redis command is rejected, a record
\* of each alert is in Redis, or on its way there, until its episode has ended.
\* (Handlers end within the reconnect backoff, as everywhere in RuleEngine.)
THEOREM OneAlertPerEpisode == Spec => []RepeatsOnlyAfterCrash
<1>1. Init => RepeatsInv
  BY DEF Init, Queue!Init, RepeatsInv, AtMostOncePerEpisode
<1>2. ASSUME [Next]_vars, NothingLost', QueueInv, EngineInv PROVE NothingLost
  <2>1. crashes \in Nat /\ redisFailures \in Nat
    BY <1>2, EngineAssumption DEF QueueInv, QueueProofs!TypeOK, EngineInv, LocalsInv
  <2>2. CASE Crash \/ \E h \in handlers : RedisFails(h)
    BY <1>2, <2>1, <2>2 DEF Crash, Queue!Crash, RedisFails, NothingLost
  <2>3. CASE UNCHANGED <<crashes, redisFailures>>
    BY <1>2, <2>3 DEF NothingLost
  <2>4. ASSUME NEW h \in handlers, Evaluate(h) PROVE UNCHANGED <<crashes, redisFailures>>
    BY <2>4 DEF Evaluate, Clear, Decide, Store, queueVars
  <2>5. CASE HandlerEnds
    BY <2>3, <2>5 DEF HandlerEnds, Queue!Settle, Queue!boundVars
  <2>6. CASE (\E reading \in Readings : Publish(reading)) \/ Deliver
    BY <2>3, <2>6 DEF Publish, Deliver, engineVars, Queue!Publish, Queue!Deliver,
       Queue!boundVars
  <2>7. CASE Connectivity
    BY <2>3, <2>7 DEF Connectivity, engineVars, Queue!ConnectionLost,
       Queue!HandleClose, Queue!Reconnect, Queue!boundVars
  <2>8. CASE Rest \/ UNCHANGED vars
    BY <2>3, <2>8 DEF Rest, vars, queueVars, engineVars
  <2> QED BY <1>2, <2>2, <2>3, <2>4, <2>5, <2>6, <2>7, <2>8 DEF Next
<1>3. (QueueInv /\ EngineInv /\ [Next]_vars) /\ (NothingLost => RepeatsInv)
        => (NothingLost => RepeatsInv)'
  BY <1>2, RepeatsStep
<1>4. (NothingLost => RepeatsInv) => RepeatsOnlyAfterCrash
  BY DEF NothingLost, RepeatsInv, RepeatsOnlyAfterCrash
<1> QED BY <1>1, <1>3, <1>4, EngineInvariant, PTL DEF Spec

-----------------------------------------------------------------------------
(* Misses, as long as no connection is lost and Redis does not fail.       *)

\* An alert of the episode under rule r that reading j opened, at m at the latest.
Alerted(r, j, m) ==
    \E i \in DOMAIN alerts :
        /\ alerts[i].rule = r /\ alerts[i].msg \in j .. m
        /\ SameEpisode(r, j, alerts[i].msg)

\* What SustainedBreachAlerts says of message m and rule r.
AlertedIfDue(r, m) ==
    \A j \in 1 .. m :
        Opens(r, j) /\ SameEpisode(r, j, m) /\ Lasts(r, j, m) => Alerted(r, j, m)

\* State s of rule r and device d is that of the open episode: from its opening
\* on, and fired only if it has alerted.
Tracked(r, d, s) ==
    \E j \in 1 .. published :
        /\ readings[j].device = d /\ readings[j].timestamp = s.breachStart
        /\ Opens(r, j)
        /\ \A n \in ready : j <= n
        /\ \A h \in handlers : j <= h.msg
        /\ \A k \in handled :
              j <= k /\ readings[k].device = d => Breaching(r, readings[k])
        /\ s.fired => Alerted(r, j, published)

\* Nothing to be evaluated lies before an alert; handlers run on a connection
\* and do not fail.
UndisturbedInv ==
    /\ dlq = {}
    /\ \A h \in handlers : link # 0 /\ progress[h].step # "failed"
    /\ \A i \in DOMAIN alerts :
          /\ \A n \in ready : alerts[i].msg <= n
          /\ \A h \in handlers : alerts[i].msg <= h.msg

\* Every state in Redis, and the one to be stored, is that of an open episode.
TrackedInv ==
    /\ \A r \in RuleIndices, d \in Devices :
          redis[<<r, d>>] # NoState => Tracked(r, d, redis[<<r, d>>])
    /\ \A h \in handlers :
          progress[h].step = "store" =>
              /\ progress[h].state # NoState
              /\ Tracked(progress[h].rule, Reading(h).device, progress[h].state)

\* A reading that breaches a rule has left a state, unless its episode has ended.
OpenInv ==
    \A r \in RuleIndices :
        /\ \A j \in handled :
              Breaching(r, readings[j]) =>
                  redis[<<r, readings[j].device>>] # NoState \/ Ended(r, j)
        /\ \A h \in handlers :
              r < progress[h].rule /\ Breaching(r, Reading(h)) =>
                  redis[<<r, Reading(h).device>>] # NoState

\* What is evaluated has alerted if it was due.
DueInv ==
    \A r \in RuleIndices :
        /\ \A m \in handled : AlertedIfDue(r, m)
        /\ \A h \in handlers : Past(h, r) => AlertedIfDue(r, h.msg)

MissesInv == UndisturbedInv /\ TrackedInv /\ OpenInv /\ DueInv

-----------------------------------------------------------------------------

\* The log has grown, nothing being dead-lettered, and so have the alerts.
AllKept ==
    /\ LogKept /\ dlq = {} /\ dlq' = {}
    /\ \A i \in DOMAIN alerts : i \in DOMAIN alerts' /\ alerts'[i] = alerts[i]

LEMMA SameEpisodeKept ==
    ASSUME AllKept, NEW r, NEW j \in 1 .. published, NEW m \in 1 .. published
    PROVE  SameEpisode(r, j, m)' <=> SameEpisode(r, j, m)
BY DEF AllKept, LogKept, SameEpisode

LEMMA OpensKept ==
    ASSUME AllKept, NEW r, NEW j \in 1 .. published
    PROVE  Opens(r, j)' <=> Opens(r, j)
<1>1. readings'[j] = readings[j] /\ \A i \in 1 .. j - 1 : i \in 1 .. published
  BY DEF AllKept, LogKept
<1>2. \A i \in 1 .. j - 1 : SameEpisode(r, i, j)' <=> SameEpisode(r, i, j)
  BY <1>1, SameEpisodeKept
<1> QED BY <1>1, <1>2 DEF Opens

LEMMA AlertedKept ==
    ASSUME AllKept, AlertsInv, NEW r, NEW j \in 1 .. published, NEW m, NEW n,
           Alerted(r, j, m), \A x : x \in j .. m => x \in j .. n
    PROVE  Alerted(r, j, n)'
<1>1. PICK i \in DOMAIN alerts :
        /\ alerts[i].rule = r /\ alerts[i].msg \in j .. m
        /\ SameEpisode(r, j, alerts[i].msg)
  BY DEF Alerted
<1>2. alerts[i].msg \in 1 .. published
  BY DEF AlertsInv, GoodAlert
<1>3. i \in DOMAIN alerts' /\ alerts'[i] = alerts[i]
  BY DEF AllKept
<1>4. ASSUME NEW a, a = alerts[i].msg PROVE SameEpisode(r, j, a)'
  BY <1>1, <1>2, <1>4, SameEpisodeKept
<1>5. SameEpisode(r, j, alerts[i].msg)'
  BY <1>3, <1>4
<1> QED BY <1>1, <1>3, <1>5 DEF Alerted

LEMMA AlertedIfDueKept ==
    ASSUME AllKept, AlertsInv, NEW r, NEW m \in 1 .. published, AlertedIfDue(r, m)
    PROVE  AlertedIfDue(r, m)'
<1>1. ASSUME NEW j \in 1 .. m, Opens(r, j)', SameEpisode(r, j, m)', Lasts(r, j, m)'
      PROVE  Alerted(r, j, m)'
  <2>1. j \in 1 .. published
    BY DEF AllKept, LogKept
  <2>2. Opens(r, j) /\ SameEpisode(r, j, m)
    BY <1>1, <2>1, OpensKept, SameEpisodeKept
  <2>3. Lasts(r, j, m)
    BY <1>1, <2>1 DEF Lasts, AllKept, LogKept
  <2> QED BY <2>1, <2>2, <2>3, AlertedKept DEF AlertedIfDue
<1> QED BY <1>1 DEF AlertedIfDue

\* The open episode stays what it is while messages move between queue and
\* handlers, and what is completed breaches the rule.
LEMMA TrackedKept ==
    ASSUME AllKept, AlertsInv, NEW r, NEW d, NEW s, Tracked(r, d, s),
           handled \subseteq 1 .. published,
           \A n \in ready' :
               n \in ready \/ n = published + 1 \/ \E h \in handlers : n = h.msg,
           \A g \in handlers' : g.msg \in ready \/ g \in handlers,
           \A k \in handled' :
               \/ k \in handled
               \/ /\ k \in 1 .. published
                  /\ readings[k].device = d => Breaching(r, readings[k])
    PROVE  Tracked(r, d, s)'
<1>1. PICK j \in 1 .. published :
        /\ readings[j].device = d /\ readings[j].timestamp = s.breachStart
        /\ Opens(r, j)
        /\ \A n \in ready : j <= n
        /\ \A h \in handlers : j <= h.msg
        /\ \A k \in handled :
              j <= k /\ readings[k].device = d => Breaching(r, readings[k])
        /\ s.fired => Alerted(r, j, published)
  BY DEF Tracked
<1>2. j \in 1 .. published' /\ readings'[j] = readings[j] /\ Opens(r, j)'
  BY <1>1, OpensKept DEF AllKept, LogKept
<1>3. (\A n \in ready' : j <= n) /\ \A h \in handlers' : j <= h.msg
  BY <1>1 DEF AllKept, LogKept
<1>4. \A k \in handled' :
          j <= k /\ readings'[k].device = d => Breaching(r, readings'[k])
  BY <1>1 DEF AllKept, LogKept
<1>5. s.fired => Alerted(r, j, published)'
  <2>1. ASSUME NEW n, n = published' PROVE \A x : x \in j .. published => x \in j .. n
    BY <2>1 DEF AllKept, LogKept
  <2>2. ASSUME NEW n, n = published', s.fired PROVE Alerted(r, j, n)'
    BY <1>1, <2>1, <2>2, AlertedKept
  <2> QED BY <2>2 DEF Alerted
<1> QED BY <1>1, <1>2, <1>3, <1>4, <1>5 DEF Tracked

\* What has ended stays so.
LEMMA EndedKept ==
    ASSUME LogKept, NEW r, NEW m \in 1 .. published, Ended(r, m),
           \A n \in ready' :
               n \in ready \/ n = published + 1 \/ \E h \in handlers : n = h.msg,
           \A g \in handlers' : g.msg \in ready \/ g \in handlers
    PROVE  Ended(r, m)'
<1>1. PICK k \in m .. published :
        /\ readings[k].device = readings[m].device /\ ~Breaching(r, readings[k])
        /\ \A n \in ready : k <= n
        /\ \A h \in handlers : k <= h.msg
  BY DEF Ended
<1>2. /\ k \in m .. published' /\ readings'[k] = readings[k]
      /\ readings'[m] = readings[m]
  BY <1>1 DEF LogKept
<1>3. (\A n \in ready' : k <= n) /\ \A g \in handlers' : k <= g.msg
  BY <1>1 DEF LogKept
<1> QED BY <1>1, <1>2, <1>3 DEF Ended

\* The queue's steps: no state in Redis and no alert changes, and a handler
\* starts at the first rule.
LEMMA MissesQueueStep ==
    ASSUME QueueInv, EngineInv, MissesInv, outages = 0, outages' = 0,
           \/ \E reading \in Readings : Publish(reading)
           \/ Deliver \/ Crash \/ Connectivity
    PROVE  MissesInv'
<1> USE DEF EngineInv, MissesInv
<1>1. /\ dlq' = dlq /\ handled' = handled /\ redis' = redis /\ alerts' = alerts
      /\ LogKept
      /\ \A g \in handlers' :
            \/ g \in handlers /\ progress'[g] = progress[g] /\ (link # 0 => link' # 0)
            \/ g.msg \in ready /\ progress'[g] = AtRule(1) /\ link' # 0
      /\ \A n \in ready' :
            n \in ready \/ n = published + 1 \/ \E h \in handlers : n = h.msg
  <2>1. CASE \E reading \in Readings : Publish(reading)
    <3> PICK reading \in Readings : Publish(reading)
      BY <2>1
    <3>1. /\ dlq' = dlq /\ handled' = handled /\ redis' = redis /\ alerts' = alerts
          /\ handlers' = handlers /\ progress' = progress /\ link' = link
          /\ published' = published + 1 /\ ready' = ready \union {published + 1}
          /\ readings' = Append(readings, reading)
      BY DEF Publish, engineVars, Queue!Publish, Queue!serviceVars
    <3>2. /\ readings \in Seq(Readings) /\ Len(readings) = published
          /\ published \in Nat
      BY Basics DEF LocalsInv
    <3>3. \A k \in 1 .. published : readings'[k] = readings[k]
      BY <3>1, <3>2
    <3> QED BY <3>1, <3>2, <3>3 DEF LogKept
  <2>2. CASE Deliver
    <3>1. PICK g \in Queue!HandlerRuns :
            /\ g.msg \in ready /\ handlers = {} /\ handlers' = {g}
            /\ ready' \subseteq ready /\ published' = published /\ dlq' = dlq
            /\ handled' = handled
      BY <2>2, DeliveryIsAlone DEF Deliver
    <3>2. link' # 0 /\ progress' = [h \in {g} |-> AtRule(1)]
      BY <2>2, <3>1 DEF Deliver, Queue!Deliver
    <3> QED BY <2>2, <3>1, <3>2, Basics DEF Deliver, LogKept
  <2>3. CASE Crash
    <3>1. /\ published' = published /\ handled' = handled /\ dlq' = dlq
          /\ handlers' = {} /\ ready' = ready \union Queue!UnsettledMessages
          /\ readings' = readings /\ redis' = redis /\ alerts' = alerts
      BY <2>3 DEF Crash, Queue!Crash, Queue!Requeue
    <3> QED BY <3>1, RequeuedAreHandlers, Basics DEF LogKept
  <2>4. CASE Connectivity
    <3>1. ~Queue!ConnectionLost
      BY DEF Queue!ConnectionLost
    <3>2. /\ published' = published /\ handled' = handled /\ dlq' = dlq
          /\ handlers' = handlers /\ ready' = ready /\ progress' = progress
          /\ readings' = readings /\ redis' = redis /\ alerts' = alerts
          /\ link' = link \/ link' = epoch + 1
      BY <2>4, <3>1 DEF Connectivity, engineVars, Queue!HandleClose,
         Queue!Reconnect, Queue!brokerVars, Queue!serviceVars
    <3>3. epoch \in Nat
      BY DEF QueueInv, QueueProofs!TypeOK
    <3> QED BY <3>2, <3>3, Basics DEF LogKept
  <2> QED BY <2>1, <2>2, <2>3, <2>4
<1>2. AllKept /\ AlertsInv
  BY <1>1 DEF AllKept, UndisturbedInv
<1>3. \A g \in handlers' : g.msg \in ready \/ g \in handlers
  BY <1>1
<1>4. /\ published \in Nat /\ handled \subseteq 1 .. published
      /\ \A k \in 1 .. published : readings'[k] = readings[k]
      /\ \A h \in handlers : h.msg \in 1 .. published /\ Reading(h) = readings[h.msg]
  BY <1>2, Basics DEF AllKept, LogKept, LocalsInv, FrontierInv
<1>5. \A g \in handlers : Reading(g)' = Reading(g)
  BY <1>4 DEF Reading
<1>6. ASSUME NEW r, NEW d, NEW s, Tracked(r, d, s) PROVE Tracked(r, d, s)'
  BY <1>1, <1>2, <1>3, <1>4, <1>6, TrackedKept
<1>7. UndisturbedInv'
  <2>1. \A i \in DOMAIN alerts : alerts[i].msg \in 1 .. published
    BY DEF AlertsInv, GoodAlert
  <2> QED BY <1>1, <1>4, <2>1 DEF UndisturbedInv, AtRule
<1>8. TrackedInv'
  <2>1. ASSUME NEW r \in RuleIndices, NEW d \in Devices, redis'[<<r, d>>] # NoState
        PROVE  Tracked(r, d, redis[<<r, d>>])'
    <3>1. ASSUME NEW s, s = redis[<<r, d>>] PROVE Tracked(r, d, s)'
      BY <1>1, <1>6, <2>1, <3>1 DEF TrackedInv
    <3> QED BY <1>1, <3>1 DEF Tracked
  <2>2. ASSUME NEW g \in handlers', progress'[g].step = "store"
        PROVE  /\ progress'[g].state # NoState
               /\ Tracked(progress[g].rule, Reading(g).device, progress[g].state)'
    <3>1. g \in handlers /\ progress'[g] = progress[g] /\ Reading(g)' = Reading(g)
      BY <1>1, <1>5, <2>2 DEF AtRule
    <3>2. ASSUME NEW q, NEW d, NEW s, q = progress[g].rule, d = Reading(g).device,
                 s = progress[g].state
          PROVE  s # NoState /\ Tracked(q, d, s)'
      BY <1>6, <2>2, <3>1, <3>2 DEF TrackedInv
    <3> QED BY <3>1, <3>2 DEF Tracked
  <2> QED BY <2>1, <2>2 DEF TrackedInv
<1>9. OpenInv'
  <2>1. ASSUME NEW r \in RuleIndices, NEW j \in handled, Ended(r, j)
        PROVE  Ended(r, j)'
    BY <1>1, <1>2, <1>3, <1>4, <2>1, EndedKept DEF AllKept
  <2>2. ASSUME NEW r \in RuleIndices, NEW g \in handlers', r < progress'[g].rule
        PROVE  g \in handlers /\ progress'[g] = progress[g] /\ Reading(g)' = Reading(g)
    BY <1>1, <1>5, <2>2, Basics DEF AtRule
  <2> QED BY <1>1, <1>4, <2>1, <2>2 DEF OpenInv
<1>10. DueInv'
  <2>1. ASSUME NEW r \in RuleIndices, NEW m \in 1 .. published, AlertedIfDue(r, m)
        PROVE  AlertedIfDue(r, m)'
    BY <1>2, <2>1, AlertedIfDueKept
  <2>2. ASSUME NEW r \in RuleIndices, NEW g \in handlers', Past(g, r)'
        PROVE  g \in handlers /\ Past(g, r)
    BY <1>1, <2>2, Basics DEF Past, AtRule
  <2> QED BY <1>1, <1>4, <2>1, <2>2 DEF DueInv
<1> QED BY <1>7, <1>8, <1>9, <1>10

\* A handler ends: what its reading breaches is open and has alerted if due.
LEMMA MissesHandlerEndsStep ==
    ASSUME QueueInv, EngineInv, MissesInv, HandlerEnds PROVE MissesInv'
<1> USE DEF EngineInv, MissesInv
<1>1. PICK h \in handlers :
        (Finished(h) \/ Failed(h)) /\ Queue!Settle(h, Handled(h))
  BY DEF HandlerEnds
<1>2. Finished(h)
  BY <1>1 DEF UndisturbedInv, Failed
<1>3. PICK ok \in BOOLEAN : Queue!Settle(h, ok) /\ ok
  BY <1>1, <1>2, SettledEitherWay DEF Handled
<1>4. /\ handlers' = {} /\ handlers = {h} /\ ready' = ready /\ published' = published
      /\ handled' = handled \union {h.msg}
  BY <1>3, SettlesItsOwn
<1>5. dlq' = dlq
  BY <1>3 DEF Queue!Settle, Queue!SettlementLost, Queue!SettlementTaken,
     Queue!SettlementRefused, Queue!Requeue, Queue!brokerVars
<1>6. readings' = readings /\ redis' = redis /\ alerts' = alerts
  BY DEF HandlerEnds
<1>7. /\ AllKept /\ published \in Nat /\ handled \subseteq 1 .. published
      /\ h.msg \in 1 .. published /\ Reading(h) = readings[h.msg]
      /\ Reading(h).device \in Devices
  BY <1>4, <1>5, <1>6, Basics DEF AllKept, LogKept, UndisturbedInv, LocalsInv, FrontierInv
<1>8. \A r \in RuleIndices : r < progress[h].rule
  BY <1>2, Basics DEF Finished, LocalsInv
<1>9. UndisturbedInv'
  BY <1>4, <1>5, <1>6 DEF UndisturbedInv
<1>10. TrackedInv'
  <2>1. ASSUME NEW r \in RuleIndices, NEW d \in Devices, redis[<<r, d>>] # NoState
        PROVE  Tracked(r, d, redis[<<r, d>>])'
    <3>1. readings[h.msg].device = d => Breaching(r, readings[h.msg])
      BY <1>7, <1>8, <2>1 DEF PastInv
    <3>2. ASSUME NEW s, s = redis[<<r, d>>] PROVE Tracked(r, d, s)'
      BY <1>4, <1>7, <2>1, <3>1, <3>2, TrackedKept DEF TrackedInv
    <3> QED BY <1>6, <3>2 DEF Tracked
  <2> QED BY <1>4, <1>6, <2>1 DEF TrackedInv
<1>11. OpenInv'
  <2>1. ASSUME NEW r \in RuleIndices, NEW j \in handled, Ended(r, j)
        PROVE  Ended(r, j)'
    BY <1>4, <1>7, <2>1, EndedKept DEF AllKept
  <2> QED BY <1>4, <1>6, <1>7, <1>8, <2>1 DEF OpenInv
<1>12. DueInv'
  <2>1. ASSUME NEW r \in RuleIndices, NEW m \in 1 .. published, AlertedIfDue(r, m)
        PROVE  AlertedIfDue(r, m)'
    BY <1>7, <2>1, AlertedIfDueKept
  <2> QED BY <1>4, <1>7, <1>8, <2>1 DEF DueInv, Past
<1> QED BY <1>9, <1>10, <1>11, <1>12

-----------------------------------------------------------------------------
(* The handler's steps.                                                    *)

\* All before the message in hand is completed.
LEMMA EarlierIsHandled ==
    ASSUME QueueInv, MissesInv, NEW h \in handlers, NEW k \in 1 .. (h.msg - 1)
    PROVE  k \in handled
BY DEF QueueInv, QueueProofs!SafeInv, QueueProofs!InOrderSoFar, MissesInv, UndisturbedInv

\* A state that is tracked is of an episode that the reading in hand, breaching,
\* goes on with.
LEMMA TrackedReaches ==
    ASSUME QueueInv, EngineInv, MissesInv, NEW h \in handlers, NEW r, NEW s,
           Breaching(r, Reading(h)), Tracked(r, Reading(h).device, s)
    PROVE  \E j \in 1 .. h.msg :
              /\ readings[j].timestamp = s.breachStart /\ Opens(r, j)
              /\ SameEpisode(r, j, h.msg)
              /\ s.fired => Alerted(r, j, h.msg)
<1> USE DEF EngineInv
<1>1. PICK j \in 1 .. published :
        /\ readings[j].device = Reading(h).device /\ readings[j].timestamp = s.breachStart
        /\ Opens(r, j)
        /\ j <= h.msg
        /\ \A k \in handled :
              j <= k /\ readings[k].device = Reading(h).device => Breaching(r, readings[k])
        /\ s.fired => Alerted(r, j, published)
  BY DEF Tracked
<1>2. /\ published \in Nat /\ h.msg \in 1 .. published /\ Reading(h) = readings[h.msg]
      /\ j \in 1 .. h.msg
  BY <1>1, Basics DEF LocalsInv
<1>3. ASSUME NEW k \in j .. h.msg, readings[k].device = readings[h.msg].device
      PROVE  Breaching(r, readings[k])
  <2>1. CASE k = h.msg
    BY <1>2, <2>1
  <2>2. CASE k # h.msg
    <3>1. k \in 1 .. (h.msg - 1)
      BY <1>2, <2>2
    <3>2. k \in handled /\ j <= k
      BY <1>2, <3>1, EarlierIsHandled
    <3> QED BY <1>1, <1>2, <1>3, <3>2
  <2> QED BY <2>1, <2>2
<1>4. SameEpisode(r, j, h.msg)
  BY <1>1, <1>2, <1>3 DEF SameEpisode, Opens
<1>5. ASSUME s.fired PROVE Alerted(r, j, h.msg)
  <2>1. PICK i \in DOMAIN alerts :
          /\ alerts[i].rule = r /\ alerts[i].msg \in j .. published
          /\ SameEpisode(r, j, alerts[i].msg)
    BY <1>1, <1>5 DEF Alerted
  <2>2. alerts[i].msg \in j .. h.msg
    BY <1>2, <2>1 DEF MissesInv, UndisturbedInv
  <2> QED BY <2>1, <2>2 DEF Alerted
<1> QED BY <1>1, <1>2, <1>4, <1>5

\* No two readings open one episode.
LEMMA OneOpening ==
    ASSUME MissesInv, NEW r, NEW m \in Nat, NEW i \in 1 .. m, NEW j \in 1 .. m,
           Opens(r, i), SameEpisode(r, i, m), Opens(r, j), SameEpisode(r, j, m)
    PROVE  i = j
<1>1. ASSUME NEW a \in 1 .. m, NEW b \in 1 .. m, a < b, Opens(r, b),
             SameEpisode(r, a, m), SameEpisode(r, b, m)
      PROVE  FALSE
  <2>1. a \in 1 .. b - 1
    BY <1>1
  <2>2. \A k \in a .. b : k \in a .. m
    BY <1>1
  <2>3. SameEpisode(r, a, b)
    BY <1>1, <2>2 DEF SameEpisode
  <2> QED BY <1>1, <2>1, <2>3 DEF Opens
<1> QED BY <1>1

\* The state a handler reads, or makes, is that of the open episode.
LEMMA StateIsTracked ==
    ASSUME QueueInv, EngineInv, MissesInv, NEW h \in handlers,
           pipeline # << >>, h = Head(pipeline), BreachingNow(h)
    PROVE  Tracked(progress[h].rule, Reading(h).device, State(h))
<1> USE DEF EngineInv
<1> DEFINE q == progress[h].rule
           d == Reading(h).device
<1>1. /\ handlers = {h} /\ q \in RuleIndices /\ d \in Devices
      /\ Key(h) = <<q, d>> /\ published \in Nat
      /\ h.msg \in 1 .. published /\ Reading(h) = readings[h.msg]
      /\ Breaching(q, readings[h.msg])
  BY Evaluating, Basics DEF LocalsInv, BreachingNow
<1>2. CASE redis[Key(h)] # NoState
  BY <1>1, <1>2 DEF State, MissesInv, TrackedInv
<1>3. CASE redis[Key(h)] = NoState
  <2>1. State(h).breachStart = readings[h.msg].timestamp /\ State(h).fired = FALSE
    BY <1>1, <1>3 DEF State, BreachStart
  <2>2. ASSUME NEW i \in 1 .. h.msg - 1, SameEpisode(q, i, h.msg) PROVE FALSE
    <3>1. i \in handled /\ Breaching(q, readings[i]) /\ readings[i].device = d
      BY <1>1, <2>2, EarlierIsHandled DEF SameEpisode
    <3>2. Ended(q, i)
      BY <1>1, <1>3, <3>1 DEF MissesInv, OpenInv
    <3>3. PICK k \in i .. published :
            /\ readings[k].device = readings[i].device /\ ~Breaching(q, readings[k])
            /\ k <= h.msg
      BY <3>2 DEF Ended
    <3>4. k \in i .. h.msg /\ k \notin dlq
      BY <1>1, <3>3 DEF MissesInv, UndisturbedInv
    <3> QED BY <1>1, <2>2, <3>1, <3>3, <3>4 DEF SameEpisode
  <2>3. Opens(q, h.msg)
    BY <1>1, <2>2 DEF Opens
  <2>4. (\A n \in ready : h.msg <= n) /\ \A g \in handlers : h.msg <= g.msg
    BY <1>1 DEF FrontierInv
  <2>5. \A k \in handled : h.msg <= k => k = h.msg
    BY <1>1 DEF FrontierInv
  <2> QED BY <1>1, <2>1, <2>3, <2>4, <2>5 DEF Tracked
<1> QED BY <1>2, <1>3

\* A rule that does not fire has alerted before if it was due.
LEMMA DueHasAlerted ==
    ASSUME QueueInv, EngineInv, MissesInv, NEW h \in handlers,
           pipeline # << >>, h = Head(pipeline), BreachingNow(h), ~Fires(h)
    PROVE  AlertedIfDue(progress[h].rule, h.msg)
<1> DEFINE q == progress[h].rule
<1>1. /\ Breaching(q, Reading(h)) /\ Tracked(q, Reading(h).device, State(h))
      /\ published \in Nat /\ h.msg \in 1 .. published /\ Reading(h) = readings[h.msg]
  BY StateIsTracked, Basics DEF BreachingNow, EngineInv, LocalsInv
<1>2. PICK i \in 1 .. h.msg :
        /\ readings[i].timestamp = State(h).breachStart /\ Opens(q, i)
        /\ SameEpisode(q, i, h.msg)
        /\ State(h).fired => Alerted(q, i, h.msg)
  BY <1>1, TrackedReaches
<1>3. ASSUME NEW j \in 1 .. h.msg, Opens(q, j), SameEpisode(q, j, h.msg), Lasts(q, j, h.msg)
      PROVE  Alerted(q, j, h.msg)
  <2>1. i = j
    BY <1>1, <1>2, <1>3, OneOpening
  <2>2. State(h).fired
    BY <1>1, <1>2, <1>3, <2>1 DEF Fires, Sustained, Lasts
  <2> QED BY <1>2, <2>1, <2>2
<1> QED BY <1>3 DEF AlertedIfDue

\* What a step of the handler leaves alone.
LEMMA HandlerStepKeeps ==
    ASSUME QueueInv, EngineInv, MissesInv, NEW h \in handlers, handlers = {h},
           UNCHANGED <<queueVars, readings>>,
           \A i \in DOMAIN alerts : i \in DOMAIN alerts' /\ alerts'[i] = alerts[i]
    PROVE  /\ AllKept /\ published' = published /\ handlers' = handlers
           /\ ready' = ready /\ handled' = handled /\ link' = link /\ dlq' = {}
           /\ published \in Nat /\ handled \subseteq 1 .. published
           /\ readings' = readings /\ h.msg \in 1 .. published
           /\ Reading(h) = readings[h.msg] /\ Reading(h)' = Reading(h)
           /\ Reading(h).device \in Devices
           /\ \A k \in handled : readings[k].device \in Devices
           /\ \A r, d, s : Tracked(r, d, s) => Tracked(r, d, s)'
           /\ \A r : \A j \in handled : Ended(r, j) => Ended(r, j)'
           /\ \A r : \A m \in 1 .. published : AlertedIfDue(r, m) => AlertedIfDue(r, m)'
<1> USE DEF EngineInv
<1>1. /\ published' = published /\ handlers' = handlers /\ ready' = ready
      /\ handled' = handled /\ link' = link /\ dlq' = dlq /\ readings' = readings
      /\ dlq = {}
  BY DEF queueVars, MissesInv, UndisturbedInv
<1>2. /\ AllKept /\ published \in Nat /\ handled \subseteq 1 .. published
      /\ h.msg \in 1 .. published
      /\ Reading(h) = readings[h.msg] /\ Reading(h)' = Reading(h)
      /\ Reading(h).device \in Devices
      /\ \A k \in handled : readings[k].device \in Devices
  <2>1. /\ published \in Nat /\ \A k \in 1 .. published : readings[k] \in Readings
        /\ Reading(h) = readings[h.msg] /\ Reading(h).device \in Devices
    BY Basics
  <2>2. handled \subseteq 1 .. published /\ h.msg \in 1 .. published
    BY DEF FrontierInv, LocalsInv
  <2>3. \A k \in handled : readings[k].device \in Devices
    BY <2>1, <2>2, EngineAssumption
  <2>4. Reading(h)' = Reading(h)
    BY <1>1 DEF Reading
  <2>5. AllKept
    BY <1>1, <2>1 DEF AllKept, LogKept
  <2> QED BY <2>1, <2>2, <2>3, <2>4, <2>5
<1>3. ASSUME NEW r, NEW d, NEW s, Tracked(r, d, s) PROVE Tracked(r, d, s)'
  BY <1>1, <1>2, <1>3, TrackedKept
<1>4. ASSUME NEW r, NEW j \in handled, Ended(r, j) PROVE Ended(r, j)'
  BY <1>1, <1>2, <1>4, EndedKept DEF AllKept
<1>5. ASSUME NEW r, NEW m \in 1 .. published, AlertedIfDue(r, m)
      PROVE  AlertedIfDue(r, m)'
  BY <1>2, <1>5, AlertedIfDueKept
<1> QED BY <1>1, <1>2, <1>3, <1>4, <1>5

\* A rule that is not breached: the reading ends the episode it clears.
LEMMA MissesClearStep ==
    ASSUME QueueInv, EngineInv, MissesInv, NEW h \in handlers, Clear(h)
    PROVE  MissesInv'
<1> USE DEF EngineInv, MissesInv
<1>1. /\ handlers = {h} /\ pipeline = <<h>> /\ progress[h].rule \in RuleIndices
      /\ Key(h) = <<progress[h].rule, Reading(h).device>> /\ Key(h) \in Keys
      /\ progress[h].rule + 1 \in 1 .. Len(Rules) + 1
  BY Evaluating DEF Clear, Answered
<1>2. PICK q \in RuleIndices, d \in Devices :
        q = progress[h].rule /\ d = Reading(h).device /\ Key(h) = <<q, d>>
  BY <1>1, Basics
<1> DEFINE p == AtRule(q + 1)
<1>3. /\ redis' = [redis EXCEPT ![<<q, d>>] = NoState] /\ Proceed(h, p)
      /\ alerts' = alerts /\ UNCHANGED <<queueVars, readings>>
      /\ ~Breaching(q, Reading(h))
  BY <1>2 DEF Clear, NextRule, Answered, BreachingNow
<1>4. p \in Locals /\ p.step = "evaluate" /\ p.rule = q + 1
  BY <1>1, <1>2 DEF AtRule, Locals, Steps
<1>5. DOMAIN progress' = {h} /\ progress'[h] = p
  BY <1>1, <1>3, <1>4, Proceeding
<1> HIDE DEF p
<1>6. /\ AllKept /\ published' = published /\ handlers' = handlers
      /\ ready' = ready /\ handled' = handled /\ link' = link /\ dlq' = {}
      /\ published \in Nat /\ handled \subseteq 1 .. published
      /\ readings' = readings /\ h.msg \in 1 .. published
      /\ Reading(h) = readings[h.msg] /\ Reading(h)' = Reading(h)
      /\ \A k \in handled : readings[k].device \in Devices
      /\ \A r, e, s : Tracked(r, e, s) => Tracked(r, e, s)'
      /\ \A r : \A j \in handled : Ended(r, j) => Ended(r, j)'
      /\ \A r : \A m \in 1 .. published : AlertedIfDue(r, m) => AlertedIfDue(r, m)'
  BY <1>1, <1>3, HandlerStepKeeps
<1>7. \A r \in RuleIndices, e \in Devices :
          redis'[<<r, e>>] = IF r = q /\ e = d THEN NoState ELSE redis[<<r, e>>]
  BY <1>3 DEF LocalsInv, Keys
<1>8. \A r \in RuleIndices : r < q + 1 => r = q \/ r < q
  BY <1>2, Basics
<1>9. UndisturbedInv'
  BY <1>1, <1>3, <1>4, <1>5, <1>6 DEF UndisturbedInv
<1>10. TrackedInv'
  <2>1. ASSUME NEW r \in RuleIndices, NEW e \in Devices, redis'[<<r, e>>] # NoState
        PROVE  Tracked(r, e, redis[<<r, e>>])'
    <3>1. ASSUME NEW s, s = redis'[<<r, e>>] PROVE Tracked(r, e, s)'
      BY <1>6, <1>7, <2>1, <3>1 DEF TrackedInv
    <3> QED BY <3>1 DEF Tracked
  <2> QED BY <1>1, <1>4, <1>5, <1>6, <2>1 DEF TrackedInv
<1>11. OpenInv'
  <2>1. ASSUME NEW j \in handled, readings[j].device = d PROVE Ended(q, j)'
    <3>1. j <= h.msg /\ j \in 1 .. published /\ \A n \in ready : h.msg <= n
      BY <1>6 DEF FrontierInv
    <3>2. h.msg \in j .. published'
      BY <1>6, <3>1
    <3>3. readings'[h.msg].device = readings'[j].device /\ ~Breaching(q, readings'[h.msg])
      BY <1>2, <1>3, <1>6, <2>1
    <3>4. (\A n \in ready' : h.msg <= n) /\ \A g \in handlers' : h.msg <= g.msg
      BY <1>1, <1>6, <3>1
    <3> QED BY <3>2, <3>3, <3>4 DEF Ended
  <2>2. ASSUME NEW r \in RuleIndices, NEW j \in handled, Breaching(r, readings[j])
        PROVE  redis'[<<r, readings[j].device>>] # NoState \/ Ended(r, j)'
    BY <1>6, <1>7, <2>1, <2>2 DEF OpenInv
  <2>3. ASSUME NEW r \in RuleIndices, r < q + 1, Breaching(r, Reading(h))
        PROVE  redis'[<<r, d>>] # NoState
    BY <1>1, <1>2, <1>3, <1>7, <1>8, <2>3 DEF OpenInv
  <2> QED BY <1>1, <1>2, <1>4, <1>5, <1>6, <2>2, <2>3 DEF OpenInv
<1>12. DueInv'
  <2>1. AlertedIfDue(q, h.msg)
    BY <1>3, <1>6 DEF AlertedIfDue, SameEpisode, UndisturbedInv
  <2>2. ASSUME NEW r \in RuleIndices, Past(h, r)' PROVE r = q \/ Past(h, r)
    BY <1>2, <1>4, <1>5, <1>8, <2>2 DEF Past
  <2>3. ASSUME NEW r \in RuleIndices, Past(h, r)' PROVE AlertedIfDue(r, h.msg)'
    BY <1>6, <2>1, <2>2, <2>3 DEF DueInv
  <2> QED BY <1>1, <1>6, <2>3 DEF DueInv
<1> QED BY <1>9, <1>10, <1>11, <1>12

\* The SET: the state moves from the handler to Redis.
LEMMA MissesStoreStep ==
    ASSUME QueueInv, EngineInv, MissesInv, NEW h \in handlers, Store(h)
    PROVE  MissesInv'
<1> USE DEF EngineInv, MissesInv
<1>1. /\ handlers = {h} /\ pipeline = <<h>> /\ progress[h].rule \in RuleIndices
      /\ Key(h) = <<progress[h].rule, Reading(h).device>> /\ Key(h) \in Keys
      /\ progress[h].rule + 1 \in 1 .. Len(Rules) + 1
  BY Evaluating DEF Store, Answered
<1>2. PICK q \in RuleIndices, d \in Devices :
        q = progress[h].rule /\ d = Reading(h).device /\ Key(h) = <<q, d>>
  BY <1>1, Basics
<1> DEFINE p == AtRule(q + 1)
           s == progress[h].state
<1>3. /\ redis' = [redis EXCEPT ![<<q, d>>] = s] /\ Proceed(h, p)
      /\ alerts' = alerts /\ UNCHANGED <<queueVars, readings>>
      /\ progress[h].step = "store"
  BY <1>2 DEF Store, NextRule, Answered
<1>4. p \in Locals /\ p.step = "evaluate" /\ p.rule = q + 1
  BY <1>1, <1>2 DEF AtRule, Locals, Steps
<1>5. DOMAIN progress' = {h} /\ progress'[h] = p
  BY <1>1, <1>3, <1>4, Proceeding
<1> HIDE DEF p
<1>6. /\ AllKept /\ published' = published /\ handlers' = handlers
      /\ ready' = ready /\ handled' = handled /\ link' = link /\ dlq' = {}
      /\ published \in Nat /\ handled \subseteq 1 .. published
      /\ readings' = readings /\ h.msg \in 1 .. published
      /\ Reading(h) = readings[h.msg] /\ Reading(h)' = Reading(h)
      /\ \A k \in handled : readings[k].device \in Devices
      /\ \A r, e, t : Tracked(r, e, t) => Tracked(r, e, t)'
      /\ \A r : \A j \in handled : Ended(r, j) => Ended(r, j)'
      /\ \A r : \A m \in 1 .. published : AlertedIfDue(r, m) => AlertedIfDue(r, m)'
  BY <1>1, <1>3, HandlerStepKeeps
<1>7. \A r \in RuleIndices, e \in Devices :
          redis'[<<r, e>>] = IF r = q /\ e = d THEN s ELSE redis[<<r, e>>]
  BY <1>3 DEF LocalsInv, Keys
<1>8. \A r \in RuleIndices : r < q + 1 => r = q \/ r < q
  BY <1>2, Basics
<1>9. s # NoState /\ Tracked(q, d, s)
  BY <1>2, <1>3 DEF TrackedInv
<1>10. UndisturbedInv'
  BY <1>1, <1>3, <1>4, <1>5, <1>6 DEF UndisturbedInv
<1>11. TrackedInv'
  <2> HIDE DEF s
  <2>1. ASSUME NEW r \in RuleIndices, NEW e \in Devices, redis'[<<r, e>>] # NoState
        PROVE  Tracked(r, e, redis[<<r, e>>])'
    <3>1. ASSUME NEW t, t = redis'[<<r, e>>] PROVE Tracked(r, e, t)'
      BY <1>6, <1>7, <1>9, <2>1, <3>1 DEF TrackedInv
    <3> QED BY <3>1 DEF Tracked
  <2> QED BY <1>1, <1>4, <1>5, <1>6, <2>1 DEF TrackedInv
<1>12. OpenInv'
  <2>1. ASSUME NEW r \in RuleIndices, NEW j \in handled, Breaching(r, readings[j])
        PROVE  redis'[<<r, readings[j].device>>] # NoState \/ Ended(r, j)'
    BY <1>6, <1>7, <1>9, <2>1 DEF OpenInv
  <2>2. ASSUME NEW r \in RuleIndices, r < q + 1, Breaching(r, Reading(h))
        PROVE  redis'[<<r, d>>] # NoState
    BY <1>1, <1>2, <1>7, <1>8, <1>9, <2>2 DEF OpenInv
  <2> QED BY <1>1, <1>2, <1>4, <1>5, <1>6, <2>1, <2>2 DEF OpenInv
<1>13. DueInv'
  <2>1. ASSUME NEW r \in RuleIndices, Past(h, r)' PROVE Past(h, r)
    BY <1>2, <1>3, <1>4, <1>5, <1>8, <2>1 DEF Past
  <2>2. ASSUME NEW r \in RuleIndices, Past(h, r)' PROVE AlertedIfDue(r, h.msg)'
    BY <1>6, <2>1, <2>2 DEF DueInv
  <2> QED BY <1>1, <1>6, <2>2 DEF DueInv
<1> QED BY <1>10, <1>11, <1>12, <1>13

\* The decision: a rule that is due alerts, the connection being up, or has
\* alerted before.
LEMMA MissesDecideStep ==
    ASSUME QueueInv, EngineInv, MissesInv, NEW h \in handlers, Decide(h)
    PROVE  MissesInv'
<1> USE DEF EngineInv, MissesInv
<1>1. /\ handlers = {h} /\ pipeline = <<h>> /\ h = Head(pipeline)
      /\ progress[h].rule \in RuleIndices /\ progress[h] \in Locals
      /\ Key(h) = <<progress[h].rule, Reading(h).device>>
      /\ BreachingNow(h) /\ progress[h].step = "evaluate" /\ State(h) \in BreachStates
      /\ StateToStore(h) \in BreachStates
      /\ StateToStore(h).breachStart = State(h).breachStart
      /\ pipeline # << >> /\ link # 0
  BY Evaluating, StateIsJustified DEF Decide, Answered, UndisturbedInv
<1>2. PICK q \in RuleIndices, d \in Devices, s \in BreachStates :
        /\ q = progress[h].rule /\ d = Reading(h).device /\ Key(h) = <<q, d>>
        /\ s = StateToStore(h)
  BY <1>1, Basics
<1>3. s.fired = (State(h).fired \/ Fires(h))
  <2>1. ASSUME NEW S, NEW t \in [breachStart : S, fired : BOOLEAN], NEW f \in BOOLEAN
        PROVE  [t EXCEPT !.fired = @ \/ f].fired = (t.fired \/ f)
    BY <2>1
  <2>2. Fires(h) \in BOOLEAN
    BY DEF Fires
  <2> QED BY <1>1, <1>2, <2>1, <2>2 DEF StateToStore, BreachStates
<1> DEFINE p == [rule |-> q, step |-> "store", state |-> s]
           alert == [rule |-> q, msg |-> h.msg]
<1>4. /\ Proceed(h, p) /\ UNCHANGED <<queueVars, readings>> /\ redis' = redis
      /\ alerts' = IF Fires(h) THEN Append(alerts, alert) ELSE alerts
  BY <1>1, <1>2 DEF Decide, Emit
<1>5. p \in Locals /\ p.rule = q /\ p.step = "store" /\ p.state = s
  BY <1>1, <1>2 DEF Locals, Steps
<1>6. DOMAIN progress' = {h} /\ progress'[h] = p
  BY <1>1, <1>4, <1>5, Proceeding
<1> HIDE DEF p
<1>7. /\ \A i \in DOMAIN alerts : i \in DOMAIN alerts' /\ alerts'[i] = alerts[i]
      /\ \A i \in DOMAIN alerts' :
            (i \in DOMAIN alerts /\ alerts'[i] = alerts[i]) \/ alerts'[i] = alert
      /\ Fires(h) => \E i \in DOMAIN alerts' : alerts'[i] = alert
  <2>1. ASSUME NEW A, NEW t \in Seq(A), NEW a \in A
        PROVE  /\ \A i \in DOMAIN t : i \in DOMAIN Append(t, a) /\ Append(t, a)[i] = t[i]
               /\ \A i \in DOMAIN Append(t, a) :
                     (i \in DOMAIN t /\ Append(t, a)[i] = t[i]) \/ Append(t, a)[i] = a
               /\ Len(t) + 1 \in DOMAIN Append(t, a) /\ Append(t, a)[Len(t) + 1] = a
    BY <2>1
  <2>2. alert \in [rule : RuleIndices, msg : Nat]
    BY Basics DEF LocalsInv
  <2> HIDE DEF alert
  <2>3. CASE Fires(h)
    BY <1>4, <2>1, <2>2, <2>3
  <2> QED BY <1>4, <2>3
<1>8. /\ AllKept /\ published' = published /\ handlers' = handlers
      /\ ready' = ready /\ handled' = handled /\ link' = link /\ dlq' = {}
      /\ published \in Nat /\ handled \subseteq 1 .. published
      /\ readings' = readings /\ h.msg \in 1 .. published
      /\ Reading(h) = readings[h.msg] /\ Reading(h)' = Reading(h)
      /\ \A r, e, t : Tracked(r, e, t) => Tracked(r, e, t)'
      /\ \A r : \A j \in handled : Ended(r, j) => Ended(r, j)'
      /\ \A r : \A m \in 1 .. published : AlertedIfDue(r, m) => AlertedIfDue(r, m)'
  BY <1>1, <1>4, <1>7, HandlerStepKeeps
<1>9. UndisturbedInv'
  <2>1. ASSUME NEW i \in DOMAIN alerts'
        PROVE  /\ \A n \in ready' : alerts'[i].msg <= n
               /\ \A g \in handlers' : alerts'[i].msg <= g.msg
    <3>1. CASE i \in DOMAIN alerts /\ alerts'[i] = alerts[i]
      BY <1>8, <3>1 DEF UndisturbedInv
    <3>2. CASE alerts'[i] = alert
      BY <1>1, <1>8, <3>2 DEF FrontierInv
    <3> QED BY <1>7, <3>1, <3>2
  <2> QED BY <1>1, <1>5, <1>6, <1>8, <2>1 DEF UndisturbedInv
<1>10. Tracked(q, d, State(h)) /\ Breaching(q, Reading(h))
  BY <1>1, <1>2, StateIsTracked DEF BreachingNow
<1>11. ASSUME Fires(h), NEW j \in 1 .. h.msg, SameEpisode(q, j, h.msg)
       PROVE  Alerted(q, j, h.msg)'
  <2>1. j \in 1 .. published /\ h.msg \in j .. h.msg
    BY <1>8
  <2>2. SameEpisode(q, j, h.msg)'
    BY <1>8, <1>11, <2>1, SameEpisodeKept
  <2>3. PICK i \in DOMAIN alerts' : alerts'[i].rule = q /\ alerts'[i].msg = h.msg
    BY <1>7, <1>11
  <2>4. SameEpisode(q, j, alerts[i].msg)'
    BY <2>2, <2>3 DEF SameEpisode
  <2> QED BY <2>1, <2>3, <2>4 DEF Alerted
<1>12. Tracked(q, d, s)'
  <2>1. PICK j \in 1 .. published :
          /\ readings[j].device = d /\ readings[j].timestamp = State(h).breachStart
          /\ Opens(q, j)
          /\ \A n \in ready : j <= n
          /\ j <= h.msg
          /\ \A k \in handled :
                j <= k /\ readings[k].device = d => Breaching(q, readings[k])
          /\ State(h).fired => Alerted(q, j, published)
    BY <1>10 DEF Tracked
  <2>2. j \in 1 .. h.msg /\ Opens(q, j)'
    BY <1>8, <2>1, OpensKept
  <2>3. SameEpisode(q, j, h.msg)
    <3>1. ASSUME NEW k \in j .. h.msg, readings[k].device = d
          PROVE  Breaching(q, readings[k])
      <4>1. CASE k = h.msg
        BY <1>8, <1>10, <4>1
      <4>2. CASE k # h.msg
        <5>1. k \in 1 .. (h.msg - 1) /\ j <= k
          BY <1>8, <2>2, <4>2
        <5> QED BY <2>1, <3>1, <5>1, EarlierIsHandled
      <4> QED BY <4>1, <4>2
    <3> QED BY <1>2, <1>8, <2>1, <3>1 DEF SameEpisode, Opens
  <2>4. ASSUME s.fired PROVE Alerted(q, j, published)'
    <3>1. CASE State(h).fired
      <4>1. Alerted(q, j, published) /\ AlertsInv
        BY <2>1, <3>1
      <4>2. ASSUME NEW n, n = published' PROVE Alerted(q, j, n)'
        BY <1>8, <4>1, <4>2, AlertedKept
      <4> QED BY <4>2 DEF Alerted
    <3>2. CASE Fires(h)
      <4>1. Alerted(q, j, h.msg)'
        BY <1>11, <2>2, <2>3, <3>2
      <4>2. \A x \in j .. h.msg : x \in j .. published'
        BY <1>8
      <4> QED BY <4>1, <4>2 DEF Alerted
    <3> QED BY <1>3, <2>4, <3>1, <3>2
  <2>5. j \in 1 .. published' /\ readings'[j].timestamp = s.breachStart
    BY <1>1, <1>2, <1>8, <2>1
  <2>6. (\A n \in ready' : j <= n) /\ \A g \in handlers' : j <= g.msg
    BY <1>1, <1>8, <2>1
  <2> QED BY <1>8, <2>1, <2>2, <2>4, <2>5, <2>6 DEF Tracked
<1>13. TrackedInv'
  <2>1. ASSUME NEW r \in RuleIndices, NEW e \in Devices, redis'[<<r, e>>] # NoState
        PROVE  Tracked(r, e, redis[<<r, e>>])'
    <3>1. ASSUME NEW t, t = redis[<<r, e>>] PROVE Tracked(r, e, t)'
      BY <1>4, <1>8, <2>1, <3>1 DEF TrackedInv
    <3> QED BY <1>4, <3>1 DEF Tracked
  <2>2. Tracked(progress[h].rule, Reading(h).device, progress[h].state)'
    BY <1>2, <1>5, <1>6, <1>8, <1>12 DEF Tracked
  <2>3. s # NoState
    BY EngineAssumption
  <2> QED BY <1>1, <1>5, <1>6, <1>8, <2>1, <2>2, <2>3 DEF TrackedInv
<1>14. OpenInv'
  BY <1>1, <1>2, <1>4, <1>5, <1>6, <1>8 DEF OpenInv
<1>15. DueInv'
  <2>1. AlertedIfDue(q, h.msg)'
    <3>1. CASE Fires(h)
      <4>1. ASSUME NEW j \in 1 .. h.msg, SameEpisode(q, j, h.msg)'
            PROVE  Alerted(q, j, h.msg)'
        <5>1. j \in 1 .. published
          BY <1>8
        <5>2. SameEpisode(q, j, h.msg)
          BY <1>8, <4>1, <5>1, SameEpisodeKept
        <5> QED BY <1>11, <3>1, <5>2
      <4> QED BY <4>1 DEF AlertedIfDue
    <3>2. CASE ~Fires(h)
      BY <1>1, <1>2, <1>8, <3>2, DueHasAlerted
    <3> QED BY <3>1, <3>2
  <2>2. ASSUME NEW r \in RuleIndices, Past(h, r)' PROVE r = q \/ Past(h, r)
    BY <1>2, <1>5, <1>6, <2>2 DEF Past
  <2>3. ASSUME NEW r \in RuleIndices, Past(h, r)' PROVE AlertedIfDue(r, h.msg)'
    BY <1>8, <2>1, <2>2, <2>3 DEF DueInv
  <2> QED BY <1>1, <1>8, <2>3 DEF DueInv
<1> QED BY <1>9, <1>13, <1>14, <1>15

\* No connection is lost and no Redis command is rejected.
Reliable == outages = 0 /\ redisFailures = 0

LEMMA MissesStep ==
    ASSUME QueueInv, EngineInv, MissesInv, [Next]_vars, Reliable, Reliable'
    PROVE  MissesInv'
<1>1. CASE (\E reading \in Readings : Publish(reading)) \/ Deliver \/ Crash \/ Connectivity
  BY <1>1, MissesQueueStep DEF Reliable
<1>2. CASE HandlerEnds
  BY <1>2, MissesHandlerEndsStep
<1>3. ASSUME NEW h \in handlers, Evaluate(h) PROVE MissesInv'
  BY <1>3, MissesClearStep, MissesDecideStep, MissesStoreStep DEF Evaluate
<1>4. ASSUME NEW h \in handlers, RedisFails(h) PROVE FALSE
  BY <1>4 DEF RedisFails, Reliable
<1>5. CASE UNCHANGED vars
  <2> USE <1>5 DEF vars, queueVars, engineVars
  <2>1. UndisturbedInv'
    BY DEF MissesInv, UndisturbedInv
  <2>2. TrackedInv'
    BY DEF MissesInv, TrackedInv, Tracked, Opens, Alerted, SameEpisode, Reading
  <2>3. OpenInv'
    BY DEF MissesInv, OpenInv, Ended, Reading
  <2>4. DueInv'
    BY DEF MissesInv, DueInv, Past, AlertedIfDue, Opens, Lasts, Alerted, SameEpisode
  <2> QED BY <2>1, <2>2, <2>3, <2>4 DEF MissesInv
<1> QED BY <1>1, <1>2, <1>3, <1>4, <1>5 DEF Next, Rest

\* Faults are counted, so what is reliable now has been so far.
LEMMA ReliableSoFar ==
    ASSUME QueueInv, EngineInv, [Next]_vars, Reliable' PROVE Reliable
<1>1. outages \in Nat /\ redisFailures \in Nat
  BY EngineAssumption DEF QueueInv, QueueProofs!TypeOK, EngineInv, LocalsInv
<1>2. CASE UNCHANGED <<outages, redisFailures>>
  BY <1>2 DEF Reliable
<1>3. ASSUME NEW h \in handlers, RedisFails(h) PROVE FALSE
  BY <1>1, <1>3 DEF RedisFails, Reliable
<1>4. ASSUME NEW h \in handlers, Evaluate(h) PROVE Reliable
  BY <1>2, <1>4 DEF Evaluate, Clear, Decide, Store, queueVars
<1>5. CASE HandlerEnds
  BY <1>2, <1>5 DEF HandlerEnds, Queue!Settle, Queue!boundVars
<1>6. CASE (\E reading \in Readings : Publish(reading)) \/ Deliver
  BY <1>2, <1>6 DEF Publish, Deliver, engineVars, Queue!Publish, Queue!Deliver,
     Queue!boundVars
<1>7. CASE Crash
  BY <1>2, <1>7 DEF Crash, Queue!Crash
<1>8. CASE Connectivity
  <2>1. ~Queue!ConnectionLost
    BY <1>1, <1>8 DEF Queue!ConnectionLost, Reliable
  <2> QED
    BY <1>2, <1>8, <2>1 DEF Connectivity, engineVars, Queue!HandleClose,
       Queue!Reconnect, Queue!boundVars
<1>9. CASE Rest \/ UNCHANGED vars
  BY <1>2, <1>9 DEF Rest, vars, queueVars, engineVars
<1> QED BY <1>3, <1>4, <1>5, <1>6, <1>7, <1>8, <1>9 DEF Next

LEMMA MissesInvariant == Spec => [](Reliable => MissesInv)
<1>1. Init => MissesInv
  BY DEF Init, Queue!Init, MissesInv, UndisturbedInv, TrackedInv, OpenInv, DueInv, Keys
<1>2. (QueueInv /\ EngineInv /\ [Next]_vars) /\ (Reliable => MissesInv)
        => (Reliable => MissesInv)'
  BY MissesStep, ReliableSoFar
<1> QED BY <1>1, <1>2, EngineInvariant, PTL DEF Spec

\* A breach that lasts is reported, for all rules and readings, whatever the
\* crashes and redeliveries: the open episode's state, in Redis or on its way
\* there, starts at the reading that opened it.
THEOREM SustainedBreachIsReported == Spec => []MissesOnlyInOutage
<1>1. ASSUME DueInv PROVE SustainedBreachAlerts
  BY <1>1 DEF DueInv, AlertedIfDue, Alerted, SustainedBreachAlerts
<1>2. (Reliable => MissesInv) => MissesOnlyInOutage
  BY <1>1 DEF Reliable, MissesInv, MissesOnlyInOutage
<1> QED BY <1>2, MissesInvariant, PTL

-----------------------------------------------------------------------------
(* The promise: every rule observes every reading once, in order.          *)

FaultFree == Reliable /\ crashes = 0

\* Readings are completed in order, each once: the handler has the next one,
\* and those queued come after.
NextInLine(n) ==
    /\ handled = 1 .. n
    /\ \A h \in handlers : h.msg = n + 1
    /\ \A m \in ready : n < m /\ \A h \in handlers : h.msg < m
InLineInv == \E n \in Nat : NextInLine(n)

\* The abstract episode of key k.
EpisodeOf(k) ==
    IF Pending(k) = {} THEN redis[k]
    ELSE progress[CHOOSE h \in Pending(k) : TRUE].state

LEMMA ObservedCount ==
    ASSUME NEW n \in Nat
    PROVE  /\ Cardinality(1 .. n) = n
           /\ Cardinality(1 .. n + 1) = n + 1
<1>1. Cardinality(1 .. n) = n
  BY FS_Interval
<1>2. Cardinality(1 .. n + 1) = n + 1
  BY FS_Interval
<1> QED BY <1>1, <1>2

LEMMA EpisodeCases ==
    /\ \A k : Pending(k) = {} => EpisodeOf(k) = redis[k]
    /\ \A k : Pending(k)' = {} => EpisodeOf(k)' = redis'[k]
    /\ \A k, h : Pending(k) = {h} => EpisodeOf(k) = progress[h].state
    /\ \A k, h : Pending(k)' = {h} => EpisodeOf(k)' = progress'[h].state
<1>1. ASSUME NEW S, NEW h, S = {h} PROVE (CHOOSE g \in S : TRUE) = h
  BY <1>1
<1> QED BY <1>1 DEF EpisodeOf

\* What the promise sees of a step.
LEMMA StepSeen ==
    ASSUME readings' = readings, alerts' = alerts,
           \A r \in RuleIndices : ObservedBy(r)' = ObservedBy(r),
           \A k \in Keys : EpisodeOf(k)' = EpisodeOf(k)
    PROVE  UNCHANGED Promise!vars
BY DEF Promise!vars, EpisodeOf

\* A reading arrives.
LEMMA PublishIsArrive ==
    ASSUME QueueInv, EngineInv, InLineInv, NEW reading \in Readings, Publish(reading)
    PROVE  Promise!Arrive /\ InLineInv'
<1> USE DEF EngineInv
<1>1. /\ published < MaxMessages
      /\ published' = published + 1 /\ ready' = ready \union {published + 1}
      /\ handlers' = handlers /\ handled' = handled
      /\ readings' = Append(readings, reading) /\ progress' = progress
      /\ redis' = redis /\ alerts' = alerts
  BY DEF Publish, engineVars, Queue!Publish, Queue!serviceVars
<1>2. /\ readings \in Seq(Readings) /\ Len(readings) = published
      /\ \A h \in handlers : h.msg \in 1 .. published
      /\ published \in Nat /\ handled \subseteq 1 .. published
  BY Basics DEF LocalsInv, FrontierInv
<1>3. \A h \in handlers : Reading(h)' = Reading(h) /\ Key(h)' = Key(h)
  BY <1>1, <1>2 DEF Reading, Key
<1>4. /\ \A r \in RuleIndices : ObservedBy(r)' = ObservedBy(r)
      /\ \A k \in Keys : EpisodeOf(k)' = EpisodeOf(k)
  <2>1. \A r \in RuleIndices : ObservedBy(r)' = ObservedBy(r)
    BY <1>1 DEF ObservedBy, Past
  <2>2. \A k \in Keys : Pending(k)' = Pending(k)
    BY <1>1, <1>3 DEF Pending
  <2>3. \A k : Pending(k) = {} \/ \E h : Pending(k) = {h}
    BY OneHandler DEF Pending
  <2>4. ASSUME NEW k \in Keys PROVE EpisodeOf(k)' = EpisodeOf(k)
    <3>1. CASE Pending(k) = {}
      BY <1>1, <2>2, <3>1, EpisodeCases
    <3>2. ASSUME NEW h, Pending(k) = {h} PROVE EpisodeOf(k)' = EpisodeOf(k)
      <4>1. Pending(k)' = {h}
        BY <2>2, <3>2
      <4>2. EpisodeOf(k) = progress[h].state /\ EpisodeOf(k)' = progress'[h].state
        BY <3>2, <4>1, EpisodeCases
      <4> QED BY <1>1, <4>2
    <3> QED BY <2>3, <3>1, <3>2
  <2> QED BY <2>1, <2>4
<1>5. InLineInv'
  <2>1. PICK n \in Nat : NextInLine(n)
    BY DEF InLineInv
  <2>2. n < published + 1
    <3>1. CASE n = 0
      BY <1>2, <3>1
    <3>2. CASE n # 0
      BY <1>2, <2>1, <3>2 DEF NextInLine
    <3> QED BY <3>1, <3>2
  <2>3. NextInLine(n)'
    BY <1>1, <1>2, <2>1, <2>2 DEF NextInLine
  <2> QED BY <2>3 DEF InLineInv
<1> QED BY <1>1, <1>2, <1>4, <1>5 DEF Promise!Arrive, EpisodeOf

\* A delivery starts a handler that has observed nothing yet; connections that
\* come up concern none.
LEMMA DeliveryIsUnseen ==
    ASSUME QueueInv, QueueInv', EngineInv, MissesInv, InLineInv, FaultFree, FaultFree',
           Deliver \/ Connectivity
    PROVE  UNCHANGED Promise!vars /\ InLineInv'
<1> USE DEF EngineInv
<1>1. PICK n \in Nat : NextInLine(n)
  BY DEF InLineInv
<1>2. CASE Deliver
  <2>1. PICK g \in Queue!HandlerRuns :
          /\ g.msg \in ready /\ handlers = {} /\ handlers' = {g}
          /\ ready' = ready \ {g.msg} /\ dlq' = dlq /\ handled' = handled
          /\ \A m \in ready : g.msg <= m
    BY <1>2, DeliveryIsAlone DEF Deliver
  <2>2. /\ readings' = readings /\ redis' = redis /\ alerts' = alerts
        /\ progress'[g] = AtRule(1)
    BY <1>2, <2>1 DEF Deliver
  <2>3. g.msg = n + 1
    <3>1. g.msg \in Nat /\ n < g.msg /\ \A m \in 1 .. g.msg - 1 : m \in handled' \union dlq'
      BY <1>1, <2>1, Basics
         DEF NextInLine, QueueInv, QueueProofs!SafeInv, QueueProofs!InOrderSoFar
    <3>2. dlq' = {}
      BY <2>1 DEF MissesInv, UndisturbedInv
    <3>3. n + 1 < g.msg => n + 1 \in 1 .. n
      BY <1>1, <2>1, <3>1, <3>2 DEF NextInLine
    <3> QED BY <3>1, <3>3
  <2>4. NextInLine(n)'
    BY <1>1, <2>1, <2>3, Basics DEF NextInLine
  <2>5. \A r \in RuleIndices : ObservedBy(r)' = ObservedBy(r)
    BY <2>1, <2>2, Basics DEF ObservedBy, Past, AtRule
  <2>6. \A k \in Keys : Pending(k) = {} /\ Pending(k)' = {}
    BY <2>1, <2>2 DEF Pending, AtRule
  <2> QED BY <2>2, <2>4, <2>5, <2>6, StepSeen, EpisodeCases DEF InLineInv
<1>3. CASE Connectivity
  <2>1. ~Queue!ConnectionLost
    BY DEF Queue!ConnectionLost, FaultFree, Reliable
  <2>2. /\ handled' = handled /\ handlers' = handlers /\ ready' = ready
        /\ progress' = progress /\ readings' = readings /\ redis' = redis
        /\ alerts' = alerts
    BY <1>3, <2>1 DEF Connectivity, engineVars, Queue!HandleClose,
       Queue!Reconnect, Queue!brokerVars, Queue!serviceVars
  <2>3. \A r \in RuleIndices : ObservedBy(r)' = ObservedBy(r)
    BY <2>2 DEF ObservedBy, Past
  <2>4. \A k \in Keys : EpisodeOf(k)' = EpisodeOf(k)
    BY <2>2 DEF EpisodeOf, Pending, Key, Reading
  <2> QED BY <2>2, <2>3, <2>4, StepSeen DEF InLineInv, NextInLine
<1> QED BY <1>2, <1>3

\* A handler that ends has been past every rule.
LEMMA EndIsUnseen ==
    ASSUME QueueInv, EngineInv, MissesInv, InLineInv, HandlerEnds
    PROVE  UNCHANGED Promise!vars /\ InLineInv'
<1> USE DEF EngineInv
<1>1. PICK h \in handlers :
        (Finished(h) \/ Failed(h)) /\ Queue!Settle(h, Handled(h))
  BY DEF HandlerEnds
<1>2. Finished(h)
  BY <1>1 DEF MissesInv, UndisturbedInv, Failed
<1>3. PICK ok \in BOOLEAN : Queue!Settle(h, ok) /\ ok
  BY <1>1, <1>2, SettledEitherWay DEF Handled
<1>4. /\ handlers' = {} /\ handlers = {h} /\ ready' = ready
      /\ handled' = handled \union {h.msg}
  BY <1>3, SettlesItsOwn
<1>5. readings' = readings /\ redis' = redis /\ alerts' = alerts
  BY DEF HandlerEnds
<1>6. /\ progress[h].step # "store"
      /\ \A r \in RuleIndices : r < progress[h].rule
  BY <1>2, Basics DEF Finished, LocalsInv
<1>7. PICK n \in Nat : NextInLine(n)
  BY DEF InLineInv
<1>8. NextInLine(n + 1)'
  BY <1>4, <1>7, Basics DEF NextInLine
<1>9. \A r \in RuleIndices : ObservedBy(r)' = ObservedBy(r)
  BY <1>4, <1>6, Basics DEF ObservedBy, Past, LocalsInv
<1>10. \A k \in Keys : Pending(k) = {} /\ Pending(k)' = {}
  BY <1>4, <1>6 DEF Pending
<1>11. n + 1 \in Nat
  OBVIOUS
<1> QED BY <1>5, <1>8, <1>9, <1>10, <1>11, StepSeen, EpisodeCases DEF InLineInv

\* The handler at its command: the rule it is at is the only one to observe the
\* reading, and the reading is the next for that rule.
LEMMA AtCommand ==
    ASSUME QueueInv, EngineInv, NEW n \in Nat, NextInLine(n), NEW h \in handlers,
           handlers = {h}, h.msg \in 1 .. published, progress[h].rule \in RuleIndices,
           progress[h].step = "evaluate"
    PROVE  LET q == progress[h].rule IN
           /\ Cardinality(ObservedBy(q)) = n
           /\ n < Len(readings) /\ Reading(h) = readings[n + 1] /\ h.msg = n + 1
           /\ \A k \in Keys : Pending(k) = {} /\ EpisodeOf(k) = redis[k]
<1> DEFINE q == progress[h].rule
<1>1. h.msg = n + 1 /\ handled = 1 .. n
  BY DEF NextInLine
<1>2. Len(Rules) \in Nat /\ RuleIndices = 1 .. Len(Rules) /\ Len(readings) = published
      /\ published \in Nat /\ Reading(h) = readings[h.msg]
  BY Basics DEF EngineInv, LocalsInv
<1>3. ObservedBy(q) = 1 .. n
  BY <1>1, <1>2 DEF ObservedBy, Past
<1>4. \A k \in Keys : Pending(k) = {}
  BY DEF Pending
<1>5. Cardinality(ObservedBy(q)) = n
  BY <1>3, ObservedCount
<1>6. \A k \in Keys : EpisodeOf(k) = redis[k]
  BY <1>4, EpisodeCases
<1> QED BY <1>1, <1>2, <1>4, <1>5, <1>6

\* The promise and the engine judge a reading alike.
LEMMA SameBreach ==
    ASSUME NEW r, NEW reading, Promise!Upcoming(r) = reading
    PROVE  Promise!BreachingNext(r) <=> Breaching(r, reading)
<1>1. \A rule, value : Promise!Breaches(rule, value) <=> Breaches(rule, value)
  BY DEF Breaches, Promise!Breaches, LowerBound, Promise!LowerBound, UpperBound,
     Promise!UpperBound, Threshold, Promise!Threshold, OrElse, Promise!OrElse
<1> QED BY <1>1 DEF Promise!BreachingNext, Breaching, Value

\* Clearing a key ends the episode.
LEMMA ClearIsEnd ==
    ASSUME QueueInv, EngineInv, InLineInv, NEW h \in handlers, Clear(h)
    PROVE  (\E r \in RuleIndices : Promise!EndEpisode(r)) /\ InLineInv'
<1> USE DEF EngineInv
<1>1. /\ handlers = {h} /\ pipeline = <<h>> /\ progress[h].rule \in RuleIndices
      /\ Key(h) = <<progress[h].rule, Reading(h).device>> /\ Key(h) \in Keys
      /\ progress[h].rule + 1 \in 1 .. Len(Rules) + 1
      /\ h.msg \in 1 .. published
  BY Evaluating DEF Clear, Answered, LocalsInv
<1>2. PICK q \in RuleIndices, d \in Devices :
        q = progress[h].rule /\ d = Reading(h).device /\ Key(h) = <<q, d>>
  BY <1>1, Basics
<1> DEFINE p == AtRule(q + 1)
<1>3. /\ redis' = [redis EXCEPT ![<<q, d>>] = NoState] /\ Proceed(h, p)
      /\ alerts' = alerts /\ UNCHANGED <<queueVars, readings>>
      /\ progress[h].step = "evaluate" /\ ~Breaching(q, Reading(h))
  BY <1>2 DEF Clear, NextRule, Answered, BreachingNow
<1>4. p \in Locals /\ p.step = "evaluate" /\ p.rule = q + 1
  BY <1>1, <1>2 DEF AtRule, Locals, Steps
<1>5. DOMAIN progress' = {h} /\ progress'[h] = p
  BY <1>1, <1>3, <1>4, Proceeding
<1> HIDE DEF p
<1>6. PICK n \in Nat : NextInLine(n)
  BY DEF InLineInv
<1>7. /\ Cardinality(ObservedBy(q)) = n /\ handled = 1 .. n
      /\ n < Len(readings) /\ Reading(h) = readings[n + 1] /\ h.msg = n + 1
      /\ \A k \in Keys : EpisodeOf(k) = redis[k]
  BY <1>1, <1>2, <1>3, <1>6, AtCommand DEF NextInLine
<1>8. handlers' = handlers /\ handled' = handled /\ ready' = ready /\ readings' = readings
  BY <1>3 DEF queueVars
<1>9. /\ ObservedBy(q)' = 1 .. n + 1
      /\ \A r \in RuleIndices : r # q => ObservedBy(r)' = ObservedBy(r)
  <2>1. Len(Rules) \in Nat /\ RuleIndices = 1 .. Len(Rules)
    BY Basics
  <2>2. /\ progress[h].rule = q /\ progress[h].step = "evaluate"
        /\ progress'[h].rule = q + 1 /\ progress'[h].step = "evaluate"
    BY <1>2, <1>3, <1>4, <1>5
  <2>3. Past(h, q)' /\ \A r \in RuleIndices : r # q => (Past(h, r)' <=> Past(h, r))
    BY <2>1, <2>2 DEF Past
  <2>4. handled \union {h.msg} = 1 .. n + 1
    BY <1>7
  <2> QED BY <1>1, <1>8, <2>3, <2>4 DEF ObservedBy
<1>10. \A k \in Keys : EpisodeOf(k)' = redis'[k]
  BY <1>1, <1>4, <1>5, <1>8, EpisodeCases DEF Pending
<1>11. Promise!Observe(q)
  BY <1>7, <1>8, <1>9, ObservedCount DEF Promise!Observe
<1>12. Promise!Upcoming(q) = Reading(h)
  BY <1>2, <1>7 DEF Promise!Upcoming
<1>13. ~Promise!BreachingNext(q) /\ Promise!Key(q) = <<q, d>>
  BY <1>2, <1>3, <1>12, SameBreach DEF Promise!Key
<1>14. [k \in Keys |-> EpisodeOf(k)]' =
           [[k \in Keys |-> EpisodeOf(k)] EXCEPT ![<<q, d>>] = NoState]
  <2>1. redis \in [Keys -> BreachStates \union {NoState}]
    BY DEF LocalsInv
  <2> QED BY <1>3, <1>7, <1>10, <2>1
<1>15. Promise!EndEpisode(q)
  BY <1>3, <1>11, <1>13, <1>14 DEF Promise!EndEpisode, EpisodeOf
<1>16. InLineInv'
  BY <1>6, <1>8 DEF InLineInv, NextInLine
<1> QED BY <1>15, <1>16

\* The SET brings Redis to where the promise is already.
LEMMA StoreIsUnseen ==
    ASSUME QueueInv, EngineInv, InLineInv, NEW h \in handlers, Store(h)
    PROVE  UNCHANGED Promise!vars /\ InLineInv'
<1> USE DEF EngineInv
<1>1. /\ handlers = {h} /\ pipeline = <<h>> /\ progress[h].rule \in RuleIndices
      /\ Key(h) = <<progress[h].rule, Reading(h).device>> /\ Key(h) \in Keys
      /\ progress[h].rule + 1 \in 1 .. Len(Rules) + 1
  BY Evaluating DEF Store, Answered
<1>2. PICK q \in RuleIndices, d \in Devices :
        q = progress[h].rule /\ d = Reading(h).device /\ Key(h) = <<q, d>>
  BY <1>1, Basics
<1> DEFINE p == AtRule(q + 1)
           s == progress[h].state
<1>3. /\ redis' = [redis EXCEPT ![<<q, d>>] = s] /\ Proceed(h, p)
      /\ alerts' = alerts /\ UNCHANGED <<queueVars, readings>>
      /\ progress[h].step = "store"
  BY <1>2 DEF Store, NextRule, Answered
<1>4. p \in Locals /\ p.step = "evaluate" /\ p.rule = q + 1
  BY <1>1, <1>2 DEF AtRule, Locals, Steps
<1>5. DOMAIN progress' = {h} /\ progress'[h] = p
  BY <1>1, <1>3, <1>4, Proceeding
<1> HIDE DEF p
<1>6. handlers' = handlers /\ handled' = handled /\ ready' = ready /\ readings' = readings
  BY <1>3 DEF queueVars
<1>7. \A r \in RuleIndices : ObservedBy(r)' = ObservedBy(r)
  <2>1. /\ progress[h].rule = q /\ progress[h].step = "store"
        /\ progress'[h].rule = q + 1 /\ progress'[h].step = "evaluate"
        /\ q \in Nat /\ RuleIndices \subseteq Nat
    BY <1>2, <1>3, <1>4, <1>5, Basics
  <2>2. ASSUME NEW r \in RuleIndices PROVE Past(h, r)' <=> Past(h, r)
    <3>1. q + 1 > r <=> q > r \/ q = r
      BY <2>1
    <3> QED BY <2>1, <3>1 DEF Past
  <2> QED BY <1>1, <1>6, <2>2 DEF ObservedBy
<1>8. \A k \in Keys : EpisodeOf(k)' = redis'[k]
  BY <1>1, <1>4, <1>5, <1>6, EpisodeCases DEF Pending
<1>9. \A k \in Keys : EpisodeOf(k) = redis'[k]
  <2>1. /\ redis \in [Keys -> BreachStates \union {NoState}] /\ <<q, d>> \in Keys
        /\ Key(h) = <<q, d>>
    BY <1>1, <1>2 DEF LocalsInv
  <2>2. Pending(<<q, d>>) = {h} /\ \A k \in Keys : k # <<q, d>> => Pending(k) = {}
    BY <1>1, <1>3, <2>1 DEF Pending
  <2>3. EpisodeOf(<<q, d>>) = s
    BY <2>2, EpisodeCases
  <2>4. \A k \in Keys : k # <<q, d>> => EpisodeOf(k) = redis[k]
    BY <2>2, EpisodeCases
  <2> HIDE DEF s
  <2> QED BY <1>3, <2>1, <2>3, <2>4
<1>10. InLineInv'
  BY <1>6 DEF InLineInv, NextInLine
<1> QED BY <1>3, <1>6, <1>7, <1>8, <1>9, <1>10, StepSeen

\* The decision continues the episode, and alerts if it is due.
LEMMA DecideIsObserve ==
    ASSUME QueueInv, EngineInv, MissesInv, InLineInv, NEW h \in handlers, Decide(h)
    PROVE  /\ \E r \in RuleIndices : Promise!ContinueEpisode(r) \/ Promise!RaiseAlert(r)
           /\ InLineInv'
<1> USE DEF EngineInv
<1>1. /\ handlers = {h} /\ pipeline = <<h>> /\ h = Head(pipeline)
      /\ progress[h].rule \in RuleIndices /\ h.msg \in 1 .. published
      /\ Key(h) = <<progress[h].rule, Reading(h).device>>
      /\ BreachingNow(h) /\ progress[h].step = "evaluate" /\ State(h) \in BreachStates
      /\ StateToStore(h) \in BreachStates
      /\ pipeline # << >> /\ link # 0
  BY Evaluating, StateIsJustified DEF Decide, Answered, MissesInv, UndisturbedInv, LocalsInv
<1>2. PICK q \in RuleIndices, d \in Devices, s \in BreachStates :
        /\ q = progress[h].rule /\ d = Reading(h).device /\ Key(h) = <<q, d>>
        /\ s = StateToStore(h)
  BY <1>1, Basics
<1> DEFINE p == [rule |-> q, step |-> "store", state |-> s]
<1>3. /\ Proceed(h, p) /\ UNCHANGED <<queueVars, readings>> /\ redis' = redis
      /\ alerts' = IF Fires(h) THEN Append(alerts, [rule |-> q, msg |-> h.msg]) ELSE alerts
  BY <1>1, <1>2 DEF Decide, Emit
<1>4. p \in Locals /\ p.rule = q /\ p.step = "store" /\ p.state = s
  <2>1. RuleIndices = 1 .. Len(Rules) /\ Len(Rules) \in Nat
    BY Basics
  <2> QED BY <2>1 DEF Locals, Steps
<1>5. DOMAIN progress' = {h} /\ progress'[h] = p
  BY <1>1, <1>3, <1>4, Proceeding
<1> HIDE DEF p
<1>6. PICK n \in Nat : NextInLine(n)
  BY DEF InLineInv
<1>7. /\ Cardinality(ObservedBy(q)) = n /\ handled = 1 .. n
      /\ n < Len(readings) /\ Reading(h) = readings[n + 1] /\ h.msg = n + 1
      /\ \A k \in Keys : EpisodeOf(k) = redis[k]
  BY <1>1, <1>2, <1>6, AtCommand DEF NextInLine
<1>8. handlers' = handlers /\ handled' = handled /\ ready' = ready /\ readings' = readings
  BY <1>3 DEF queueVars
<1>9. /\ ObservedBy(q)' = 1 .. n + 1
      /\ \A r \in RuleIndices : r # q => ObservedBy(r)' = ObservedBy(r)
  <2>1. /\ progress[h].rule = q /\ progress[h].step = "evaluate"
        /\ progress'[h].rule = q /\ progress'[h].step = "store"
        /\ Len(Rules) \in Nat /\ RuleIndices = 1 .. Len(Rules)
    BY <1>1, <1>2, <1>4, <1>5, Basics
  <2>2. Past(h, q)' /\ \A r \in RuleIndices : r # q => (Past(h, r)' <=> Past(h, r))
    BY <2>1 DEF Past
  <2>3. handled \union {h.msg} = 1 .. n + 1
    BY <1>7
  <2> QED BY <1>1, <1>8, <2>2, <2>3 DEF ObservedBy
<1>10. [k \in Keys |-> EpisodeOf(k)]' =
           [[k \in Keys |-> EpisodeOf(k)] EXCEPT ![<<q, d>>] = s]
  <2>1. Key(h)' = <<q, d>> /\ <<q, d>> \in Keys
    BY <1>2, <1>4, <1>5, <1>8 DEF Key, Reading, Keys
  <2>2. Pending(<<q, d>>)' = {h} /\ \A k \in Keys : k # <<q, d>> => Pending(k)' = {}
    BY <1>1, <1>4, <1>5, <1>8, <2>1 DEF Pending
  <2>3. EpisodeOf(<<q, d>>)' = s
    BY <1>4, <1>5, <2>2, EpisodeCases
  <2>4. \A k \in Keys : k # <<q, d>> => EpisodeOf(k)' = EpisodeOf(k)
    BY <1>3, <1>7, <2>2, EpisodeCases
  <2> QED BY <2>1, <2>3, <2>4
<1>11. Promise!Observe(q)
  BY <1>7, <1>8, <1>9, ObservedCount DEF Promise!Observe
<1>12. Promise!Upcoming(q) = Reading(h)
  BY <1>2, <1>7 DEF Promise!Upcoming
<1>13. Promise!BreachingNext(q) /\ Promise!Key(q) = <<q, d>>
  BY <1>1, <1>2, <1>12, SameBreach DEF Promise!Key, BreachingNow
<1>14. Promise!Open(q) = State(h)
  <2>1. <<q, d>> \in Keys /\ Key(h) = <<q, d>>
    BY <1>2 DEF Keys
  <2> QED BY <1>7, <1>12, <1>13, <2>1 DEF Promise!Open, State, BreachStart, EpisodeOf
<1>15. Promise!Due(q) <=> Fires(h)
  BY <1>2, <1>12, <1>14 DEF Promise!Due, Fires, Sustained
<1>16. s = IF Fires(h) THEN [State(h) EXCEPT !.fired = TRUE] ELSE State(h)
  <2>1. ASSUME NEW S, NEW t \in [breachStart : S, fired : BOOLEAN]
        PROVE  /\ [t EXCEPT !.fired = @ \/ FALSE] = t
               /\ [t EXCEPT !.fired = @ \/ TRUE] = [t EXCEPT !.fired = TRUE]
    BY <2>1
  <2>2. CASE Fires(h)
    BY <1>1, <1>2, <2>1, <2>2 DEF StateToStore, BreachStates
  <2>3. CASE ~Fires(h)
    BY <1>1, <1>2, <2>1, <2>3 DEF StateToStore, BreachStates
  <2> QED BY <2>2, <2>3
<1>17. ASSUME ~Fires(h) PROVE Promise!ContinueEpisode(q)
  BY <1>3, <1>10, <1>11, <1>13, <1>14, <1>15, <1>16, <1>17
     DEF Promise!ContinueEpisode, EpisodeOf
<1>18. ASSUME Fires(h) PROVE Promise!RaiseAlert(q)
  <2>1. [r \in RuleIndices |-> Cardinality(ObservedBy(r))]'[q] = h.msg
    BY <1>7, <1>9, ObservedCount
  <2> QED
    BY <1>3, <1>10, <1>11, <1>13, <1>14, <1>15, <1>16, <1>18, <2>1
       DEF Promise!RaiseAlert, EpisodeOf
<1>19. InLineInv'
  BY <1>6, <1>8 DEF InLineInv, NextInLine
<1> QED BY <1>17, <1>18, <1>19

LEMMA PromiseInit == Init => Promise!Init /\ InLineInv
<1> SUFFICES ASSUME Init PROVE Promise!Init /\ InLineInv
  OBVIOUS
<1>1. handlers = {} /\ handled = {} /\ ready = {} /\ redis = [k \in Keys |-> NoState]
  BY DEF Init, Queue!Init
<1>2. \A r \in RuleIndices : Cardinality(ObservedBy(r)) = 0
  BY <1>1, FS_EmptySet DEF ObservedBy
<1>3. \A k \in Keys : EpisodeOf(k) = NoState
  BY <1>1, EpisodeCases DEF Pending
<1>4. NextInLine(0)
  BY <1>1 DEF NextInLine
<1>5. InLineInv
  BY <1>4 DEF InLineInv
<1>6. /\ [r \in RuleIndices |-> Cardinality(ObservedBy(r))] = [r \in RuleIndices |-> 0]
      /\ [k \in Keys |-> EpisodeOf(k)] = [k \in Keys |-> NoState]
  BY <1>2, <1>3
<1> QED BY <1>5, <1>6 DEF Init, Promise!Init, Promise!Keys, Keys, RuleIndices, EpisodeOf

LEMMA PromiseStep ==
    ASSUME QueueInv, QueueInv', EngineInv, MissesInv, InLineInv, [Next]_vars,
           FaultFree, FaultFree'
    PROVE  [Promise!Next]_Promise!vars /\ InLineInv'
<1>1. ASSUME NEW reading \in Readings, Publish(reading)
      PROVE  [Promise!Next]_Promise!vars /\ InLineInv'
  BY <1>1, PublishIsArrive DEF Promise!Next
<1>2. CASE Deliver \/ Connectivity
  BY <1>2, DeliveryIsUnseen
<1>3. CASE HandlerEnds
  BY <1>3, EndIsUnseen
<1>4. ASSUME NEW h \in handlers, Clear(h) \/ Decide(h)
      PROVE  [Promise!Next]_Promise!vars /\ InLineInv'
  BY <1>4, ClearIsEnd, DecideIsObserve DEF Promise!Next, RuleIndices
<1>5. ASSUME NEW h \in handlers, Store(h)
      PROVE  [Promise!Next]_Promise!vars /\ InLineInv'
  BY <1>5, StoreIsUnseen
<1>6. ASSUME Crash \/ \E h \in handlers : RedisFails(h) PROVE FALSE
  BY <1>6 DEF Crash, Queue!Crash, RedisFails, FaultFree, Reliable
<1>7. CASE UNCHANGED vars
  <2>1. \A r \in RuleIndices : ObservedBy(r)' = ObservedBy(r)
    BY <1>7 DEF vars, queueVars, engineVars, ObservedBy, Past
  <2>2. \A k \in Keys : EpisodeOf(k)' = EpisodeOf(k)
    BY <1>7 DEF vars, queueVars, engineVars, EpisodeOf, Pending, Key, Reading
  <2>3. readings' = readings /\ alerts' = alerts
    BY <1>7 DEF vars, engineVars
  <2>4. InLineInv'
    BY <1>7 DEF vars, queueVars, InLineInv, NextInLine
  <2> QED BY <2>1, <2>2, <2>3, <2>4, StepSeen
<1> QED BY <1>1, <1>2, <1>3, <1>4, <1>5, <1>6, <1>7 DEF Next, Evaluate, Rest

\* The rule engine implements AlertEpisodes in every behaviour without a fault,
\* for all rules, devices and readings: evaluation over a queue, through a
\* handler that awaits Redis twice for each rule, is one atomic observation of
\* each reading by each rule, in order.
THEOREM ImplementsPromise == Spec /\ []FaultFree => Promise!Spec
<1>1. (QueueInv /\ QueueInv' /\ EngineInv /\ (Reliable => MissesInv) /\ [Next]_vars
         /\ FaultFree /\ FaultFree' /\ InLineInv)
        => [Promise!Next]_Promise!vars /\ InLineInv'
  BY PromiseStep DEF FaultFree
<1> QED
  BY <1>1, PromiseInit, EngineInvariant, MissesInvariant, PTL DEF Spec, Promise!Spec

=============================================================================
