----------------------------- MODULE RuleEngine -----------------------------
(***************************************************************************)
(* The threshold rules of the rule engine on top of its queue: each        *)
(* reading taken from rule-engine.telemetry is evaluated against every     *)
(* rule in turn, the breach state of (rule, device) being read from Redis, *)
(* decided on and written back across awaits, the alert published in       *)
(* between on the same connection the reading came from.                   *)
(*                                                                         *)
(* Message m of the queue carries readings[m].  Times are in the unit of   *)
(* sustainSeconds.                                                         *)
(***************************************************************************)
EXTENDS RuleSchema, Sequences, FiniteSets

CONSTANTS
    Rules,           \* the threshold rules, in the order of rules.json
    Devices,
    Readings,        \* possible readings: [device, timestamp, sample], sample
                     \* giving the value of each metric
    NoState,         \* no value at a Redis key
    MaxRedisFailures,\* bound: Redis commands that are rejected
    MaxMessages, MaxOutages, MaxCrashes

\* Rules the schema rejects stop the service at its start.
RulesLoaded ==
    \A r \in DOMAIN Rules :
        Rules[r].operator \in Operators /\ Accepts(Rules[r])
ASSUME RulesAssumption == RulesLoaded

\* A breach state: when the breach started, and whether it has alerted.
BreachStates ==
    [breachStart : {reading.timestamp : reading \in Readings}, fired : BOOLEAN]

ASSUME EngineAssumption ==
    /\ NoState \notin BreachStates
    /\ Rules \in Seq({Rules[r] : r \in DOMAIN Rules})
    /\ \A reading \in Readings : reading.device \in Devices
    /\ {MaxRedisFailures, MaxMessages, MaxOutages, MaxCrashes} \subseteq Nat

VARIABLES
    published, ready, unacked, dlq, link, lastTag, epoch, channel, handlers,
    handled, late, outages, crashes,      \* as in RabbitMqConsumer
    readings,    \* the readings published, in order
    progress,    \* of each handler: [rule, step, state], its locals
    pipeline,    \* handlers whose Redis command is out, in order of issue
    redis,       \* breach state at the key of <<rule, device>>
    alerts,      \* alert.triggered events the broker took: [rule, msg]
    redisFailures

Queue == INSTANCE RabbitMqConsumer

queueVars ==
    <<published, ready, unacked, dlq, link, lastTag, epoch, channel, handlers,
      handled, late, outages, crashes>>
engineVars == <<progress, pipeline, redis, alerts, redisFailures>>
vars == <<queueVars, readings, engineVars>>

RuleIndices == DOMAIN Rules
Keys == RuleIndices \X Devices

Init ==
    /\ Queue!Init
    /\ readings = << >>
    /\ progress = << >> /\ pipeline = << >>
    /\ redis = [k \in Keys |-> NoState]
    /\ alerts = << >>
    /\ redisFailures = 0

Value(rule, reading) == reading.sample[rule.metric]
Breaching(r, reading) == Breaches(Rules[r], Value(Rules[r], reading))

-----------------------------------------------------------------------------
(* The locals of handleTelemetry, and the commands it awaits.  Commands go  *)
(* to Redis on one connection: they are executed and answered in the order *)
(* in which the handlers issued them.                                      *)

Reading(h) == readings[h.msg]

Key(h) == <<progress[h].rule, Reading(h).device>>
BreachingNow(h) == Breaching(progress[h].rule, Reading(h))

\* At rule r the DEL (not breaching) or the GET (breaching) is out.
AtRule(r) == [rule |-> r, step |-> "evaluate", state |-> NoState]
Issue(h, p) == IF p.rule \in RuleIndices THEN <<h>> ELSE << >>

\* The command answered is h's, and h runs on to its next await.
Answered(h, step) ==
    /\ pipeline # << >> /\ h = Head(pipeline)
    /\ progress[h].step = step
Proceed(h, p) ==
    /\ progress' = [progress EXCEPT ![h] = p]
    /\ pipeline' = Tail(pipeline) \o Issue(h, p)
NextRule(h) == Proceed(h, AtRule(progress[h].rule + 1))

-----------------------------------------------------------------------------
(* The queue, with the handlers of this service.                           *)

\* Ingestion publishes telemetry.received.
Publish(reading) ==
    /\ Queue!Publish
    /\ readings' = Append(readings, reading)
    /\ UNCHANGED engineVars

\* handleTelemetry starts at the first rule.
Deliver ==
    /\ Queue!Deliver
    /\ progress' = [h \in handlers' |->
                       IF h \in handlers THEN progress[h] ELSE AtRule(1)]
    /\ \E h \in handlers' \ handlers :
          pipeline' = pipeline \o Issue(h, AtRule(1))
    /\ UNCHANGED <<readings, redis, alerts, redisFailures>>

\* handleTelemetry returns after the last rule, or rejects with the command.
Finished(h) == progress[h].rule > Len(Rules)
Failed(h) == progress[h].step = "failed"

\* Variant: a rejected command is caught inside the handler.
Swallowed(h) == TRUE

Handled(h) == Finished(h)
HandlerEnds ==
    /\ \E h \in handlers :
          (Finished(h) \/ Failed(h)) /\ Queue!Settle(h, Handled(h))
    /\ progress' = [h \in handlers' |-> progress[h]]
    /\ UNCHANGED <<readings, pipeline, redis, alerts, redisFailures>>

Crash ==
    /\ Queue!Crash
    /\ progress' = << >> /\ pipeline' = << >>
    /\ UNCHANGED <<readings, redis, alerts, redisFailures>>

\* Handlers end within the reconnect backoff: here none is late.
BackoffOutlastsHandlers == handlers = {}
Connectivity ==
    /\ \/ Queue!ConnectionLost \/ Queue!HandleClose
       \/ Queue!Reconnect /\ BackoffOutlastsHandlers
    /\ UNCHANGED <<readings, engineVars>>

-----------------------------------------------------------------------------
(* evaluate: one action per stretch of code between two awaits.            *)

\* Not breaching: the DEL, and on to the next rule.
Clear(h) ==
    /\ Answered(h, "evaluate") /\ ~BreachingNow(h)
    /\ redis' = [redis EXCEPT ![Key(h)] = NoState]
    /\ NextRule(h)
    /\ UNCHANGED <<queueVars, readings, alerts, redisFailures>>

\* Variant: the start in milliseconds against a window in seconds.
BreachStartMs(h) ==
    [breachStart |-> Reading(h).timestamp * 1000, fired |-> FALSE]

\* Breaching: the GET; without a state the breach starts with this reading.
BreachStart(h) == [breachStart |-> Reading(h).timestamp, fired |-> FALSE]

State(h) == IF redis[Key(h)] # NoState THEN redis[Key(h)] ELSE BreachStart(h)

\* Variant: the window must be exceeded.
Outlasted(rule, state, reading) ==
    reading.timestamp - state.breachStart > rule.sustainSeconds

Sustained(rule, state, reading) ==
    reading.timestamp - state.breachStart >= rule.sustainSeconds
Fires(h) ==
    ~State(h).fired /\ Sustained(Rules[progress[h].rule], State(h), Reading(h))

\* Variant: the alert is not recorded in the state.
StateAsRead(h) == State(h)

StateToStore(h) == [State(h) EXCEPT !.fired = @ \/ Fires(h)]

\* publish neither confirms nor retries: without a channel it is skipped, on a
\* dead one the bytes go nowhere.
Emit(alert) == alerts' = IF link # 0 THEN Append(alerts, alert) ELSE alerts

\* The decision, the alert, and the SET issued.
Decide(h) ==
    /\ Answered(h, "evaluate") /\ BreachingNow(h)
    /\ IF Fires(h) THEN Emit([rule |-> progress[h].rule, msg |-> h.msg])
                   ELSE UNCHANGED alerts
    /\ Proceed(h, [rule |-> progress[h].rule, step |-> "store",
                   state |-> StateToStore(h)])
    /\ UNCHANGED <<queueVars, readings, redis, redisFailures>>

\* The SET, and on to the next rule.
Store(h) ==
    /\ Answered(h, "store")
    /\ redis' = [redis EXCEPT ![Key(h)] = progress[h].state]
    /\ NextRule(h)
    /\ UNCHANGED <<queueVars, readings, alerts, redisFailures>>

\* A command is rejected after its retries; a DEL or a SET may have been
\* executed all the same (progress[h].state is NoState until the SET).
Executed(h) ==
    IF Answered(h, "evaluate") /\ BreachingNow(h)
    THEN {redis[Key(h)]}
    ELSE {redis[Key(h)], progress[h].state}
RedisFails(h) ==
    /\ redisFailures < MaxRedisFailures
    /\ redisFailures' = redisFailures + 1
    /\ pipeline # << >> /\ h = Head(pipeline)
    /\ \E v \in Executed(h) : redis' = [redis EXCEPT ![Key(h)] = v]
    /\ progress' = [progress EXCEPT ![h].step = "failed"]
    /\ pipeline' = Tail(pipeline)
    /\ UNCHANGED <<queueVars, readings, alerts>>

Evaluate(h) == Clear(h) \/ Decide(h) \/ Store(h)

Rest == Queue!Rest /\ UNCHANGED vars

Next ==
    \/ \E reading \in Readings : Publish(reading)
    \/ Deliver \/ HandlerEnds \/ Crash \/ Connectivity
    \/ \E h \in handlers : Evaluate(h) \/ RedisFails(h)
    \/ Rest

Spec == Init /\ [][Next]_vars

\* Handlers run on, deliveries and reconnects happen (see RabbitMqConsumer).
Fairness ==
    /\ WF_vars(Deliver) /\ WF_vars(HandlerEnds) /\ WF_vars(Connectivity)
    /\ WF_vars(\E h \in handlers : Evaluate(h))
FairSpec == Spec /\ Fairness

-----------------------------------------------------------------------------
(* Properties, stated over the log of readings alone.                      *)

\* Types: those of the queue; every handler has its locals, and a state in
\* Redis starts at the time of some reading, in its unit.
TypeOK ==
    /\ Queue!TypeOK
    /\ readings \in Seq(Readings) /\ Len(readings) = published
    /\ DOMAIN progress = handlers
    /\ redis \in [Keys -> BreachStates \union {NoState}]
    /\ \A i \in DOMAIN alerts : alerts[i].rule \in RuleIndices
                               /\ alerts[i].msg \in 1 .. published
    /\ redisFailures \in 0 .. MaxRedisFailures

\* Readings j and m are of one episode of rule r: one device, and every reading
\* of that device from j to m breaches.  Dead-lettered readings do not count:
\* a reading whose evaluation failed is out of the log.
SameEpisode(r, j, m) ==
    /\ readings[j].device = readings[m].device
    /\ Breaching(r, readings[j])
    /\ \A k \in j .. m :
          readings[k].device = readings[m].device /\ k \notin dlq =>
              Breaching(r, readings[k])

Lasts(r, j, m) ==
    readings[m].timestamp - readings[j].timestamp >= Rules[r].sustainSeconds

\* A transient spike pages no one: behind every alert lies an unbroken breach,
\* from some reading to the alert's, that lasted for the sustain window.  (Here as
\* below, as long as handlers end within the reconnect backoff.)
TransientSpikesNeverPage ==
    \A i \in DOMAIN alerts : LET a == alerts[i] IN
        \E j \in 1 .. a.msg : SameEpisode(a.rule, j, a.msg) /\ Lasts(a.rule, j, a.msg)

\* Between two alerts of one rule for one device lies a reading that ended the
\* first one's episode.
AtMostOncePerEpisode ==
    \A i, j \in DOMAIN alerts : LET a == alerts[i] b == alerts[j] IN
        i < j /\ a.rule = b.rule => ~SameEpisode(a.rule, a.msg, b.msg)

\* Reading j opens an episode of rule r.
Opens(r, j) ==
    /\ Breaching(r, readings[j])
    /\ \A i \in 1 .. j - 1 : ~SameEpisode(r, i, j)

\* Once a reading that has sustained its episode is evaluated to the end, the
\* broker holds an alert of that episode.
SustainedBreachAlerts ==
    \A m \in handled, r \in RuleIndices : \A j \in 1 .. m :
        Opens(r, j) /\ SameEpisode(r, j, m) /\ Lasts(r, j, m) =>
            \E i \in DOMAIN alerts :
                /\ alerts[i].rule = r
                /\ alerts[i].msg \in j .. m
                /\ SameEpisode(r, j, alerts[i].msg)

\* An episode alerts at most once through every outage and redelivery: only a
\* crash or a rejected SET, between the alert and the state that records it,
\* makes it alert again.
RepeatsOnlyAfterCrash ==
    crashes = 0 /\ redisFailures = 0 => AtMostOncePerEpisode

\* A sustained breach alerts through every crash and redelivery: only an alert
\* published while there is no connection goes missing, and a Redis command
\* that is rejected but executed.
MissesOnlyInOutage ==
    outages = 0 /\ redisFailures = 0 => SustainedBreachAlerts

\* Episodes "fire exactly once per episode", as the README has it.
ExactlyOncePerEpisode == AtMostOncePerEpisode /\ SustainedBreachAlerts

-----------------------------------------------------------------------------
(* The rule engine implements AlertEpisodes where nothing fails: a rule    *)
(* observes a reading at the DEL or at the decision, ahead of the SET.     *)

Past(h, r) ==
    \/ progress[h].rule > r
    \/ progress[h].rule = r /\ progress[h].step = "store"
ObservedBy(r) ==
    handled \union {h.msg : h \in {g \in handlers : Past(g, r)}}
Pending(k) == {h \in handlers : progress[h].step = "store" /\ Key(h) = k}

Promise == INSTANCE AlertEpisodes WITH
    observed <- [r \in RuleIndices |-> Cardinality(ObservedBy(r))],
    episode <- [k \in Keys |->
                   IF Pending(k) = {} THEN redis[k]
                   ELSE progress[CHOOSE h \in Pending(k) : TRUE].state]

\* The rule engine's steps are those of the promise: each rule observes each
\* reading exactly once, in order, and alerts exactly when it is due; and it
\* does observe every reading.
ImplementsEpisodes == Promise!FairSpec

=============================================================================
