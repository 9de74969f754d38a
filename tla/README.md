# A verification of the IoT telemetry platform

TLA+ models of the platform's services and of the messaging code they share,
the TLC configurations that check them, and proofs checked by TLAPS. Paths
below are relative to the repository; line numbers refer to the same commit.

## 1. The system

```
devices --MQTT--> ingestion-service --INSERT/upsert--> TimescaleDB <--SELECT-- query-api
                        |      \--pipeline SET--> Redis device:<id>:last <--GET--/
                        | telemetry.received (RabbitMQ, topic exchange)
                        v
                   rule-engine --GET/SET/DEL--> Redis rule:<rule>:<device>
                        | alert.triggered        (and a 30 s sweep over devices)
                        v
                   notification-service --INSERT--> TimescaleDB, --POST--> webhook
```

### Components, their state, their operations

| Component (source) | State | Operations | Hard behaviours |
|---|---|---|---|
| `RabbitMqService`, consuming (`packages/common/src/messaging/rabbitmq.service.ts:118-154`) | channel, handlers running across awaits; at the broker the queue, the deliveries not settled, the dead-letter queue | deliver, run handler, ack/nack | handlers not awaited by the callback; settlement on the channel current at the end; redelivery after an outage or a crash |
| `RabbitMqService`, connection (same file `:29-116`, `:156-160`) | `connection`, `channel`, `consumers`, `reconnecting`, `closing`, `reconnectDelayMs`, timers | onModuleInit, consume, establish, handleClose, scheduleReconnect, reconnect, onApplicationShutdown | `close` at any await, one flag guarding a chain of timers, shutdown while reconnecting |
| Rule schema (`apps/rule-engine/src/rules/rule.schema.ts`) | none | schema refinement, `evaluateRule` | bounds, absent bounds, ranges written upside down |
| Rule engine, threshold rules (`rule-engine.service.ts:47-110`) | breach state per rule and device in Redis | handleTelemetry, evaluate, fireAlert | read, decide, write across awaits; alert published before its record; rejected commands |
| Rule engine, connectivity sweep (`rule-engine.service.ts:112-162`) | `fired` keys in Redis | sweepConnectivity, evaluateConnectivity | sweeps that overlap, rows read before and used after awaits |
| Ingestion (`ingestion.service.ts`, `mqtt.subscriber.ts`, `device-shadow.service.ts`) | `buffer`, `flushChain`, timer; telemetry and devices tables, shadows | handleMessage, enqueue, scheduleFlush, flush, persist, update, both shutdown hooks | one flush at a time, failed transactions, crash between commit and events, shutdown hooks side by side, shadows not awaited |
| Notification (`notification.service.ts`) | alerts table | handleAlert, deliver | redelivery after the insert, webhook not awaited |
| Query API (`apps/query-api/src`) | none of its own | device list and view, series, alerts; over REST and gRPC | fields left out and empty, boundary of ONLINE, a store that fails, two stores read one after the other |
| Wire contract (`packages/types/src/telemetry.ts`, `mqtt.subscriber.ts:42-72`) | none | parseDeviceIdFromTopic, TelemetrySchema, the order of handleMessage's checks | topics of other depth, devices on another's topic |
| Simulator (`scripts/simulate-devices.ts`) | a fleet, `timer`, the MQTT client's outbox | createFleet, drift, tick, connect, shutdown | clamping and rounding against the schema; a timer per reconnect; readings sent again |
| MQTT link (`mqtt.subscriber.ts:20-40`, the broker, the simulator's client) | two connections, a subscription, messages on their way | connect, subscribe, publish, deliver | either connection lost at any time, a subscription refused |
| Database views (`03-aggregates.sql`) | buckets materialised | refresh, retention | buckets not refreshed yet, or refreshed before a reading arrived |
| HTTP pipes, filters, metrics (`packages/common/src`) | a counter and a gauge | transform, catch, intercept | what each failure is answered with; the order of interceptor and filter |
| Environment validation, logging, secrets (`packages/common/src/config`, `logging`) | none | | |

The components meet in five places: the MQTT topics (devices to ingestion), the
RabbitMQ queues (ingestion to rule
engine to notification), the one AMQP connection of each service (an alert is
published on the connection the reading came from), Redis (shadows written by
ingestion and read by the query API; breach states) and TimescaleDB (devices
written by ingestion and read by the sweep and the query API).

What makes each component correct is stated with its module in section 3; what
can go wrong where, line by line, is the hazard list of `PROJECT.json`.

## 2. Modules

| Module | Models | Extends / instantiates |
|---|---|---|
| `RabbitMqConsumer` | a queue and its consumer | |
| `RabbitMqConsumerProofs` | theorems about it | `RabbitMqConsumer` |
| `RabbitMqConnection` | connection, reconnect, shutdown | |
| `RabbitMqConnectionProofs` | theorems about it | `RabbitMqConnection` |
| `DeviceLink` | from the simulator's timer over MQTT to `handleMessage` | |
| `DeviceLinkProofs` | theorems about it | `DeviceLink` |
| `TelemetryContract` | topics, schema, `handleMessage`, the simulator's readings | |
| `RuleSchema` | accepted rules, `evaluateRule` | |
| `QueryApi` | what the query API makes of the rows it reads | |
| `QueryEndpoints` | its endpoints over REST and gRPC, with pipe, filter and metrics | `QueryApi` |
| `MCEvaluation` | all calls of these functions in a range | `RuleSchema`, `QueryEndpoints`, `TelemetryContract` |
| `EvaluationProofs` | theorems about them | `MCEvaluation` |
| `Ingestion` | ingestion service | |
| `MCIngestion` | devices and readings for TLC | `Ingestion` |
| `IngestionProofs` | theorems about it | `Ingestion` |
| `AlertEpisodes` | abstract specification: what threshold rules promise | `RuleSchema` |
| `RuleEngine` | threshold rules on their queue | `RuleSchema`; instantiates `RabbitMqConsumer` and `AlertEpisodes` |
| `MCRuleEngine` | rules, devices and readings for TLC | `RuleEngine` |
| `RuleEngineProofs` | theorems about them | `RuleEngine`; instantiates `RabbitMqConsumerProofs` |
| `ConnectivitySweep` | connectivity rules, sweep by sweep | |
| `MCConnectivitySweep` | device and rules for TLC | `ConnectivitySweep` |
| `ConnectivitySweepProofs` | theorems about it | `ConnectivitySweep` |
| `Notification` | notification service on its queue | instantiates `RabbitMqConsumer` |
| `NotificationProofs` | theorems about it | `Notification`; instantiates `RabbitMqConsumerProofs` |

Operators preceded by a comment `Variant:` are deliberately wrong forms of the
definition they stand before. Nothing uses them; substituted for that
definition they must make a property fail, which shows that the property can
see the mistake (`PROJECT.json`, "mutants").

## 3. Models, properties, runs

### 3.1 RabbitMqConsumer

*State.* The broker's side (`ready`, `unacked`, `dlq`, `link`, `lastTag`) is
external; it is what RabbitMQ does as far as the service uses it: a durable
queue in order, a message that comes back takes its old place, delivery tags
count from 1 on each channel, `nack` without requeue dead-letters, an unknown
tag closes the channel. amqplib emits `error` on that channel, which has no
listener, so the connection goes with it. The service's side is `channel`
(`this.channel`), `epoch` (connections made) and `handlers`, the invocations of
`handleMessage` in progress. `handled` is history.

*Actions.* `Deliver` is the consume callback (`:128-132`), which starts
`handleMessage` without awaiting it; `Settle` is the end of `handleMessage`
(`:136-154`), with an ack or a nack on `this.channel` *of that moment*. The tag
of a delivery made on one channel thus reaches whichever channel is current:
`Settles(h)` compares tags only. `ConnectionLost` and `HandleClose` are two
steps, the broker knowing first.

*Late handlers.* `reconnect` waits at least 2 s (`:14`). A handler that ends
within that time never sees another channel; the code does not make it end
(ioredis retries a command at most 3 times but sets no command timeout, and a
transaction of the notification service has none). `late` records that a handler
was still running when the service was back on a new connection, and most
properties hold until it does. Nothing is assumed of it: handlers of any length
are in every run of this module.

*Runs.* `consumer`: until a handler is late there is one handler at a time
(`OneMessageAtATime`), no message is lost (`NoMessageVanishes`), and handlers
start in order of publication (`NoOvertaking`). Late handlers or not, the
prefetch slot never leaks (`SlotIsOwned`) and the queue drains
(`EveryMessageIsSettled`): wrong settlements and the channel errors they cause do
not go on for ever. `late_handlers_loss` (a violation): a late settlement removes
another message from the broker; if that message's own handler then fails, it is
in no queue. The same run of events makes two handlers run side by side
(README.md:197 says prefetch(1) prevents that), and in the rule engine would let
an ended breach be written back.

*Bounds.* 3 messages, 2 outages, 1 crash. A wrong settlement needs a handler
left over from one channel, a second message whose tag it hits, and a third to
tell order from presence; two outages make a handler late twice.

### 3.2 RabbitMqConnection

One action per stretch of code between two awaits. An attempt is a call of
`establish`, begun by `onModuleInit` or by `reconnect`, and is a record of where
it awaits: connecting, declaring, or setting up its n-th consumer. The requests
of one await (createChannel, assertExchange) have no effect in between that
anyone sees and are one step. `Reply` is the broker's answer, `Continue` what
the code does with it: promise continuations run before the next event of the
loop (`LoopIsFree`), with one exception. amqplib handles all frames of one read
before it returns, so that a reply and the end of the connection in one read
emit `close` between the two (`RacesReply`). The model allows this and notes it
in `raced`.

`BootFails` is a module whose `consume()` is rejected while the process starts:
it exits and `docker-compose` restarts it.

*Run* `connection`: in whatever await the connection closes, there is a single
chain of reconnects when one is needed (`OneReconnectChain`), no consumer is
active twice (`SubscribedOnce`), the service gets connected in the end with its
consumers active (`Recovers`), is stranded only by the race (`StrandedOnlyByRace`),
and makes no attempt once it shuts down (`NoConnectAfterShutdown`). Two consumers
and four closings: one in each await of an attempt.

The race is why `Recovers` and `NeverStranded` need their exception: `close`
emitted after the last reply a reconnect awaits and before `reconnecting` is
cleared (`:109`) finds the flag set, `scheduleReconnect` refuses, and then
`reconnect` clears it. Nothing reconnects, and the service stays without a
channel until it is restarted. `StrandedOnlyByRace` says that this is the only
way to that state.

`publish` changes nothing in the service; its effect is where it is called.

### 3.3 RuleSchema, QueryApi, QueryEndpoints, TelemetryContract

Functions without state. `MCEvaluation` makes a state of each call, the function
with its arguments, and *run* `evaluation` checks every call of a small range.

*Rules.* `Accepts` is the refinement of the schema, `Breaches` and
`ReportedThreshold` the two results of `evaluateRule`; bounds in -1..1 or absent,
values in -2..2. An alert's value and bound agree with its operator, whichever
bounds the rule leaves out or has upside down (`AlertExplainsItself`). Comparisons are all
that is used, so a value below, between, on and above the bounds is every case.

*Status.* `Status` (milliseconds, `<=`) and `IsSilent` (whole seconds, `<`)
judge the same silence in two services. They agree but for the one millisecond of
the threshold (`StatusAgreesWithSweep`), over ages one millisecond around every
second up to 62 and for clocks ahead.

*Series.* `telemetry` has no key, so two readings may carry one time. A raw
series is sorted and has no hole; when the limit is reached it is the newest
points that are missing, since the order is ascending. An aggregated one is read
from a view, which holds what the runs of its policy left in it
(`03-aggregates.sql:37-45`): a run at time t computes the buckets that lie wholly
between t less `start_offset` and t less `end_offset` from the readings that have
arrived by then (`Covers`, `Held`), and leaves the others as they were. Since
TimescaleDB 2.13 a view does not add the rows newer than its last refresh, and the
image is 2.17. A reading thus carries its time and the time it arrived at, and a
call the times of the runs. `SeriesHaveNoHoles` says, from the gRPC request on,
whose empty fields become absent ones and then defaults, that a reading in the
range is counted in the point of its bucket (its value lies between the point's
minimum and maximum), but for four cases: its bucket began before the range; the
limit is reached; the policy has not run since the reading arrived; or it ran only
while the bucket was not in its window, because it had not ended or because the
reading came so late that the bucket was too old. Readings of the last kind are
missing from the view for good, and the property does not hide them: it names them.
Limit 2; up to three readings out of 24, with times in three buckets of width 2,
arriving before, between and after the runs of a policy that looks back five units;
no run at all, only the latest, every other one, or all.

*Lists.* `ListsLeaveNothingOut`: the newest alerts, for every combination of
bounds; the device list pairs each row with its own shadow and is not an error
for an empty fleet.

*Endpoints.* `QueryEndpoints` is the way of a request through each controller:
over REST the validation pipe, the handler, the exception filter and the request
counter; over gRPC the fields without their empty values, the same services, and
the conversion to the messages of the protocol. The stores may fail: `dbUp` and
`redisUp` are parts of the question. `AnswersAgree`: both ways answer alike or
both fail, a status of 400, 404 or 500 says what failed whatever else did, and
nothing of a store's error is told in production. It also records what the
metrics see: `finalize` runs as the handler's observable ends, before the filter
has set the status (`http-metrics.interceptor.ts:62`), so that
`http_requests_total` counts every failure of a handler as a 200.

*Contract.* `OwnReadingsArrive`: a message is enqueued just if it carries a valid
reading of a device on that device's topic (an id with a slash is valid to the
schema and has a topic nobody reads), and what the simulator publishes is
enqueued. The second part is an induction: devices of a new fleet are in the
range `Simulated`, and a tick of a device in it is enqueued and leaves it there.

### 3.4 RuleEngine and AlertEpisodes

The queue is `RabbitMqConsumer`; message m carries `readings[m]`. `progress`
holds the locals of each handler. `Clear`, `Decide` and `Store` are `evaluate`
between its awaits: the DEL; the GET with the decision and the alert; the SET.
Commands go out on one Redis connection and are answered in order (`pipeline`),
which matters only when two handlers run. Handlers are taken to end within the
reconnect backoff (`BackoffOutlastsHandlers`); what late ones do to a queue is the
subject of 3.1. This is a condition of every property and theorem of the module, and
nothing in the code enforces it: without it two handlers may interleave on one
breach state, which no property here follows up. `Emit` is `publish`: skipped when there
is no channel, lost when the connection is dead. `RedisFails` rejects a command
that was, or was not, executed.

`AlertEpisodes` is the promise: each rule observes each reading once, in order,
atomically, and alerts at the first reading by which the breach has lasted for
`sustainSeconds`. The mapping takes `observed` from the handlers' progress and
`episode` from Redis, or from the handler that is about to SET.

*Runs.* `engine_reliable` (two devices, two rules, nothing fails): the engine
implements `AlertEpisodes`, liveness included. `engine_faults` (an outage, a
crash, a rejected command): no alert for a spike (`TransientSpikesNeverPage`);
through outages alone an episode alerts at most once (`RepeatsOnlyAfterCrash`);
through crashes alone no sustained breach goes without its alert
(`MissesOnlyInOutage`). These are stated over the log of readings, without
Redis. `engine_missed_alert` (a violation): "fire exactly once per episode"
(README.md:177) fails when an alert falls due while the connection is down: it
is skipped, and the episode is recorded as fired. A crash between alert and SET
breaks the same sentence the other way, with a second alert.

*Bounds.* Three readings make a breach, its end and a new one, or a start, a
sustained reading and a repetition; timestamps are equal or one apart, the
window one unit or zero. A reading takes part in an episode through comparisons
of times only.

### 3.5 Ingestion

`Enqueue`, `TimerTicks`, `Flush`, `Commit`/`PersistFails`, `Announce`,
`UpdateShadow` follow `enqueue`, the timer, `flush` up to the transaction, its
two outcomes, the events and shadow updates sent off, their execution. `chained`
counts the flushes queued on `flushChain`. `Latest` is `latestByDevice`. A failed
transaction drops its batch, as the code does (`:52-54`); if the answer to COMMIT
was lost it was executed. `Shutdown` is SIGTERM reaching both hooks: NestJS
awaits the hooks of one module side by side, so readings come in until
`MqttEnds`. `awaited` counts the flushes `onApplicationShutdown` waits for.

`splice(0)` takes the whole buffer (`:46`), be it larger than what one INSERT
takes (65535 parameters, seven for a reading): such a transaction is rejected
whenever it is tried. `MaxInsert` is that limit, and `outgrown` notes that a
batch has passed it.

*Runs.* `ingestion`: each reading is settled once, in order of arrival
(`EachReadingOnce`); events follow rows, and are the rows, and these all that was
received, unless something failed or a batch was outgrown (`EventsFollowRows`);
shadows and `last_seen` never go back while devices report in order
(`DevicesNeverGoBack`); the shadow is the latest (`ShadowIsLatest`); a graceful
stop has flushed what came before it (`ShutdownFlushes`); every reading is flushed
in the end, by the timer alone if need be (`ReadingsAreFlushed`).
`ingestion_stale_shadow` (a violation): when a device's readings arrive out of
order in different batches, the shadow is not "the latest full reading"
(README.md:132). A reading acknowledged after the last flush took the buffer,
while the MQTT client is still ending, is never flushed (README.md:106 promises
in-flight batches); `ShutdownFlushes` leaves those out.

*Bounds.* Three readings, batches of two, and INSERTs that take two: a full batch
and a rest, or a batch of three that is too large; at most
two flushes chained, so that timer, full batch and shutdown meet; one failure,
one change of the connection, one crash.

### 3.6 ConnectivitySweep

A sweep is named by the time its timer fired and is a record of where it awaits:
the query, its answer, a DEL or GET, a SET. `Find` (the database executes) and
`Loop` (the rows arrive, `nowMs` is read) are two steps: a device may report in
between, and while the sweep works through its rows. `pipeline` is the order in
which Redis answers. `StartSweep` does not look whether the sweep before has
ended. A rejected command ends the sweep; the rules and rows left are not
judged. The rows come in any order.

*Whose time.* `last_seen` is the device's own timestamp, written whatever the row
holds (`ingestion.service.ts:86`). It may be older than the commit (a reading that
waited in the device's outbox, or was sent again, 3.8), ahead of it, and older than
the `last_seen` it overwrites (3.5). `Report(d, time)` commits any time in `Stamps`;
`readings` is the history of commits, `devices` the reading each row is of. An
alert carries the reading that the sweep judged by, for `last_seen` alone may name
two silences.

*Run* `sweep`. `RepeatsOnlyAfterFault`: between two alerts of a rule for a device
the device was back, by a reading that was not itself as old as the silence asked
for when it came; but for a crash or a rejected command between alert and key, or a
sweep that runs into the next. Readings that come late, or put `last_seen` back,
do not make a device alert again.

`SilenceIsReported`: without faults and overruns, a device silent for
`silenceSeconds` and one interval more has its alert, counted from its last
reading, if that reading was committed at least two intervals before its silence is
due. A sweep may set the key of a device that has come back meanwhile, which would
hide the device's next silence; the next sweep's DEL saves it, and it must find
the device back: an interval may pass until that sweep begins, and the sweep may
last for another. With one interval in place of two the property is false. A
reading later than that is not reported in general, since the sweep that sees
it finds the device silent still, or again, and the key of the silence before in
place. The rule in `rules.json` asks for two intervals: by the property it leaves
readings no time to be late, and in practice, where sweeps are short, nearly one
interval. `ConnectivityRuleSchema` (`rule.schema.ts:20`) accepts shorter ones,
of which nothing is promised.

*Bounds.* One device, silences of two and three intervals, three readings with times
before and amid the four intervals, so that they are early, in time and late, newer
and older than the row; two sweeps at once, one fault of any kind: a silence, a
return and a second silence fit in. At the last instant no reading comes and no
sweep begins. Devices share nothing but the order of commands.

### 3.7 Notification

The queue is `RabbitMqConsumer`. `Insert` is the database executing the INSERT,
`Notify` its answer, after which the webhook is called, not awaited, and the
message acknowledged; `InsertFails` a rejected INSERT, executed or not, after
which the message is dead-lettered.

*Run* `notification`, on the condition that handlers end within the reconnect backoff
(`BackoffOutlastsHandlers`, which has no counterpart in the code):
`NoAlertIsLost`, `EveryAlertIsStored` (stored or dead-lettered, under the
fairness of 3.9), `RowsRepeatOnlyAfterLoss`: one row for each alert, in order,
unless a connection was lost or the process crashed. After either, the alert is
inserted and sent to the webhook again; the table has no key to prevent it.
Webhook calls that fail are logged and forgotten.

*Bounds.* Three alerts, two outages, one crash, two failures: an alert may be
inserted thrice, and another be dead-lettered in between.

### 3.8 DeviceLink

The simulator's timer, its MQTT client, the broker and the subscriber's client,
for one device (all devices share the client and the timer). Of the library the
code uses the defaults: QoS 1 publications wait while the client is offline and
are sent again until acknowledged, sessions are clean. `SimulatorConnects` is the
`connect` listener, at the first connection and at every further one
(`simulate-devices.ts:95-103`): it sets a timer and forgets the one before.
`Answered` is the answer to `subscribe`, whose error is logged and nothing more.
`excused` is history: the readings that the broker took while the subscriber was
away or knew of no subscription.

*Run* `device_link`. Until the simulator's connection is lost, readings arrive in
order and once (`RepeatsOnlyByResending`), which is what `Ingestion` assumes where
it sets `DevicesReportInOrder`; after that a reading may arrive once per
connection, and older ones after newer. A device makes one reading in an interval
until a reconnect leaves a second timer behind, which shutdown does not clear
(`OneTimerUntilReconnect`). Every reading published reaches `handleMessage`,
through outages of either side, unless it is excused (`EveryReadingArrives`): the
subscriber does not come back connected and deaf. The one way to be so is a
subscription that was refused: the health check asks only whether the client is
connected (`mqtt.health.ts`), and nothing subscribes again until the next
connection.

*Bounds.* Four readings, two connections of the simulator, one outage of the
subscriber, one refusal: readings sent before, during and after an outage of each
side, and two timers with two intervals.

### 3.9 Fairness

Assumed: the broker delivers, the event loop runs what is ready, timers fire,
awaited calls end one way or the other, a stopped process is started again
(`restart: unless-stopped`). `RabbitMqConnection` assumes in addition, as strong
fairness, that a connect tried for ever succeeds in the end, `RabbitMqConsumer`
that reconnects do, and `DeviceLink` that both MQTT clients, which reconnect by
themselves (`reconnectPeriod`), get connected, send what they have and are
answered; its timers need not tick. Never assumed: that a message or reading
comes, that something fails, that the service is stopped.

Deadlock is checked in every run. Where a system may rest, the action `Rest`
says in which states.

## 4. Proofs

All theorems hold for all values of the constants that satisfy the assumptions
named in the modules: bounds are natural numbers (`BoundsAssumption`,
`NotificationAssumption`, `LinkAssumption`); for the rule engine
`EngineAssumption`: rules are a sequence, readings are of known devices, no breach
state is mistaken for the absence of one; for ingestion `IngestionAssumption`:
batches have a size, readings have known devices, no time is mistaken for `None`;
for the sweep `SweepAssumption`: the interval and the silences asked for are
positive, devices' times are integers; for the functions `EvaluationAssumption` and `QueryAssumption`: the values
that stand for "absent", "no text" and "not JSON" are none of the others, an answer
is not a failure, times are integers, and a view has a width and two offsets. TLC evaluates the
assumptions in the runs. Where a theorem needs more, it says so as its own
hypothesis: `DevicesReportInOrder` for the shadow, `FaultFree` for the promise of
the rule engine, a threshold of whole seconds for the status, finite tables and
shadows that are no failures (`FailuresDiffer`) for the query API.

### RabbitMqConsumerProofs

| Theorem | Property |
|---|---|
| `TypeCorrect` | `TypeOK` |
| `SlotNeverLeaks` | `SlotIsOwned` |
| `OneAtATime` | `OneMessageAtATime` |
| `NothingVanishes` | `NoMessageVanishes` |
| `InOrder` | `NoOvertaking` |

`SlotIsOwned` is inductive with no more than that nothing is unacknowledged while
the link is down. A settlement takes away all deliveries with the handler's tag,
its own among them if it is of this connection; that is why the slot cannot leak
even by wrong settlements.

The other three rest on one invariant, `~late => SafeInv`. `OneMessageAtATime`
alone is not inductive: one must know that whenever a handler runs and the link is
up, the handler is of this very connection and its delivery is unsettled
(`HandlersOwnTheirDelivery`), for then `PrefetchAllows` forbids the next one.
`NoMessageVanishes` needs in addition that a message is in the queue, unsettled,
dead-lettered or handled without recourse to handlers, except while the link is
down; `NoOvertaking` needs that messages not yet completed are where `AtHead`
can see them. Each action that empties `unacked` goes through `RequeueStep`; the
other hard steps are `DeliverStep` and `SettleStep`.

### RabbitMqConnectionProofs

| Theorem | Property |
|---|---|
| `TypeCorrect` | `TypeOK` |
| `ReconnectChainIsOne` | `OneReconnectChain` |
| `ConsumersAreSubscribedOnce` | `SubscribedOnce` |
| `OnlyARaceStrands` | `StrandedOnlyByRace` |
| `ShutdownIsFinal` | `NoConnectAfterShutdown` |

One invariant, `IInv`, serves all five. `ChainInv` is `OneReconnectChain` without
counting. It does not stand alone: that a closing connection schedules no second
chain needs that no timer runs while a connection is open (`LinkInv`), which needs
that `establish` runs once at a time (`OneAttempt`), which needs that modules
register between the first attempt and the first reconnect (`ModulesInv`).
`ActiveInv` says up to which consumer an attempt has come, so that activating the
next one repeats none. `ConnectedInv` is the point at which the race enters:
where nothing is under way a connection is open, unless `raced`.

### NotificationProofs and RuleEngineProofs

Both services first are shown to be consumers of their queue: `ConsumesItsQueue`,
`Spec => Queue!Spec`, every step of the service being one of `RabbitMqConsumer` or
leaving it alone. Handlers end within the backoff, hence are never late, and the
invariant of the queue carries over through `QueueProofs`, an instance of the
module above: one handler, in order, settling its own message.

| Module | Theorem | Property |
|---|---|---|
| `NotificationProofs` | `ConsumesItsQueue` | |
| | `TypeCorrect` | `TypeOK` |
| | `AlertsAreKept` | `NoAlertIsLost` |
| | `OneRowUntilALoss` | `RowsRepeatOnlyAfterLoss` |
| `RuleEngineProofs` | `ConsumesItsQueue` | |
| | `TypeCorrect` | `TypeOK` |
| | `NoSpikePages` | `TransientSpikesNeverPage` |
| | `OneAlertPerEpisode` | `RepeatsOnlyAfterCrash` |
| | `SustainedBreachIsReported` | `MissesOnlyInOutage` |
| | `ImplementsPromise` | `[]FaultFree` => `AlertEpisodes` (safety) |

Notification: what is handled is stored (`RowsInv`), so that the queue's
`NoMessageVanishes` becomes `NoAlertIsLost`; without losses the last row is of a
message before all that is queued or with a handler (`OrderInv`).

Rule engine: `TransientSpikesNeverPage` speaks of the log, the code of a state in
Redis. `EpisodesInv` joins them: behind every state in Redis, and behind the one a
handler is about to SET, lies a reading that entered the breach and that nothing
completed since has ended (`Justified`). It survives a handler's end only because
a handler that has passed a rule its reading does not breach has cleared that
rule's state (`PastInv`), and a failed one only because its reading, dead-lettered,
is out of the log. `FrontierInv` puts what is completed before what is in progress
or queued. `RepeatsOnlyAfterCrash` needs the converse: of every alert there is a
record in Redis, or with the handler that sets it, until a reading before all that
is left has ended its episode (`RepeatsInv`).

`MissesOnlyInOutage` is the opposite question: could a state in Redis start too
late, or be marked fired without an alert? `MissesInv` follows each state back to
the reading that opened its episode: the state has that reading's time, and
nothing in between has ended the episode (`TrackedInv`); a reading that breached
has left a state unless something ended it (`OpenInv`); what is evaluated has
alerted if it was due (`DueInv`). The delicate case is a crash: a message that comes
back is evaluated again, by then with its own state in Redis, so that what holds
of a state must not depend on which delivery stored it. Without outages no
alert is skipped, without rejections nothing is dead-lettered (`UndisturbedInv`).

`ImplementsPromise` is the refinement, step by step. Without faults readings are
completed in order, each once (`InLineInv`), so that the engine's `observed` moves
like the abstract one. A rule's observation happens where the handler decides:
`Clear` for a breach that is over, `Decide` for one that goes on; the SET that
follows is a stutter, since `EpisodeOf` already takes the state from the handler
that is about to store it. The theorem is about the steps; that every reading is
observed in the end is the other half of `ImplementsEpisodes`, which TLC checks.

### IngestionProofs

| Theorem | Property |
|---|---|
| `AccountedFor` | `EachReadingOnce` |
| `AnnouncedAreStored` | `EventsFollowRows` |
| `StopLeavesNothing` | `ShutdownFlushes` |
| `TypeCorrect` | `TypeOK` |
| `ShadowCatchesUp` | `DevicesReportInOrder` => `ShadowIsLatest` |
| `NeverBack` | `DevicesReportInOrder` => `DevicesNeverGoBack` |

`SplitInv` says `EachReadingOnce` piecewise: settled, batch and buffer are runs of
consecutive readings (`Run`), each beginning where the one before it ends. Lemmas
say how runs grow and join, so that each action that moves readings on,
`EndFlush`, `Flush` and `Crash`, moves a run. `RowsInv` keeps rows and events at or
below the last reading settled, where the batch begins: that is why appending it
keeps them in order. `NothingFailedInv` says what they are where nothing has
failed, also while a batch is committed and not yet announced. `ShutdownInv`
counts down: when one awaited flush is left and running, it holds, with what is
settled, all that came before the shutdown. It needs `SplitInv`, not the order in
which the two hooks run.

The shadow has an invariant of its own, `StoresInv`. `latestByDevice` takes, of each
device, a reading that none in the batch supersedes; that there is one is an
induction over the batch, done where batches grow: `LatestInv` says it of the buffer
and of the batch, and `Enqueue` keeps it, since a new reading either supersedes the
latest or does not. `PipelinesInv` holds the pipelines nobody waits for to their
order: what is on its way to Redis is never older than the shadow or than what is on
its way before it. `CoverInv` says that what is settled has its device's latest in
the shadow or on its way there, `SeenInv` that `last_seen` is of a stored reading.
Both theorems have `DevicesReportInOrder` as hypothesis; the run `ingestion_stale_shadow`
shows what happens without it.

### ConnectivitySweepProofs

| Theorem | Property |
|---|---|
| `TypeCorrect` | `TypeOK` |
| `AlertsOnce` | `RepeatsOnlyAfterFault` |
| `SilencesAreReported` | `SilenceIsReported` |

A sweep judges by rows it has read, which are the registry's but for what was
reported since it began (`RowsOk`); commands are out for exactly the sweeps that have
something to do (`PipelineInv`); unless one overruns there is one sweep, the last begun
(`OneSweepInv`). For `AlertsOnce`, of each alert there is a key in Redis, or a SET on
its way, or a reading since came in time and the running sweep has read that one or a
later (`Backed`): without the last part the DEL of the next sweep would seem to open
the same silence again. What a DEL needs, a row not yet silent, is a reading in time
only as long as it was not silent when it was committed; hence `InTime`. Also a row
that goes back in time stays on the right side, since rows go forward in the order of
commits, whatever their times. For `SilencesAreReported` two deadlines are followed in
`Reported`. A key that outlives its silence meets a sweep that removes it before the
device can be due again, and this is where `Lag + 2 * Interval <= Silence` enters
(`Punctual`); and what was due when the last sweep began is alerted, or among the
checks that sweep has yet to do (`Pending`).

### DeviceLinkProofs

| Theorem | Property |
|---|---|
| `TimersLeft` | `OneTimerUntilReconnect` |
| `ArrivesInOrder` | `RepeatsOnlyByResending` |

`TimersInv` says which timers run: those of the connections made, without the last
once shutdown has cleared it. `PaceInv` counts: of the readings of one interval there
are as many as timers have fired in it, and there are no more timers than there were
connections. For the order, a reading is either held by the simulator's client or
passed on by the broker (`Held`, `Passed`); each step of the link moves one from here to
there, adds one, forgets one or, at a reconnect, resends (`Flows`). On the first
connection what is passed on comes before what the broker has not taken (`OrderInv`).
Afterwards each connection passes a reading on at most once, and one that is still
waiting has a connection in hand (`RepeatsInv`).

### EvaluationProofs

| Theorem | Property |
|---|---|
| `BreachesAreExplained` | `AlertExplainsItself` |
| `OfflineIsSilent` | `StatusAgreesWithSweep` |
| `ReadingsAreHeard` | `OwnReadingsArrive` |
| `SeriesAreComplete` | `SeriesHaveNoHoles` |
| `ListsAreComplete` | `ListsLeaveNothingOut` |
| `QuestionsAreAnsweredAlike` | `AnswersAgree` |

Each theorem has two halves: the statement for all arguments (every rule with integer
bounds and every integer value; every age; every draw and every device in the range
`Simulated`; any finite tables, whatever their rows; any request), and the invariant of
the run, whose calls are some of these. The arithmetic is that of the code:
`Math.floor` of whole seconds, `Math.round` to two decimals, the drift of a tenth of
the way, with the clamps. A temperature is never clamped: the range 17 to 100 is left
by no draw.

*Ordered rows.* What the database returns rests on `OrderBySorts`: of a finite set of
rows with integer keys, `OrderBy` is a sequence that has each row once, by ascending
keys. `OrderBy` is a recursive function on the subsets of the set. That it has the
value its definition writes is shown by `RecursiveFunction`: for each number of rows
there is a function that satisfies the recursion on the subsets no larger, hence one
for all of them. The library's induction over finite sets takes an operator as a
parameter; the inductions here go over sets of numbers instead, by a least
counterexample (`Least`, `Induction`). `TakesFirst` says what LIMIT adds: a row left
out has a key no less than that of any row taken, and the limit was reached.

*Series.* `RawHasNoHoles` is this for the readings in the range. For a view
(`AggregateHasNoHoles`) one has to know in addition what `time_bucket` does, a reading
lies in its bucket (`BucketOf`); what rows a view has (`RowsOfView`); and that a row
spans the values it was computed from (`RowHasRange`, from `LeastAndGreatest` of a
finite set). A run of the policy after the reading arrived, with its bucket in the
window, has it in what the row is computed from. `SeriesAreWhole` starts from the
request and goes through its defaults.

*REST and gRPC.* `OutcomesOfRest` and `OutcomesOfGrpc` say what each way makes of a
question step by step: not well formed, not found, a store down, or a result.
`ParamsOfBoth` shows that the two ways of leaving a field out (absent, empty) come to
the same parameters of the service. What is left is content: for each route, the
conversion to the gRPC message keeps it (`ListsAlike`, `DevicesAlike`, `SeriesAlike`).

### Only model-checked

Liveness, for which the prover has no means, and with it the liveness of the
refinement `ImplementsEpisodes`. Every invariant of the passing runs is a theorem.

## 5. Not modelled

- The device view's two reads, row and shadow, as steps of their own: no document
  says that they belong to one reading.
- Retention policies (`03-aggregates.sql:47-49`): a call of `QueryApi` comes with the
  readings there are. Refreshes are times of runs, not a process of their own; that
  a run takes place every `schedule_interval` is not assumed.
- Of the HTTP metrics: durations, route names, the gauge of requests in progress,
  which nothing reads.
- The query schema of the alerts, health endpoints but for `MqttHealth`,
  environment validation, logging (`pino.config.ts`), counters of dropped
  messages. `assert-prod-secret.ts` and `token-hash.ts` are called by no service.
- Rules whose ids collide in the Redis key (`rule:<id>:<device>` is not
  injective when ids contain a colon); the schema forbids neither duplicate ids
  nor colons.
- A consumer cancelled by the broker (null message, `rabbitmq.service.ts:129`):
  queues are durable and nothing deletes them.
- Late handlers in the rule engine and the notification service: what they do to
  a queue is in 3.1, what they would do to Redis or the table is not followed up.

## 6. Plan

1. Retention, with its chunks, and a refresh that comes after it.
2. A reader in `Ingestion` for the device view.
3. `Pipeline`: ingestion, rule engine and notification end to end, by their
   abstract specifications.
4. Proofs: what keeps liveness from being lost, as invariants (from every state, the
   step that `Recovers` and `EveryMessageIsSettled` wait for is possible).
