------------------------------ MODULE Ingestion ------------------------------
(***************************************************************************)
(* The ingestion service: readings from MQTT are buffered, flushed in      *)
(* batches one at a time (flushChain), written to TimescaleDB in one       *)
(* transaction, announced on RabbitMQ, and the latest of each device is    *)
(* set in Redis without waiting for it; timer, crash, and the shutdown     *)
(* whose two hooks run side by side.                                       *)
(*                                                                         *)
(* Reading i is received[i]; sequences of readings are sequences of such   *)
(* numbers.  A message that fails validation leaves no trace here.         *)
(***************************************************************************)
EXTENDS Integers, Sequences, SequencesExt

CONSTANTS
    Devices,
    Readings,           \* readings that may come: [device, timestamp]
    None,               \* no value
    BatchSize,          \* INGEST_BATCH_SIZE
    MaxInsert,          \* readings one INSERT takes: 65535 parameters, 7 each
    DevicesReportInOrder,\* do readings of a device arrive in timestamp order?
    MaxReceived,        \* bound: readings received
    MaxChained,         \* bound: flushes chained at once
    MaxFailures,        \* bound: failed transactions and shadow pipelines
    MaxOutages,         \* bound: changes of the RabbitMQ connection
    MaxCrashes,         \* bound: crashes
    MayShutDown         \* does SIGTERM come?

ASSUME IngestionAssumption ==
    /\ Readings \subseteq [device : Devices, timestamp : Nat]
    /\ {BatchSize, MaxInsert, MaxChained} \subseteq Nat \ {0}
    /\ {MaxReceived, MaxFailures, MaxOutages, MaxCrashes} \subseteq Nat
    /\ {DevicesReportInOrder, MayShutDown} \subseteq BOOLEAN
    /\ None \notin Nat

VARIABLES
    received,   \* history: the readings acknowledged to the MQTT broker
    phase,      \* "running", "stopping" (the hooks run), "stopped", "down"
    mqttOpen,
    buffer,
    chained,    \* flushes on flushChain that have not started
    stage,      \* of the running flush: "idle", "inserting", "committed"
    batch,      \* its readings
    awaited,    \* flushes the shutdown hook still awaits
    rows,       \* the telemetry table
    lastSeen,   \* devices.last_seen
    connected,  \* has RabbitMqService a channel?
    events,     \* telemetry.received events published
    pipelines,  \* shadow updates on their way to Redis, in order
    shadow,     \* device:<id>:last
    settled,    \* history: readings stored, dropped or lost, in order
    inTime,     \* history: readings received before the shutdown began
    outgrown,   \* history: has a batch been larger than MaxInsert?
    failures, outages, crashes

stores == <<rows, lastSeen, events, shadow>>
process == <<buffer, chained, stage, batch, awaited, pipelines>>
bounds == <<failures, outages, crashes>>
vars == <<received, phase, mqttOpen, stores, process, connected, settled,
          inTime, outgrown, bounds>>

Times == {reading.timestamp : reading \in Readings}
Members(s) == {s[i] : i \in DOMAIN s}

Init ==
    /\ received = << >> /\ phase = "running" /\ mqttOpen = TRUE
    /\ buffer = << >> /\ chained = 0 /\ stage = "idle" /\ batch = << >>
    /\ awaited = 0 /\ pipelines = << >>
    /\ rows = << >> /\ events = << >>
    /\ lastSeen = [d \in Devices |-> None]
    /\ shadow = [d \in Devices |-> None]
    /\ connected = TRUE
    /\ settled = << >> /\ inTime = 0 /\ outgrown = FALSE
    /\ failures = 0 /\ outages = 0 /\ crashes = 0

-----------------------------------------------------------------------------
(* enqueue and scheduleFlush.                                              *)

InOrder(reading) ==
    \A i \in DOMAIN received :
        received[i].device = reading.device =>
            received[i].timestamp <= reading.timestamp

BatchIsFull == Len(buffer') >= BatchSize

\* The reading is acknowledged once enqueue has returned.
Enqueue(reading) ==
    /\ mqttOpen /\ phase \in {"running", "stopping"}
    /\ Len(received) < MaxReceived
    /\ DevicesReportInOrder => InOrder(reading)
    /\ received' = Append(received, reading)
    /\ buffer' = Append(buffer, Len(received) + 1)
    /\ IF BatchIsFull
       THEN chained < MaxChained /\ chained' = chained + 1
       ELSE UNCHANGED chained
    /\ inTime' = IF phase = "running" THEN Len(received) + 1 ELSE inTime
    /\ UNCHANGED <<phase, mqttOpen, stage, batch, awaited, pipelines, stores,
                   connected, settled, outgrown, bounds>>

\* Variant: readings wait for a full batch.
TimerNeverTicks == FALSE /\ UNCHANGED vars

TimerTicks ==
    /\ phase = "running"
    /\ chained < MaxChained
    /\ chained' = chained + 1
    /\ UNCHANGED <<received, phase, mqttOpen, buffer, stage, batch, awaited,
                   pipelines, stores, connected, settled, inTime, outgrown,
                   bounds>>

-----------------------------------------------------------------------------
(* flush and persist.                                                      *)

\* Variant: flushes run side by side.
MayStartAnyTime == chained > 0 /\ phase \in {"running", "stopping"}

\* flushChain: a flush starts when the one before it has ended.
MayStart == chained > 0 /\ stage = "idle" /\ phase \in {"running", "stopping"}

\* Variant: flushes are counted past the last one awaited.
FlushEndsUnchecked == awaited' = awaited - 1

FlushEnds == awaited' = IF awaited > 0 THEN awaited - 1 ELSE 0

\* splice(0) takes all there is, be it more than one INSERT takes.
Kept == << >>
TooLarge(b) == Len(b) > MaxInsert

Flush ==
    /\ MayStart
    /\ chained' = chained - 1
    /\ batch' = buffer
    /\ buffer' = Kept
    /\ IF buffer = << >>
       THEN FlushEnds /\ UNCHANGED stage
       ELSE stage' = "inserting" /\ UNCHANGED awaited
    /\ outgrown' = (outgrown \/ TooLarge(buffer))
    /\ UNCHANGED <<received, phase, mqttOpen, pipelines, stores, connected,
                   settled, inTime, bounds>>

\* latestByDevice: of each device in the batch the first reading with the
\* greatest timestamp.
DevicesOf(b) == {received[i].device : i \in Members(b)}

\* Variant: the first reading of the device in the batch wins.
ComesFirst(i, j) == i <= j

Supersedes(i, j) ==
    \/ received[i].timestamp > received[j].timestamp
    \/ received[i].timestamp = received[j].timestamp /\ i <= j
Latest(b) ==
    [d \in DevicesOf(b) |->
        CHOOSE i \in Members(b) :
            /\ received[i].device = d
            /\ \A j \in Members(b) : received[j].device = d => Supersedes(i, j)]

\* Two functions of devices, the second one where it is defined.
Overwrite(f, g) == [d \in Devices |-> IF d \in DOMAIN g THEN g[d] ELSE f[d]]

\* The transaction: insert the readings, upsert the devices.
Write ==
    /\ rows' = rows \o batch
    /\ lastSeen' = Overwrite(lastSeen,
           [d \in DevicesOf(batch) |-> received[Latest(batch)[d]].timestamp])

Commit ==
    /\ stage = "inserting" /\ ~TooLarge(batch)
    /\ stage' = "committed"
    /\ Write
    /\ UNCHANGED <<received, phase, mqttOpen, buffer, chained, batch, awaited,
                   pipelines, events, shadow, connected, settled, inTime,
                   outgrown, bounds>>

EndFlush ==
    /\ stage' = "idle" /\ batch' = << >>
    /\ settled' = settled \o batch
    /\ FlushEnds

\* Variant: events are published whether the transaction succeeded or not.
FailureIsAnnounced == events' = events \o batch

FailureIsLogged == UNCHANGED events

\* The transaction is rejected, and the batch is dropped; when the answer to
\* COMMIT was lost it has been executed all the same.  A batch that is too large
\* is always rejected.
PersistFails ==
    /\ stage = "inserting"
    /\ IF TooLarge(batch)
       THEN UNCHANGED <<rows, lastSeen, failures>>
       ELSE /\ failures < MaxFailures /\ failures' = failures + 1
            /\ Write \/ UNCHANGED <<rows, lastSeen>>
    /\ FailureIsLogged
    /\ EndFlush
    /\ UNCHANGED <<received, phase, mqttOpen, buffer, chained, pipelines, shadow,
                   connected, inTime, outgrown, outages, crashes>>

\* persist after the transaction: the events, and the shadows sent off.
Announce ==
    /\ stage = "committed"
    /\ events' = IF connected THEN events \o batch ELSE events
    /\ pipelines' = Append(pipelines, Latest(batch))
    /\ EndFlush
    /\ UNCHANGED <<received, phase, mqttOpen, buffer, chained, rows, lastSeen,
                   shadow, connected, inTime, outgrown, bounds>>

\* Variant: updates overtake one another.
InAnyOrder(n) == n \in DOMAIN pipelines

InOrderOfIssue(n) == n = 1

\* Redis executes the pipelines in order; a failed one is only logged.
UpdateShadow ==
    /\ \E n \in DOMAIN pipelines :
          /\ InOrderOfIssue(n)
          /\ pipelines' = RemoveAt(pipelines, n)
          /\ \/ shadow' = Overwrite(shadow, pipelines[n]) /\ UNCHANGED failures
             \/ /\ failures < MaxFailures /\ failures' = failures + 1
                /\ UNCHANGED shadow
    /\ UNCHANGED <<received, phase, mqttOpen, buffer, chained, stage, batch,
                   awaited, rows, lastSeen, events, connected, settled, inTime,
                   outgrown, outages, crashes>>

-----------------------------------------------------------------------------
(* The surroundings.                                                       *)

ConnectionChanges ==
    /\ outages < MaxOutages /\ outages' = outages + 1
    /\ connected' = ~connected
    /\ UNCHANGED <<received, phase, mqttOpen, stores, process, settled, inTime,
                   outgrown, failures, crashes>>

\* Variant: the flush running is not waited for.
AwaitedLastOnly == 1

\* Flushes to end before the last one has: those chained, the running one, it.
AwaitedAtShutdown == chained + 1 + (IF stage = "idle" THEN 0 ELSE 1)

\* SIGTERM.  IngestionService clears its timer, chains a last flush and awaits
\* the chain as it is now; MqttSubscriber ends its client at the same time.
Shutdown ==
    /\ MayShutDown /\ phase = "running"
    /\ phase' = "stopping"
    /\ chained' = chained + 1
    /\ awaited' = AwaitedAtShutdown
    /\ UNCHANGED <<received, mqttOpen, stores, buffer, stage, batch, pipelines,
                   connected, settled, inTime, outgrown, bounds>>

MqttEnds ==
    /\ phase = "stopping" /\ mqttOpen
    /\ mqttOpen' = FALSE
    /\ UNCHANGED <<received, phase, stores, process, connected, settled, inTime,
                   outgrown, bounds>>

\* Both hooks have returned; the connections close and the process exits.
Stop ==
    /\ phase = "stopping" /\ awaited = 0 /\ ~mqttOpen
    /\ phase' = "stopped"
    /\ UNCHANGED <<received, mqttOpen, stores, process, connected, settled,
                   inTime, outgrown, bounds>>

Crash ==
    /\ phase \in {"running", "stopping"}
    /\ crashes < MaxCrashes /\ crashes' = crashes + 1
    /\ phase' = "down" /\ mqttOpen' = FALSE
    /\ buffer' = << >> /\ chained' = 0 /\ stage' = "idle" /\ batch' = << >>
    /\ awaited' = 0 /\ pipelines' = << >>
    /\ settled' = settled \o batch \o buffer
    /\ UNCHANGED <<received, stores, connected, inTime, outgrown, failures, outages>>

Restart ==
    /\ phase = "down"
    /\ phase' = "running" /\ mqttOpen' = TRUE
    /\ inTime' = Len(received)
    /\ UNCHANGED <<received, stores, process, connected, settled, outgrown, bounds>>

Rest ==
    /\ phase = "stopped" /\ pipelines = << >>
    /\ UNCHANGED vars

Next ==
    \/ \E reading \in Readings : Enqueue(reading)
    \/ TimerTicks \/ Flush \/ Commit \/ PersistFails \/ Announce \/ UpdateShadow
    \/ ConnectionChanges \/ Shutdown \/ MqttEnds \/ Stop \/ Crash \/ Restart
    \/ Rest

Spec == Init /\ [][Next]_vars

\* The timer ticks, chained flushes run, the database and Redis answer, the
\* hooks end and the process is restarted.  No reading has to come, nothing has
\* to fail, and SIGTERM need not come.
FairSpec ==
    /\ Spec
    /\ WF_vars(TimerTicks) /\ WF_vars(Flush)
    /\ WF_vars(Commit \/ PersistFails) /\ WF_vars(Announce)
    /\ WF_vars(UpdateShadow) /\ WF_vars(MqttEnds) /\ WF_vars(Stop)
    /\ WF_vars(Restart)

-----------------------------------------------------------------------------
(* Properties.                                                             *)

Indices == DOMAIN received

\* Types: a flush is running exactly when it has a batch, every store holds
\* readings received, and no more flushes are awaited than were chained.
TypeOK ==
    /\ received \in Seq(Readings)
    /\ phase \in {"running", "stopping", "stopped", "down"}
    /\ stage \in {"idle", "inserting", "committed"} /\ (stage = "idle") = (batch = << >>)
    /\ Members(buffer) \union Members(batch) \union Members(rows)
         \union Members(events) \union Members(settled) \subseteq Indices
    /\ \A d \in Devices : lastSeen[d] \in Times \union {None}
                       /\ shadow[d] \in Indices \union {None}
    /\ chained \in 0 .. MaxChained + 1
    /\ awaited \in 0 .. MaxChained + 2
    /\ inTime \in 0 .. Len(received) /\ outgrown \in BOOLEAN

Increasing(s) == \A i, j \in DOMAIN s : i < j => s[i] < s[j]

\* Every reading acknowledged is accounted for, in the order of arrival and
\* once: settled, in the batch, or in the buffer.  No flush overtakes another
\* and none takes a reading that another has.
EachReadingOnce ==
    /\ settled \o batch \o buffer = [i \in Indices |-> i]
    /\ Increasing(rows)

\* An event announces a reading that is in the table, once and in order: a
\* consumer of telemetry.received never runs ahead of the database.  Every
\* reading settled is stored unless a transaction fails, the process crashes or
\* the database falls so far behind that a batch outgrows one INSERT, and every
\* reading stored is announced unless RabbitMQ is away as well.
EventsFollowRows ==
    /\ Members(events) \subseteq Members(rows) /\ Increasing(events)
    /\ stage = "idle" /\ failures = 0 /\ crashes = 0 =>
          /\ ~outgrown => rows = settled
          /\ outages = 0 => events = rows

\* The shadow and the registry of a device never go back in time: the batches,
\* and the pipelines nobody waits for, take effect in order of arrival.
Timestamp(i) == received[i].timestamp
DevicesNeverGoBack ==
    [][\A d \in Devices :
          /\ lastSeen[d] # None => lastSeen'[d] >= lastSeen[d]
          /\ shadow[d] # None => Timestamp(shadow[d])' >= Timestamp(shadow[d])]_vars

\* The shadow is the latest reading of its device in the table, once the
\* pipelines sent off have been executed.
ShadowIsLatest ==
    pipelines = << >> /\ stage = "idle" /\ failures = 0 /\ crashes = 0 =>
        \A i \in Members(rows) : LET d == received[i].device IN
            shadow[d] # None /\ Timestamp(shadow[d]) >= Timestamp(i)

\* A graceful stop leaves nothing behind that came before it: the last flush,
\* chained behind the running ones, has taken it.  (A reading acknowledged while
\* the hooks run may be left in the buffer.)
ShutdownFlushes ==
    phase = "stopped" => 1 .. inTime \subseteq Members(settled)

\* A reading acknowledged does not stay in the buffer, or in a batch: again and
\* again everything is settled, with no further reading to push it, unless the
\* service is stopped.
ReadingsAreFlushed == []<>(buffer \o batch = << >> \/ phase = "stopped")

=============================================================================
