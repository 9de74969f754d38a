------------------------- MODULE TelemetryContract -------------------------
(***************************************************************************)
(* The wire contract between devices and the ingestion service: topics,    *)
(* the schema of a reading, what the subscriber lets through, and what the *)
(* simulator sends.  A topic is the sequence of its levels; a device id    *)
(* has slashes where it has more than one level.  Numbers are integers in  *)
(* units of 0.0001.                                                        *)
(***************************************************************************)
EXTENDS Integers, Sequences

CONSTANTS
    NoText,     \* a level with nothing in it
    NotJson,    \* a payload that does not parse
    OFFLINE_AFTER_MS, SPIKE_AFTER_MS

Unit == 10000

-----------------------------------------------------------------------------
(* @telemetry/types.                                                       *)

telemetryTopic(deviceId) == <<"devices">> \o deviceId \o <<"telemetry">>

\* The device id in a topic, << >> for null.
parseDeviceIdFromTopic(topic) ==
    IF /\ Len(topic) = 3 /\ topic[1] = "devices" /\ topic[3] = "telemetry"
       /\ topic[2] # NoText
    THEN <<topic[2]>>
    ELSE << >>

Metrics == {"temp", "humidity", "battery", "lat", "lon"}
Limits ==
    [temp |-> <<-60, 150>>, humidity |-> <<0, 100>>, battery |-> <<0, 100>>,
     lat |-> <<-90, 90>>, lon |-> <<-180, 180>>]
Within(x, limits) == x >= limits[1] * Unit /\ x <= limits[2] * Unit

\* TelemetrySchema, of an id that is short enough and a timestamp in its format.
Valid(reading) ==
    /\ reading.device_id # <<NoText>>
    /\ \A f \in Metrics : Within(reading[f], Limits[f])

-----------------------------------------------------------------------------
(* MqttSubscriber.                                                         *)

\* Variant: the id in the topic is not compared.
VerdictOnPayload(topic, payload) ==
    IF parseDeviceIdFromTopic(topic) = << >> THEN "bad_topic"
    ELSE IF payload = NotJson THEN "invalid_json"
    ELSE IF ~Valid(payload) THEN "invalid_schema"
    ELSE "enqueued"

\* handleMessage: the reason a message is dropped for, or "enqueued".
Verdict(topic, payload) ==
    IF parseDeviceIdFromTopic(topic) = << >> THEN "bad_topic"
    ELSE IF payload = NotJson THEN "invalid_json"
    ELSE IF ~Valid(payload) THEN "invalid_schema"
    ELSE IF payload.device_id # parseDeviceIdFromTopic(topic) THEN "device_mismatch"
    ELSE "enqueued"

-----------------------------------------------------------------------------
(* The simulator.                                                          *)

clamp(value, min, max) ==
    IF value < min THEN min ELSE IF value > max THEN max ELSE value
Clamped(value, limits) == clamp(value, limits[1] * Unit, limits[2] * Unit)

\* Math.round to two decimals: halves go up.
round(value) == ((value + 50) \div 100) * 100

\* The role of device i of a fleet, by its place.
Role(i, count) ==
    IF i = count THEN "spike" ELSE IF i = count - 1 THEN "offline" ELSE "normal"

\* draws[f] is Math.random() - 0.5 for the field.
NewDevice(id, role, draws) ==
    [device_id |-> id, role |-> role,
     temp      |-> 20 * Unit + 5 * (draws.temp + Unit \div 2),
     humidity  |-> 45 * Unit + 10 * (draws.humidity + Unit \div 2),
     battery   |-> 100 * Unit,
     lat       |-> 410082 + draws.lat \div 5,
     lon       |-> 289784 + draws.lon \div 5]

drift(device, elapsedMs, draws) ==
    LET spiking == device.role = "spike" /\ elapsedMs >= SPIKE_AFTER_MS
        target  == (IF spiking THEN 95 ELSE 22) * Unit
    IN  [device EXCEPT
           !.temp     = Clamped(@ + (target - @) \div 10 + draws.temp, Limits.temp),
           !.humidity = Clamped(@ + 2 * draws.humidity, <<30, 70>>),
           !.battery  = Clamped(@ - Unit \div 20, Limits.battery),
           !.lat      = Clamped(@ + draws.lat \div 1000, Limits.lat),
           !.lon      = Clamped(@ + draws.lon \div 1000, Limits.lon)]

Payload(device) ==
    [f \in Metrics \union {"device_id"} |->
        IF f \in Metrics THEN round(device[f]) ELSE device[f]]

Ticks(device, elapsedMs) == ~(device.role = "offline" /\ elapsedMs >= OFFLINE_AFTER_MS)

\* The device after a tick, and the readings the tick publishes for it.
tick(device, elapsedMs, draws) ==
    IF ~Ticks(device, elapsedMs) THEN [device |-> device, published |-> {}]
    ELSE LET next == drift(device, elapsedMs, draws)
         IN  [device |-> next, published |-> {p \in {Payload(next)} : Valid(p)}]

=============================================================================
