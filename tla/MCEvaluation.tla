---------------------------- MODULE MCEvaluation ----------------------------
(***************************************************************************)
(* The functions of the platform that keep no state, each over every       *)
(* argument in a small range.  A state is a call: the function and its     *)
(* arguments.                                                              *)
(***************************************************************************)
EXTENDS RuleSchema, QueryEndpoints, TelemetryContract

CONSTANTS
    dev1, dev2,
    Radius,     \* bound: values in -Radius .. Radius, bounds of rules strictly inside
    NoTime      \* a text that is no time

Optional(S) == S \union {Absent}

\* The rows of the device list, with shadows in V, and the series over gRPC.
SummaryRows(V) ==
    [device_id : Int, last_seen : Int, status : {"ONLINE", "OFFLINE"}, last : Optional(V)]
SeriesRows ==
    [resolution : Resolutions, from : Int, to : Int,
     points : Seq([time : Int, min : Int, max : Int])]

\* A failure is told from what the services return.
FailuresDiffer(V) ==
    /\ Rejected \notin Seq(Optional(V)) \union Seq(SummaryRows(V))
    /\ Rejected \notin SummaryRows(V) \union SeriesRows
    /\ NotFound \notin SummaryRows(V)

ASSUME EvaluationAssumption ==
    /\ Radius \in Nat /\ Undefined \notin Int
    /\ NoText \notin {"d", "e", "devices", "telemetry"}
    /\ NotJson \notin [Metrics \union {"device_id"} -> Int \union Seq({"d", "e", NoText})]
    /\ FailuresDiffer({"s", "t", Empty})

\* What is left out or wrong is told from what is given; widths, offsets and times are
\* numbers.
ASSUME QueryAssumption ==
    /\ Absent \notin Int \union Resolutions
    /\ Empty \notin Resolutions \union TELEMETRY_METRICS
    /\ NoText \notin Resolutions \union TELEMETRY_METRICS \union {Absent, Empty}
    /\ NoTime \notin Int \union {Absent, Empty}
    /\ ViewPolicy \in [{"1m", "1h"} -> [width : Nat \ {0}, start : Nat, end : Nat]]
    /\ {Now, Hour} \subseteq Int /\ MAX_SERIES_POINTS \in Nat

-----------------------------------------------------------------------------
(* The calls.                                                              *)

Values == -Radius .. Radius
Bounds == (1 - Radius) .. (Radius - 1)
Fields == Bounds \union {Undefined}
Rules == [operator : Operators, threshold : Fields, min : Fields, max : Fields]
RuleCalls ==
    [fn : {"evaluateRule"}, rule : {r \in Rules : Accepts(r)}, value : Values]

\* Ages around whole seconds before, at and after the threshold, and of a device
\* whose clock is ahead.
Ages == (UNION {(s * 1000 - 1) .. (s * 1000 + 1) : s \in -1 .. 62}) \union
        {s * 1000 + 500 : s \in 58 .. 61}
StatusCalls == [fn : {"status"}, ageMs : Ages]

ViewPolicies ==
    [r \in {"1m", "1h"} |-> [width |-> IF r = "1m" THEN 2 ELSE 3, start |-> 5, end |-> 1]]
SomeMetrics == {"temp"}

\* Up to three readings of a device, of which two may carry the same time.  The runs
\* of the policy find them in time, late for some runs, or too late for all; each run
\* or every other one takes place, or none before the last.
Readings == [time : {0, 1, 2, 5}, value : 1 .. 2, arrived : {2, 4, 7}]
Tables == UNION {kSubset(n, Readings) : n \in 0 .. 3}
SeriesCalls ==
    [fn : {"series"}, telemetry : Tables,
     refreshes : {{}, {Now}, {3, 5, 7}, 3 .. Now},
     request : [metric : TELEMETRY_METRICS, resolution : {"raw", "1m", Empty},
                from : {1, 2, Empty}, to : {2, Empty}]]

\* Questions to the API, with fields left out and fields that are wrong.
QuestionCalls ==
    [fn : {"question"}, route : {"devices", "device", "series"}, id : {1},
     params : [metric : TELEMETRY_METRICS \union {NoText},
               resolution : {"raw", "1m", Empty, NoText},
               from : {1, Empty, NoTime}, to : {2, Empty, NoTime}],
     devices : UNION {[ids -> {0, 1}] : ids \in SUBSET (1 .. 2)},
     shadows : UNION {[ids -> {"s"}] : ids \in SUBSET {1}},
     telemetry : {{}, {[time |-> 1, value |-> 1, arrived |-> 1],
                       [time |-> 2, value |-> 2, arrived |-> 3]}},
     refreshes : {3 .. Now},
     dbUp : BOOLEAN, redisUp : BOOLEAN, production : BOOLEAN]

AlertCalls ==
    [fn : {"alerts"}, alerts : SUBSET [device : {dev1, dev2}, time : {0, 2, 3}],
     query : [device : {dev1, Absent}, from : Optional(1 .. 3),
              to : Optional(1 .. 3), limit : 1 .. 2]]

\* Topics that match devices/+/telemetry and others; readings at and around the
\* limits of the schema.
Levels == {"devices", "telemetry", "d", "e", NoText}
Ids == {<<l>> : l \in {"d", "e", NoText}} \union {<<"d", "e">>}
Topics == [1 .. 3 -> Levels] \union {telemetryTopic(id) : id \in Ids}
Edges(f) == {Limits[f][i] * Unit + d : i \in 1 .. 2, d \in {-1, 0, 1}}
Payloads ==
    {NotJson} \union
    {[f \in Metrics \union {"device_id"} |->
          IF f = "device_id" THEN id ELSE IF f = edge THEN x ELSE 50 * Unit] :
        edge \in Metrics, x \in UNION {Edges(g) : g \in Metrics}, id \in Ids}
MessageCalls == [fn : {"message"}, topic : Topics, payload : Payloads]

\* Devices the simulator can come to: a temperature is drawn to 22 or 95, a
\* humidity clamped, a battery drained, a position wanders anywhere.
Simulated(device) ==
    /\ device.temp >= 17 * Unit /\ device.temp <= 100 * Unit
    /\ Within(device.humidity, <<30, 70>>)
    /\ \A f \in Metrics : Within(device[f], Limits[f])
Draws == {-5000, 0, 4999}
AllDraws == [temp : Draws, humidity : Draws, lat : Draws, lon : {-5000, 4999}]
FleetCalls ==
    {c \in [fn : {"createFleet"}, i : 1 .. 3, count : 1 .. 3, draws : AllDraws] :
        c.i <= c.count}
TickCalls ==
    [fn : {"tick"},
     device : [device_id : {<<"d">>}, role : {"normal", "offline", "spike"},
               temp : {170000, 220001, 1000000},
               humidity : {300000, 699999, 700000},
               battery : {0, 499, 500, 1000000},
               lat : {-900000, 410083, 900000}, lon : {-1800000, 1800000}],
     elapsedMs : {0, OFFLINE_AFTER_MS}, draws : AllDraws]

\* The device list and single devices, by ids in order.
DeviceCalls ==
    [fn : {"devices"},
     devices : UNION {[ids -> {0, 1}] : ids \in SUBSET (1 .. 3)},
     shadows : UNION {[ids -> {"s", "t"}] : ids \in SUBSET (1 .. 3)}]

VARIABLE call

Init ==
    \/ call \in RuleCalls \/ call \in StatusCalls \/ call \in SeriesCalls
    \/ call \in AlertCalls \/ call \in QuestionCalls
    \/ call \in MessageCalls \/ call \in FleetCalls
    \/ call \in TickCalls \/ call \in DeviceCalls

\* The next call, of any function.
Done == UNCHANGED call
Spec == Init /\ [][Done]_call

-----------------------------------------------------------------------------
(* evaluateRule.                                                           *)

Evaluates == call.fn = "evaluateRule"

\* An alert explains itself: except for "inside", where neither bound is
\* crossed, the value lies on the breaching side of the bound reported with it,
\* also for a range written upside down (min above max).
Explained(rule, value) ==
    LET bound == ReportedThreshold(rule, value)
    IN  Breaches(rule, value) =>
            CASE rule.operator = "inside" -> TRUE
              [] rule.operator = "outside" ->
                    \/ bound = rule.min /\ value < bound
                    \/ bound = rule.max /\ value > bound
              [] rule.operator \in {"gt", "gte"} -> value >= bound
              [] rule.operator \in {"lt", "lte"} -> value <= bound
AlertExplainsItself == Evaluates => Explained(call.rule, call.value)

-----------------------------------------------------------------------------
(* The status of a device and the connectivity rule.                       *)

\* The API and the rule engine agree on who is offline: a device shown OFFLINE
\* is silent to the sweep, and one that is silent to the sweep is shown OFFLINE
\* unless its age is the threshold to the millisecond.
Agreed(ageMs) ==
    LET silent == IsSilent(ageMs, OFFLINE_THRESHOLD_MS \div 1000)
    IN  /\ Status(ageMs) = "OFFLINE" => silent
        /\ silent => Status(ageMs) = "OFFLINE" \/ ageMs = OFFLINE_THRESHOLD_MS
StatusAgreesWithSweep == call.fn = "status" => Agreed(call.ageMs)

-----------------------------------------------------------------------------
(* Series.                                                                 *)

ItemsOf(points) == {points[i] : i \in DOMAIN points}

\* A series has no holes.  Asked for over gRPC, where a field left out is empty,
\* it is of the range and resolution the request says, or of the hour before its
\* end and of 1m, and it is sorted.  Raw, it has every reading in the range.
\* Aggregated, it counts in every one: its value lies between the minimum and the
\* maximum of its bucket, except within less than a bucket of the start, where a
\* bucket began before the range, and where since the reading arrived the policy
\* has not run while its bucket was one of those to refresh, ended and not too old.
\* Once the limit is reached, and only then, those may be left out that are no older
\* than any point listed.
NoHoles(telemetry, refreshes, request) ==
    LET given   == GrpcParams(request)
        params  == Parse(given)
        to      == IF request.to = Empty THEN Now ELSE request.to
        from    == IF request.from = Empty THEN to - Hour ELSE request.from
        view    == ViewPolicy[params.resolution]
        points  == querySeries(telemetry, refreshes, params, Now).points
        Beyond(time) == /\ Len(points) = MAX_SERIES_POINTS
                        /\ \A p \in ItemsOf(points) : p.time <= time
        Refreshing(r) == {t \in refreshes :
                         /\ r.arrived <= t
                         /\ t >= Bucket(r.time, view.width) + view.width + view.end
                         /\ t <= Bucket(r.time, view.width) + view.start}
        Counted(r) == \E p \in ItemsOf(points) :
                         /\ p.time = Bucket(r.time, view.width)
                         /\ p.min <= r.value /\ r.value <= p.max
    IN  /\ Issues(given) = {}
        /\ params.resolution = IF request.resolution = Empty THEN "1m" ELSE request.resolution
        /\ \A i, j \in DOMAIN points : i < j => points[i].time <= points[j].time
        /\ \A r \in {s \in telemetry : from <= s.time /\ s.time <= to} :
              IF request.resolution = "raw"
              THEN r \in ItemsOf(points) \/ Beyond(r.time)
              ELSE \/ r.time < from + view.width - 1
                   \/ Refreshing(r) = {}
                   \/ Beyond(Bucket(r.time, view.width))
                   \/ Counted(r)
SeriesHaveNoHoles ==
    call.fn = "series" => NoHoles(call.telemetry, call.refreshes, call.request)

-----------------------------------------------------------------------------
(* Lists.                                                                  *)

\* Lists leave nothing out.  The list of alerts holds the newest ones that
\* match, whichever of the bounds are given: all of them or as many as the limit
\* says, and none left out is newer than one listed.  The list of devices is,
\* device by device and in order, what each would be alone, its own row with its
\* own shadow; without devices it is empty, not an error.
NewestListed(alerts, query) ==
    LET listed == findAll(alerts, query)
        Wants(a) ==
            /\ query.device \in {Absent, a.device}
            /\ query.from = Absent \/ query.from <= a.time
            /\ query.to = Absent \/ a.time <= query.to
    IN  /\ \A i \in DOMAIN listed : Wants(listed[i])
        /\ \A a \in {b \in alerts : Wants(b)} \ ItemsOf(listed) :
              /\ Len(listed) = query.limit
              /\ \A b \in ItemsOf(listed) : b.time >= a.time
AllListed(devices, shadows) ==
    LET One(id) == findOne(id, devices, shadows, 1)
        list    == listDevices(devices, shadows, 1)
    IN  /\ list # Rejected
        /\ ItemsOf(list) =
              {One(id) : id \in DOMAIN devices \union DOMAIN shadows} \ {NotFound}
        /\ \A i, j \in DOMAIN list :
              i < j => list[i].device_id < list[j].device_id
ListsLeaveNothingOut ==
    /\ call.fn = "alerts" => NewestListed(call.alerts, call.query)
    /\ call.fn = "devices" => AllListed(call.devices, call.shadows)

-----------------------------------------------------------------------------
(* REST and gRPC.                                                          *)

\* The question as a REST client asks it: what gRPC has empty is left out.
InRest(q) ==
    [q EXCEPT !.params =
        [f \in DOMAIN @ |-> IF @[f] = Empty THEN Absent ELSE @[f]]]

SamePoint(p, g) ==
    /\ p.time = g.time /\ g.min <= g.max
    /\ IF "value" \in DOMAIN p THEN {p.value} = {g.min, g.max}
       ELSE p.min = g.min /\ p.max = g.max

Malformed(q) ==
    /\ q.route = "series"
    /\ \/ q.params.metric = NoText \/ q.params.resolution = NoText
       \/ NoTime \in {q.params.from, q.params.to}
Unknown(q) == q.route = "device" /\ q.dbUp /\ q.id \notin DOMAIN q.devices

\* The answers over REST and gRPC have the same devices or points.
SameContent(q, body, grpc) ==
    /\ q.route = "devices" =>
          /\ DOMAIN grpc = DOMAIN body
          /\ \A i \in DOMAIN grpc : grpc[i].device_id = body[i].device_id
    /\ q.route = "device" => grpc.status = body.status
    /\ q.route = "series" =>
          /\ grpc.from = body.from /\ grpc.to = body.to
          /\ DOMAIN grpc.points = DOMAIN body.points
          /\ \A i \in DOMAIN grpc.points : SamePoint(body.points[i], grpc.points[i])

\* A question is answered alike over REST and gRPC: both answer, with the same
\* devices or points, or both fail.  Over REST the status says what failed: the
\* question (whatever the stores do, and naming each wrong field), the device,
\* which is not registered, or a store; and in production nothing of a store's
\* error is told.  The metrics tell none of it: a failure is counted as a 200.
Alike(q, rest, grpc) ==
    /\ rest.status = 200 <=> grpc # Rejected
    /\ rest.status = 400 <=> Malformed(q)
    /\ rest.status = 404 <=> Unknown(q)
    /\ rest.status = 500 =>
          /\ ~(q.dbUp /\ q.redisUp)
          /\ q.production => rest.message = Fallback
    /\ rest.status = 400 => \A f \in rest.errors : q.params[f] \in {NoText, NoTime}
    /\ rest.status = 200 => SameContent(q, rest.body, grpc)
AnsweredAlike(q) ==
    LET rest == Rest(InRest(q))
    IN  rest.counted = 200 /\ Alike(q, rest.answer, Grpc(q))
AnswersAgree == call.fn = "question" => AnsweredAlike(call)

-----------------------------------------------------------------------------
(* The wire contract.                                                      *)

\* What a device publishes reaches the buffer, and nothing else does.  No
\* simulated device but an offline one falls silent, whatever it draws: from the
\* fleet's start and at every tick its reading is enqueued, rounding included,
\* and it stays a device of which that is true.  A message is enqueued just if it
\* carries a valid reading of a device and came on that device's topic; a device
\* whose id has a slash has no topic that is read.
Heard(device, elapsedMs, draws) ==
    LET result == tick(device, elapsedMs, draws)
    IN  /\ Simulated(result.device)
        /\ \E payload \in result.published :
              Verdict(telemetryTopic(device.device_id), payload) = "enqueued"
JustlyEnqueued(topic, payload) ==
    (Verdict(topic, payload) = "enqueued") =
        \E id \in {i \in Ids : Len(i) = 1} :
            /\ payload # NotJson
            /\ payload.device_id = id /\ id # <<NoText>>
            /\ \A f \in Metrics :
                  payload[f] \in Limits[f][1] * Unit .. Limits[f][2] * Unit
            /\ topic = telemetryTopic(id)
OwnReadingsArrive ==
    /\ call.fn = "createFleet" =>
           Simulated(NewDevice(<<"d">>, Role(call.i, call.count), call.draws))
    /\ call.fn = "tick" /\ call.device.role # "offline" =>
           Heard(call.device, call.elapsedMs, call.draws)
    /\ call.fn = "message" => JustlyEnqueued(call.topic, call.payload)

=============================================================================
