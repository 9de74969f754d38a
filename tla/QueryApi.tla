------------------------------ MODULE QueryApi ------------------------------
(***************************************************************************)
(* What the query API makes of the rows it reads: the status of a device,  *)
(* the points of a series, raw or aggregated, over REST or gRPC, and the   *)
(* list of alerts.  Times are integers; a parameter left out is Absent,    *)
(* a gRPC field left out is Empty.                                         *)
(***************************************************************************)
EXTENDS Integers, Sequences, FiniteSetsExt

CONSTANTS
    Absent,
    Rejected,               \* a command that fails
    NotFound,               \* NotFoundException
    Empty,                  \* proto3: what is left out, for a string the empty one
    OFFLINE_THRESHOLD_MS,
    MAX_SERIES_POINTS,
    TELEMETRY_METRICS,
    ViewPolicy,             \* of the view of each resolution but "raw": the width of its
                            \* buckets, and the start and end offsets of its refreshes
    Hour                    \* 3_600_000 ms, in units of time

-----------------------------------------------------------------------------
(* ORDER BY and LIMIT.                                                     *)

\* The keys rows are ordered by, ascending.
NewestFirst(rows) == [r \in rows |-> -r.time]
OldestFirst(rows) == [r \in rows |-> r.time]
ById(ids) == [id \in ids |-> id]

\* The rows by their keys, one with the least key at a time.
First(rows, key) == CHOOSE r \in rows : \A s \in rows : key[r] <= key[s]
OrderBy(rows, key) ==
    LET from[S \in SUBSET rows] ==
            IF S = {} THEN << >> ELSE <<First(S, key)>> \o from[S \ {First(S, key)}]
    IN  from[rows]
Take(s, n) == SubSeq(s, 1, IF Len(s) < n THEN Len(s) ELSE n)

-----------------------------------------------------------------------------
(* DevicesService.                                                         *)

Status(ageMs) == IF ageMs <= OFFLINE_THRESHOLD_MS THEN "ONLINE" ELSE "OFFLINE"

\* The database and Redis: devices is a function from the ids registered to
\* last_seen, shadows one from the ids with a shadow to it.
Shadow(id, shadows) == IF id \in DOMAIN shadows THEN shadows[id] ELSE Absent

\* Redis rejects an MGET without keys.
mget(ids, shadows) ==
    IF ids = << >> THEN Rejected ELSE [i \in DOMAIN ids |-> Shadow(ids[i], shadows)]

toSummary(id, devices, shadow, now) ==
    [device_id |-> id, last_seen |-> devices[id],
     status |-> Status(now - devices[id]), last |-> shadow]

Summaries(ids, devices, replies, now) ==
    IF replies = Rejected THEN Rejected
    ELSE [i \in DOMAIN ids |-> toSummary(ids[i], devices, replies[i], now)]

\* Variant: no devices are no special case.
listEvenNone(devices, shadows, now) ==
    LET ids == OrderBy(DOMAIN devices, ById(DOMAIN devices))
    IN  Summaries(ids, devices, mget(ids, shadows), now)

\* findAll of DevicesService: by device id.
listDevices(devices, shadows, now) ==
    LET ids == OrderBy(DOMAIN devices, ById(DOMAIN devices))
    IN  IF ids = << >> THEN << >>
        ELSE Summaries(ids, devices, mget(ids, shadows), now)

\* NotFoundException where there is no row, with or without a shadow.
findOne(id, devices, shadows, now) ==
    IF id \notin DOMAIN devices THEN NotFound
    ELSE toSummary(id, devices, Shadow(id, shadows), now)

-----------------------------------------------------------------------------
(* SeriesService.                                                          *)

Ascending(rows) == Take(OrderBy(rows, OldestFirst(rows)), MAX_SERIES_POINTS)

To(params, now) == IF params.to = Absent THEN now ELSE params.to
From(params, now) ==
    IF params.from = Absent THEN To(params, now) - Hour ELSE params.from

InRange(time, params, now) == time >= From(params, now) /\ time <= To(params, now)

rawPoints(telemetry, params, now) ==
    Ascending({r \in telemetry : InRange(r.time, params, now)})

\* A view is what its refreshes left in it.  A run at time t computes anew, from the
\* readings that have arrived, the buckets between t less the start offset and t
\* less the end offset; it leaves the others as they are.
Bucket(time, width) == time - (time % width)

\* Variant: the runs do not look back, they compute the bucket that ended last.
OnlyLast(t, view, b) ==
    b + view.width <= t - view.end /\ t - view.end < b + 2 * view.width

Covers(t, view, b) == t - view.start <= b /\ b + view.width <= t - view.end

\* What the row of bucket b has been computed from.
Held(telemetry, view, refreshes, b) ==
    {r \in telemetry :
        /\ Bucket(r.time, view.width) = b
        /\ \E t \in refreshes : Covers(t, view, b) /\ r.arrived <= t}

\* (The average goes the way of the minimum and the maximum.)
Row(held, b) ==
    LET values == {r.value : r \in held}
    IN  [time |-> b, min |-> Min(values), max |-> Max(values)]
View(telemetry, view, refreshes) ==
    LET Rows(b) == Held(telemetry, view, refreshes, b)
    IN  {Row(Rows(b), b) :
            b \in {c \in {Bucket(r.time, view.width) : r \in telemetry} : Rows(c) # {}}}

aggregatePoints(telemetry, view, refreshes, params, now) ==
    Ascending({b \in View(telemetry, view, refreshes) : InRange(b.time, params, now)})

\* query of SeriesService, of a device with these readings, [time, value, arrived].
querySeries(telemetry, refreshes, params, now) ==
    [resolution |-> params.resolution,
     from |-> From(params, now), to |-> To(params, now),
     points |-> IF params.resolution = "raw" THEN rawPoints(telemetry, params, now)
                ELSE aggregatePoints(telemetry, ViewPolicy[params.resolution],
                                     refreshes, params, now)]

\* The schema of a series query: its default, and the fields it finds wrong.
Resolutions == {"raw", "1m", "1h"}
Parse(params) ==
    IF params.resolution = Absent THEN [params EXCEPT !.resolution = "1m"] ELSE params
Issues(params) ==
    {f \in DOMAIN params :
        CASE f = "resolution"   -> params[f] \notin Resolutions \union {Absent}
          [] f \in {"from", "to"} -> params[f] # Absent /\ params[f] \notin Int
          [] f = "metric"       -> params[f] \notin TELEMETRY_METRICS}

-----------------------------------------------------------------------------
(* AlertsService.                                                          *)

Between(time, query) ==
    CASE query.from # Absent /\ query.to # Absent ->
            time >= query.from /\ time <= query.to
      [] query.from # Absent /\ query.to = Absent -> time >= query.from
      [] query.from = Absent /\ query.to # Absent -> time <= query.to
      [] OTHER -> TRUE

Matches(alert, query) ==
    /\ query.device # Absent => alert.device = query.device
    /\ Between(alert.time, query)

\* Newest first, at most query.limit of them.
findAll(alerts, query) ==
    LET matching == {a \in alerts : Matches(a, query)}
    IN  Take(OrderBy(matching, NewestFirst(matching)), query.limit)

=============================================================================
