-------------------------- MODULE ConnectivitySweep --------------------------
(***************************************************************************)
(* The connectivity rules of the rule engine: every interval a sweep reads *)
(* the device registry and evaluates each rule on each row, one after the  *)
(* other across awaits on Redis.  The timer does not wait for the sweep it *)
(* started before.                                                         *)
(*                                                                         *)
(* Times are in whole units of which silenceSeconds and the interval are   *)
(* multiples.  A sweep is named by the time its timer fired, a reading by  *)
(* its number in the order of commits.                                     *)
(***************************************************************************)
EXTENDS Integers, Sequences, FiniteSets, SequencesExt, Functions

CONSTANTS
    Devices,
    Stamps,      \* the times devices put on readings, by clocks of their own
    Silence,     \* silenceSeconds of each connectivity rule
    Interval,    \* OFFLINE_SWEEP_INTERVAL_MS
    MaxTime,     \* bound: the clock; no reading comes and no sweep begins then
    MaxReadings, \* bound: readings committed
    MaxSweeps,   \* bound: sweeps in progress at once
    MaxFaults    \* bound: queries and Redis commands rejected, changes of the
                 \* RabbitMQ connection, and crashes, all together

ASSUME SweepAssumption ==
    /\ Silence \in Seq(Nat \ {0})
    /\ {Interval, MaxSweeps} \subseteq Nat \ {0}
    /\ {MaxTime, MaxReadings, MaxFaults} \subseteq Nat
    /\ Stamps \subseteq Int

VARIABLES
    now,
    readings,   \* history: the readings ingestion has committed, [device, time, at],
                \* with the device's time and that of the commit
    devices,    \* of each device registered, the reading its row is of
    connected,  \* has RabbitMqService a channel?
    up,         \* does the process run?
    nextSweep,  \* when the timer fires
    sweeps,     \* of each sweep in progress: [step, rows, nowMs, todo]
    pipeline,   \* sweeps whose Redis command is out, in order of issue
    fired,      \* connectivity:<rule>:<device> keys present: <<rule, device>>
    alerts,     \* alert.triggered events the broker took: [rule, device, reading],
                \* the silence being counted from that reading
    overran,    \* history: has a sweep lasted for an interval, into the next?
    failures, outages, crashes

world == <<now, readings, devices, connected>>
bounds == <<failures, outages, crashes>>
vars == <<world, up, nextSweep, sweeps, pipeline, fired, alerts, overran, bounds>>

RuleIndices == DOMAIN Silence
MayFail == failures + outages + crashes < MaxFaults
NoSweeps == << >>

\* Function f with v at k.
With(f, k, v) == [x \in DOMAIN f \union {k} |-> IF x = k THEN v ELSE f[x]]

Init ==
    /\ now = 0 /\ readings = << >> /\ devices = << >> /\ connected = TRUE
    /\ up = TRUE /\ nextSweep = Interval
    /\ sweeps = NoSweeps /\ pipeline = << >>
    /\ fired = {} /\ alerts = << >>
    /\ overran = FALSE
    /\ failures = 0 /\ outages = 0 /\ crashes = 0

-----------------------------------------------------------------------------
(* The surroundings.                                                       *)

\* The timer is not late.
Tick ==
    /\ now < MaxTime
    /\ up => now < nextSweep
    /\ now' = now + 1
    /\ overran' = (overran \/ (now' = nextSweep /\ sweeps # NoSweeps))
    /\ UNCHANGED <<readings, devices, connected, up, nextSweep, sweeps, pipeline,
                   fired, alerts, bounds>>

\* Ingestion commits a reading and writes its time to the device's row, whether
\* it is late, from a clock that is ahead, or older than what the row holds.
Report(d, time) ==
    /\ now < MaxTime /\ Len(readings) < MaxReadings
    /\ readings' = Append(readings, [device |-> d, time |-> time, at |-> now])
    /\ devices' = With(devices, d, Len(readings) + 1)
    /\ UNCHANGED <<now, connected, up, nextSweep, sweeps, pipeline, fired,
                   alerts, overran, bounds>>

ConnectionChanges ==
    /\ MayFail /\ outages' = outages + 1
    /\ connected' = ~connected
    /\ UNCHANGED <<now, readings, devices, up, nextSweep, sweeps, pipeline, fired,
                   alerts, overran, failures, crashes>>

Crash ==
    /\ up /\ MayFail
    /\ crashes' = crashes + 1
    /\ up' = FALSE
    /\ sweeps' = NoSweeps /\ pipeline' = << >>
    /\ UNCHANGED <<world, nextSweep, fired, alerts, overran, failures, outages>>

\* Variant: milliseconds taken for seconds.
FirstSweepInMs == nextSweep' = now + 1000 * Interval

FirstSweep == nextSweep' = now + Interval

Restart ==
    /\ ~up
    /\ up' = TRUE
    /\ FirstSweep
    /\ UNCHANGED <<world, sweeps, pipeline, fired, alerts, overran, bounds>>

-----------------------------------------------------------------------------
(* sweepConnectivity.                                                      *)

\* The timer fires: the query is out.
StartSweep ==
    /\ up /\ now = nextSweep /\ now < MaxTime
    /\ Cardinality(DOMAIN sweeps) < MaxSweeps
    /\ nextSweep' = now + Interval
    /\ sweeps' = With(sweeps, now, [step |-> "querying", rows |-> << >>,
                                    nowMs |-> 0, todo |-> << >>])
    /\ UNCHANGED <<world, up, pipeline, fired, alerts, overran, bounds>>

\* The database executes devices.find().
Find(s) ==
    /\ sweeps[s].step = "querying"
    /\ sweeps' = [sweeps EXCEPT ![s].step = "found", ![s].rows = devices]
    /\ UNCHANGED <<world, up, nextSweep, pipeline, fired, alerts, overran, bounds>>

Finish(s) == sweeps' = Restrict(sweeps, DOMAIN sweeps \ {s})

\* Sweep s goes on to what is left to do, or is done.
Proceed(s, todo, queue) ==
    IF todo = << >>
    THEN Finish(s) /\ pipeline' = queue
    ELSE /\ sweeps' = [sweeps EXCEPT ![s].step = "checking", ![s].todo = todo,
                           ![s].nowMs = IF @ = 0 THEN now ELSE @]
         /\ pipeline' = Append(queue, s)

\* Every rule on every row, rows in the order of the result.
Checks(rows) ==
    LET n == Cardinality(DOMAIN rows) IN
    {[k \in 1 .. Len(Silence) * n |->
          <<((k - 1) \div n) + 1, order[((k - 1) % n) + 1]>>]
        : order \in SetToSeqs(DOMAIN rows)}

\* The rows arrive, Date.now() is read, and the first command is out.
Loop(s) ==
    /\ sweeps[s].step = "found"
    /\ \E todo \in Checks(sweeps[s].rows) : Proceed(s, todo, pipeline)
    /\ UNCHANGED <<world, up, nextSweep, fired, alerts, overran, bounds>>

-----------------------------------------------------------------------------
(* evaluateConnectivity: rule and row are at the head of todo.             *)

Check(s) == Head(sweeps[s].todo)
Seen(s) == sweeps[s].rows[Check(s)[2]]    \* the reading the row is of
Silent(s) == sweeps[s].nowMs - readings[Seen(s)].time >= Silence[Check(s)[1]]

\* The command answered is that of sweep s.
Answered(s, step) ==
    pipeline # << >> /\ s = Head(pipeline) /\ sweeps[s].step = step
NextCheck(s) == Proceed(s, Tail(sweeps[s].todo), Tail(pipeline))

\* Variant: the key of an ended silence stays.
KeepKey(s) ==
    /\ Answered(s, "checking") /\ ~Silent(s)
    /\ NextCheck(s)
    /\ UNCHANGED <<world, up, nextSweep, fired, alerts, overran, bounds>>

\* Not silent: the DEL.
Clear(s) ==
    /\ Answered(s, "checking") /\ ~Silent(s)
    /\ fired' = fired \ {Check(s)}
    /\ NextCheck(s)
    /\ UNCHANGED <<world, up, nextSweep, alerts, overran, bounds>>

\* Silent, and the GET finds the key.
AlreadyFired(s) ==
    /\ Answered(s, "checking") /\ Silent(s) /\ Check(s) \in fired
    /\ NextCheck(s)
    /\ UNCHANGED <<world, up, nextSweep, fired, alerts, overran, bounds>>

\* Silent, and the GET finds nothing: the alert, published without a
\* confirmation, and the SET issued.
Alert(s) ==
    /\ Answered(s, "checking") /\ Silent(s) /\ Check(s) \notin fired
    /\ alerts' = IF ~connected THEN alerts
                 ELSE Append(alerts, [rule |-> Check(s)[1],
                                      device |-> Check(s)[2], reading |-> Seen(s)])
    /\ sweeps' = [sweeps EXCEPT ![s].step = "storing"]
    /\ pipeline' = Append(Tail(pipeline), s)
    /\ UNCHANGED <<world, up, nextSweep, fired, overran, bounds>>

\* Variant: the alert leaves no key.
StoreNothing(s) ==
    /\ Answered(s, "storing")
    /\ NextCheck(s)
    /\ UNCHANGED <<world, up, nextSweep, fired, alerts, overran, bounds>>

\* The SET.
Store(s) ==
    /\ Answered(s, "storing")
    /\ fired' = fired \union {Check(s)}
    /\ NextCheck(s)
    /\ UNCHANGED <<world, up, nextSweep, alerts, overran, bounds>>

\* The query or a command is rejected and the sweep ends there; a DEL or SET
\* may have been executed all the same.
Executed(s) ==
    IF Answered(s, "storing") THEN {fired, fired \union {Check(s)}}
    ELSE IF Silent(s) THEN {fired} ELSE {fired, fired \ {Check(s)}}
Fail(s) ==
    /\ MayFail /\ failures' = failures + 1
    /\ Finish(s)
    /\ \/ sweeps[s].step = "querying" /\ UNCHANGED <<pipeline, fired>>
       \/ /\ \E step \in {"checking", "storing"} : Answered(s, step)
          /\ fired' \in Executed(s)
          /\ pipeline' = Tail(pipeline)
    /\ UNCHANGED <<world, up, nextSweep, alerts, overran, outages, crashes>>

-----------------------------------------------------------------------------

Step(s) ==
    \/ Find(s) \/ Loop(s)
    \/ Clear(s) \/ AlreadyFired(s) \/ Alert(s) \/ Store(s) \/ Fail(s)

\* The clock's bound is reached and no sweep is in progress.
Rest ==
    /\ now = MaxTime /\ sweeps = NoSweeps
    /\ UNCHANGED vars

Next ==
    \/ Rest \/ Tick \/ ConnectionChanges \/ Crash \/ Restart \/ StartSweep
    \/ \E d \in Devices, time \in Stamps : Report(d, time)
    \/ \E s \in DOMAIN sweeps : Step(s)

Spec == Init /\ [][Next]_vars

-----------------------------------------------------------------------------
(* Properties.                                                             *)

\* How late reading n was committed; and whether its device was back then, for
\* rule r.
Lag(n) == readings[n].at - readings[n].time
InTime(r, n) == Lag(n) < Silence[r]

\* Types: the next sweep is at most an interval away, a sweep whose command is
\* out has something to do, a row is of a reading of its device, and keys and
\* alerts are of devices registered.
TypeOK ==
    /\ now \in 0 .. MaxTime
    /\ up => nextSweep \in now .. now + Interval
    /\ readings \in Seq([device : Devices, time : Stamps, at : 0 .. now])
    /\ \A d \in DOMAIN devices :
          devices[d] \in DOMAIN readings /\ readings[devices[d]].device = d
    /\ \A s \in DOMAIN sweeps :
          /\ sweeps[s].step \in {"querying", "found", "checking", "storing"}
          /\ (sweeps[s].todo # << >>) = (\E i \in DOMAIN pipeline : pipeline[i] = s)
    /\ fired \subseteq RuleIndices \X DOMAIN devices
    /\ \A i \in DOMAIN alerts :
          /\ alerts[i] \in [rule : RuleIndices, device : DOMAIN devices,
                            reading : DOMAIN readings]
          /\ readings[alerts[i].reading].device = alerts[i].device

\* An offline episode is alerted at most once, whatever times readings carry: of
\* two alerts of a rule for a device, the device was back in between, that is, the
\* second counts from a later reading than the first and one of those since came
\* in time.  (Late readings, and readings older than the row they overwrite, do
\* not open an episode again.)  What can break this is a crash or a rejected
\* command between an alert and its key, or a sweep that runs into the next.
RepeatsOnlyAfterFault ==
    crashes = 0 /\ failures = 0 /\ ~overran =>
        \A i, j \in DOMAIN alerts :
            i < j /\ alerts[i].rule = alerts[j].rule /\ alerts[i].device = alerts[j].device
            => \E n \in alerts[i].reading + 1 .. alerts[j].reading :
                  readings[n].device = alerts[i].device /\ InTime(alerts[i].rule, n)

\* A silence is reported in time: where nothing fails and no sweep overruns, a
\* device silent for silenceSeconds and one interval more has its alert, counted
\* from its last reading, once the sweep begun last has ended, though sweeps
\* judge by rows that have changed since and may set keys for devices that have
\* come back.  It takes a reading that came two intervals before its silence is
\* due to be sure that a sweep in between has seen the device back; of a reading
\* later than that the key of an earlier silence may hide the alert.
SilenceIsReported ==
    crashes = 0 /\ failures = 0 /\ outages = 0 /\ ~overran /\ sweeps = NoSweeps =>
        \A r \in RuleIndices : \A d \in DOMAIN devices :
            /\ Lag(devices[d]) + 2 * Interval <= Silence[r]
            /\ now - readings[devices[d]].time >= Silence[r] + Interval
            => \E i \in DOMAIN alerts :
                   alerts[i] = [rule |-> r, device |-> d, reading |-> devices[d]]

=============================================================================
