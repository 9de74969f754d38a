----------------------- MODULE ConnectivitySweepProofs -----------------------
(***************************************************************************)
(* The connectivity sweep for all devices, rules, intervals and clocks.    *)
(***************************************************************************)
EXTENDS ConnectivitySweep, TLAPS, FiniteSetTheorems

-----------------------------------------------------------------------------
(* The invariants.                                                         *)

Reading == [device : Devices, time : Stamps, at : Nat]
Event == [rule : RuleIndices, device : Devices, reading : Nat]
Rows == UNION {[D -> Nat] : D \in SUBSET Devices}
Judging == {"checking", "storing"}
Sweep == [step : {"querying", "found"} \union Judging, rows : Rows, nowMs : Nat,
          todo : Seq(RuleIndices \X Devices)]

\* The clock, the timer and the registry.
TimesInv ==
    /\ now \in 0 .. MaxTime /\ nextSweep \in Nat /\ Interval <= nextSweep
    /\ up => now <= nextSweep
    /\ nextSweep <= now + Interval
    /\ ~up => DOMAIN sweeps = {}
    /\ readings \in Seq(Reading)
    /\ \A n \in DOMAIN readings : readings[n].at <= now
    /\ devices \in Rows /\ IsFiniteSet(DOMAIN devices)
    /\ \A d \in DOMAIN devices :
          devices[d] \in DOMAIN readings /\ readings[devices[d]].device = d
    /\ failures \in Nat /\ outages \in Nat /\ crashes \in Nat
    /\ crashes = 0 => up
    /\ outages = 0 => connected

\* What a sweep has read is the registry, but for what was reported since the
\* sweep began.
RowsOk(s) ==
    /\ DOMAIN sweeps[s].rows \subseteq DOMAIN devices
    /\ \A d \in DOMAIN sweeps[s].rows :
          /\ sweeps[s].rows[d] \in DOMAIN readings /\ sweeps[s].rows[d] <= devices[d]
          /\ readings[sweeps[s].rows[d]].device = d
    /\ \A d \in DOMAIN devices :
          \/ d \in DOMAIN sweeps[s].rows /\ sweeps[s].rows[d] = devices[d]
          \/ s <= readings[devices[d]].at
SweepOk(s) ==
    /\ s \in Nat \ {0} /\ s <= now /\ s + Interval <= nextSweep
    /\ sweeps[s] \in Sweep
    /\ sweeps[s].nowMs <= now
    /\ sweeps[s].todo \in Seq(RuleIndices \X DOMAIN sweeps[s].rows)
    /\ (sweeps[s].step \in Judging) = (sweeps[s].todo # << >>)
    /\ sweeps[s].step \notin Judging => sweeps[s].nowMs = 0
    /\ sweeps[s].step \in Judging =>
          /\ s <= sweeps[s].nowMs
          /\ \A d \in DOMAIN sweeps[s].rows :
                readings[sweeps[s].rows[d]].at <= sweeps[s].nowMs
    /\ sweeps[s].step = "querying" => sweeps[s].rows = << >>
    /\ sweeps[s].step # "querying" => RowsOk(s)
SweepsInv == \A s \in DOMAIN sweeps : SweepOk(s)

\* A command is out for every sweep that has something to do, and one only.
Queue(p, S) ==
    /\ p \in Seq(Nat) /\ \A i, j \in DOMAIN p : p[i] = p[j] => i = j
    /\ S = {p[i] : i \in DOMAIN p}
Busy == {s \in DOMAIN sweeps : sweeps[s].todo # << >>}
PipelineInv == Queue(pipeline, Busy)

KeysInv ==
    /\ fired \subseteq RuleIndices \X DOMAIN devices
    /\ alerts \in Seq(Event)
    /\ \A i \in DOMAIN alerts :
          /\ alerts[i].device \in DOMAIN devices
          /\ alerts[i].reading \in DOMAIN readings
          /\ alerts[i].reading <= devices[alerts[i].device]
          /\ readings[alerts[i].reading].device = alerts[i].device

\* The sweep that runs is the one begun last, until one overruns.
OneSweepInv ==
    ~overran => \A s \in DOMAIN sweeps : s + Interval = nextSweep /\ now < nextSweep

\* Of every alert there is a key, or a sweep about to set it, or a reading since
\* came in time and the sweep that runs has seen it.  No sweep that runs takes the
\* device for back by the reading of the alert or one before.
Keyed(r, d) ==
    \/ <<r, d>> \in fired
    \/ \E s \in DOMAIN sweeps : sweeps[s].step = "storing" /\ Check(s) = <<r, d>>
BackBy(d, n) ==
    /\ n <= devices[d]
    /\ \A s \in DOMAIN sweeps :
          sweeps[s].step # "querying" =>
              d \in DOMAIN sweeps[s].rows /\ n <= sweeps[s].rows[d]
Return(r, d, n) == n \in DOMAIN readings /\ readings[n].device = d /\ InTime(r, n)
CameBack(r, d, n) == \E k \in Nat : n < k /\ Return(r, d, k) /\ BackBy(d, k)
Due(r, n) ==
    /\ readings[n].time + Silence[r] <= now
    /\ \A s \in DOMAIN sweeps :
          sweeps[s].step \in Judging => readings[n].time + Silence[r] <= sweeps[s].nowMs
Backed(r, d, n) ==
    Due(r, n) /\ BackBy(d, n) /\ (Keyed(r, d) \/ CameBack(r, d, n))
Between(r, d, m, n) == \E k \in m + 1 .. n : readings[k].device = d /\ InTime(r, k)
Calm == crashes = 0 /\ failures = 0 /\ ~overran
RepeatsInv ==
    Calm => /\ \A i, j \in DOMAIN alerts :
                  i < j /\ alerts[i].rule = alerts[j].rule
                        /\ alerts[i].device = alerts[j].device
                  => Between(alerts[i].rule, alerts[i].device,
                             alerts[i].reading, alerts[j].reading)
            /\ \A i \in DOMAIN alerts :
                  Backed(alerts[i].rule, alerts[i].device, alerts[i].reading)

\* Alerts of this silence; and a sweep that will judge the device by the rule.
Alerted(r, d, n) ==
    \E i \in DOMAIN alerts : alerts[i] = [rule |-> r, device |-> d, reading |-> n]
Pending(r, d) ==
    \E s \in DOMAIN sweeps :
        \/ sweeps[s].step \notin Judging
        \/ \E k \in DOMAIN sweeps[s].todo : sweeps[s].todo[k] = <<r, d>>

\* A key set for a silence that has ended meets a sweep that removes it before
\* the next silence is due; what was due when the last sweep began is alerted,
\* or the sweep is still to come to it.
Punctual(r, d) == Lag(devices[d]) + 2 * Interval <= Silence[r]
ReportedOf(r, d, n) ==
    /\ <<r, d>> \in fired =>
          \/ Alerted(r, d, n)
          \/ nextSweep <= readings[n].at + Interval
          \/ nextSweep <= readings[n].at + 2 * Interval /\ Pending(r, d)
    /\ readings[n].time + Silence[r] + Interval <= nextSweep =>
          Alerted(r, d, n) \/ Pending(r, d)
Reported(r, d) == ReportedOf(r, d, devices[d])
Quiet == Calm /\ outages = 0
ReportsInv ==
    Quiet =>
        /\ \A s \in DOMAIN sweeps :
              sweeps[s].step = "storing" => Alerted(Check(s)[1], Check(s)[2], Seen(s))
        /\ \A r \in RuleIndices : \A d \in DOMAIN devices :
              Punctual(r, d) => Reported(r, d)

IInv ==
    /\ TimesInv /\ SweepsInv /\ PipelineInv /\ KeysInv
    /\ OneSweepInv /\ RepeatsInv /\ ReportsInv

-----------------------------------------------------------------------------
(* How sweeps go on.                                                       *)

Ended(s) ==
    /\ DOMAIN sweeps' = DOMAIN sweeps \ {s}
    /\ \A t \in DOMAIN sweeps' : sweeps'[t] = sweeps[t]
Became(s, step, rows, nowMs, todo) ==
    /\ DOMAIN sweeps' = DOMAIN sweeps
    /\ \A t \in DOMAIN sweeps \ {s} : sweeps'[t] = sweeps[t]
    /\ sweeps'[s] = [step |-> step, rows |-> rows, nowMs |-> nowMs, todo |-> todo]

LEMMA Types ==
    /\ Interval \in Nat \ {0} /\ MaxTime \in Nat
    /\ Silence \in Seq(Nat \ {0}) /\ Len(Silence) \in Nat /\ RuleIndices = 1 .. Len(Silence)
    /\ \A r \in RuleIndices : Silence[r] \in Nat \ {0}
BY SweepAssumption DEF RuleIndices

LEMMA FinishEnds ==
    ASSUME NEW s \in DOMAIN sweeps, Finish(s) PROVE Ended(s)
BY DEF Finish, Restrict, Ended

LEMMA FindReads ==
    ASSUME NEW s \in DOMAIN sweeps, SweepOk(s), Find(s)
    PROVE  Became(s, "found", devices, sweeps[s].nowMs, sweeps[s].todo)
<1>1. PICK v \in Sweep : v = sweeps[s]
  BY DEF SweepOk
<1>2. sweeps' = [sweeps EXCEPT ![s].step = "found", ![s].rows = devices]
  BY DEF Find
<1> QED BY <1>1, <1>2 DEF Became, Sweep

LEMMA AlertStores ==
    ASSUME NEW s \in DOMAIN sweeps, SweepOk(s), Alert(s)
    PROVE  Became(s, "storing", sweeps[s].rows, sweeps[s].nowMs, sweeps[s].todo)
<1>1. PICK v \in Sweep : v = sweeps[s]
  BY DEF SweepOk
<1>2. sweeps' = [sweeps EXCEPT ![s].step = "storing"]
  BY DEF Alert
<1> QED BY <1>1, <1>2 DEF Became, Sweep

LEMMA ProceedMoves ==
    ASSUME NEW s \in DOMAIN sweeps, SweepOk(s), NEW todo, NEW queue,
           Proceed(s, todo, queue)
    PROVE  \/ todo = << >> /\ Ended(s) /\ pipeline' = queue
           \/ /\ todo # << >> /\ pipeline' = Append(queue, s)
              /\ Became(s, "checking", sweeps[s].rows,
                        IF sweeps[s].nowMs = 0 THEN now ELSE sweeps[s].nowMs, todo)
<1>1. PICK v \in Sweep : v = sweeps[s]
  BY DEF SweepOk
<1>2. CASE todo = << >>
  BY <1>2, FinishEnds DEF Proceed
<1>3. CASE todo # << >>
  <2>1. sweeps' = [sweeps EXCEPT ![s].step = "checking", ![s].todo = todo,
                      ![s].nowMs = IF @ = 0 THEN now ELSE @]
    BY <1>3 DEF Proceed
  <2>2. Became(s, "checking", sweeps[s].rows,
               IF sweeps[s].nowMs = 0 THEN now ELSE sweeps[s].nowMs, todo)
    BY <1>1, <2>1 DEF Became, Sweep
  <2> QED BY <1>3, <2>2 DEF Proceed
<1> QED BY <1>2, <1>3

LEMMA StartAdds ==
    ASSUME TimesInv, SweepsInv, StartSweep
    PROVE  /\ now \notin DOMAIN sweeps /\ DOMAIN sweeps' = DOMAIN sweeps \union {now}
           /\ \A t \in DOMAIN sweeps : sweeps'[t] = sweeps[t]
           /\ sweeps'[now] = [step |-> "querying", rows |-> << >>, nowMs |-> 0,
                              todo |-> << >>]
<1>1. now \notin DOMAIN sweeps
  <2>1. now \in Nat /\ nextSweep = now
    BY Types DEF StartSweep, TimesInv
  <2>2. \A s \in DOMAIN sweeps : s + Interval <= nextSweep
    BY DEF SweepsInv, SweepOk
  <2> QED BY <2>1, <2>2, Types
<1> QED BY <1>1 DEF StartSweep, With

\* The head of what is left to do, and the rest.
LEMMA CheckOf ==
    ASSUME NEW s \in DOMAIN sweeps, SweepOk(s), sweeps[s].step \in Judging
    PROVE  /\ Check(s) \in RuleIndices \X DOMAIN sweeps[s].rows
           /\ Check(s) = sweeps[s].todo[1] /\ 1 \in DOMAIN sweeps[s].todo
           /\ Tail(sweeps[s].todo) \in Seq(RuleIndices \X DOMAIN sweeps[s].rows)
           /\ \A k \in DOMAIN sweeps[s].todo :
                 \/ sweeps[s].todo[k] = Check(s)
                 \/ \E j \in DOMAIN Tail(sweeps[s].todo) :
                       Tail(sweeps[s].todo)[j] = sweeps[s].todo[k]
<1>1. PICK S : S = RuleIndices \X DOMAIN sweeps[s].rows
  OBVIOUS
<1>2. PICK p \in Seq(S) : p = sweeps[s].todo
  BY <1>1 DEF SweepOk
<1>3. p # << >>
  BY <1>2 DEF SweepOk
<1>4. /\ Head(p) \in S /\ Head(p) = p[1] /\ 1 \in DOMAIN p /\ Tail(p) \in Seq(S)
      /\ Len(p) \in Nat \ {0} /\ DOMAIN p = 1 .. Len(p)
      /\ Len(Tail(p)) = Len(p) - 1 /\ DOMAIN Tail(p) = 1 .. Len(p) - 1
      /\ \A j \in 1 .. Len(p) - 1 : Tail(p)[j] = p[j + 1]
  BY <1>3
<1>5. ASSUME NEW k \in DOMAIN p, k # 1
      PROVE  \E j \in DOMAIN Tail(p) : Tail(p)[j] = p[k]
  <2>1. k - 1 \in DOMAIN Tail(p) /\ Tail(p)[k - 1] = p[(k - 1) + 1] /\ (k - 1) + 1 = k
    BY <1>4, <1>5
  <2> QED BY <2>1
<1> QED BY <1>1, <1>2, <1>4, <1>5 DEF Check

\* Every rule is evaluated on every row.
LEMMA AllAreChecked ==
    ASSUME NEW rows, IsFiniteSet(DOMAIN rows), NEW todo \in Checks(rows)
    PROVE  /\ todo \in Seq(RuleIndices \X DOMAIN rows)
           /\ \A r \in RuleIndices, d \in DOMAIN rows :
                 \E k \in DOMAIN todo : todo[k] = <<r, d>>
<1> DEFINE n == Cardinality(DOMAIN rows)
<1>1. PICK order \in SetToSeqs(DOMAIN rows) :
         todo = [k \in 1 .. Len(Silence) * n |->
                   <<((k - 1) \div n) + 1, order[((k - 1) % n) + 1]>>]
  BY DEF Checks
<1>2. n \in Nat
  BY FS_CardinalityType
<1>3. order \in Injection(1 .. n, DOMAIN rows)
  BY <1>1 DEF SetToSeqs, Injection, IsInjective
<1>4. order \in Surjection(1 .. n, DOMAIN rows)
  <2>1. Cardinality(1 .. n) = n
    BY <1>2, FS_Interval
  <2> QED BY <1>3, <2>1, FS_Injection
<1>5. \A d \in DOMAIN rows : \E m \in 1 .. n : order[m] = d
  BY <1>4 DEF Surjection
<1>6. \A m \in 1 .. n : order[m] \in DOMAIN rows
  BY <1>3 DEF Injection
<1> HIDE DEF n
<1>7. PICK l \in Nat : l = Len(Silence) /\ RuleIndices = 1 .. l
  BY Types
<1>8. ASSUME NEW k \in 1 .. l * n
      PROVE  <<((k - 1) \div n) + 1, order[((k - 1) % n) + 1]>> \in RuleIndices \X DOMAIN rows
  <2>1. n # 0
    BY <1>2, <1>7
  <2>2. (k - 1) % n \in 0 .. n - 1 /\ (k - 1) \div n \in Nat
    BY <1>2, <1>7, <2>1
  <2>3. (k - 1) \div n < l
    BY <1>2, <1>7, <2>1
  <2> QED BY <1>2, <1>6, <1>7, <2>2, <2>3
<1>9. ASSUME NEW r \in 1 .. l, NEW m \in 1 .. n
      PROVE  \E k \in 1 .. l * n : ((k - 1) \div n) + 1 = r /\ ((k - 1) % n) + 1 = m
  <2>1. r - 1 \in Nat /\ r - 1 < l /\ m - 1 \in 0 .. n - 1 /\ n \in Nat \ {0}
    BY <1>2, <1>7
  <2>2. PICK q \in Nat, j \in 0 .. n - 1 : q = r - 1 /\ j = m - 1
    BY <2>1
  <2>3. q * n + j \in 0 .. l * n - 1
    BY <1>7, <2>1, <2>2
  <2>4. (q * n + j) \div n = q /\ (q * n + j) % n = j
    BY <2>1
  <2>5. PICK k \in 1 .. l * n : k - 1 = q * n + j
    <3>1. l * n \in Nat /\ q * n \in Nat
      BY <1>7, <2>1
    <3>2. (q * n + j) + 1 \in 1 .. l * n
      BY <2>3, <3>1
    <3> QED BY <3>1, <3>2
  <2> QED BY <2>2, <2>4, <2>5
<1>10. l * n \in Nat
  BY <1>2, <1>7
<1>11. todo \in Seq(RuleIndices \X DOMAIN rows) /\ DOMAIN todo = 1 .. l * n
  BY <1>1, <1>7, <1>8, <1>10
<1>12. ASSUME NEW r \in RuleIndices, NEW d \in DOMAIN rows
       PROVE  \E k \in DOMAIN todo : todo[k] = <<r, d>>
  <2>1. PICK m \in 1 .. n : order[m] = d
    BY <1>5
  <2>2. PICK k \in 1 .. l * n : ((k - 1) \div n) + 1 = r /\ ((k - 1) % n) + 1 = m
    BY <1>7, <1>9
  <2>3. todo[k] = <<((k - 1) \div n) + 1, order[((k - 1) % n) + 1]>>
    BY <1>1, <1>7
  <2> QED BY <1>11, <2>1, <2>2, <2>3
<1> QED BY <1>11, <1>12

-----------------------------------------------------------------------------
(* The clock, the timer and the registry.                                  *)

\* Which variables a step of a sweep leaves alone.
LEMMA StepKeeps ==
    ASSUME NEW s \in DOMAIN sweeps, Step(s)
    PROVE  /\ UNCHANGED <<now, readings, devices, connected, up, nextSweep, overran,
                          outages, crashes>>
           /\ \/ Fail(s) /\ failures' = failures + 1
              \/ ~Fail(s) /\ failures' = failures
BY DEF Step, Find, Loop, Clear, AlreadyFired, Alert, Store, Fail, world, bounds

LEMMA ReadingOk ==
    ASSUME TimesInv, NEW n \in DOMAIN readings
    PROVE  /\ readings[n] \in Reading /\ n \in Nat /\ readings[n].device \in Devices
           /\ readings[n].time \in Int /\ readings[n].at \in Nat /\ readings[n].at <= now
<1>1. readings \in Seq(Reading)
  BY DEF TimesInv
<1>2. readings[n] \in Reading /\ n \in Nat
  BY <1>1
<1> QED BY <1>2, SweepAssumption DEF Reading, TimesInv

LEMMA Appended ==
    ASSUME NEW S, NEW p \in Seq(S), NEW x \in S
    PROVE  /\ Append(p, x) \in Seq(S) /\ DOMAIN Append(p, x) = 1 .. Len(p) + 1
           /\ Len(p) \in Nat /\ DOMAIN p = 1 .. Len(p)
           /\ \A n \in DOMAIN p : Append(p, x)[n] = p[n]
           /\ Append(p, x)[Len(p) + 1] = x
OBVIOUS

\* What a reading changes.
LEMMA Registers ==
    ASSUME TimesInv, NEW d \in Devices, NEW time \in Stamps, Report(d, time)
    PROVE  \E n \in Nat :
              /\ n \notin DOMAIN readings /\ DOMAIN readings' = DOMAIN readings \union {n}
              /\ \A k \in DOMAIN readings : k \in Nat /\ k < n /\ readings'[k] = readings[k]
              /\ readings'[n] = [device |-> d, time |-> time, at |-> now]
              /\ readings' \in Seq(Reading)
              /\ DOMAIN devices' = DOMAIN devices \union {d} /\ devices'[d] = n
              /\ \A e \in DOMAIN devices \ {d} : devices'[e] = devices[e]
<1>1. readings \in Seq(Reading) /\ now \in Nat
  BY DEF TimesInv
<1>2. PICK x \in Reading : x = [device |-> d, time |-> time, at |-> now]
  BY <1>1 DEF Reading
<1>3. readings' = Append(readings, x) /\ devices' = With(devices, d, Len(readings) + 1)
  BY <1>2 DEF Report
<1>4. PICK l \in Nat : l = Len(readings)
  BY <1>1
<1>5. /\ readings' \in Seq(Reading) /\ DOMAIN readings' = 1 .. l + 1
      /\ DOMAIN readings = 1 .. l /\ readings'[l + 1] = x
      /\ \A k \in DOMAIN readings : readings'[k] = readings[k]
  BY <1>1, <1>3, <1>4, Appended
<1>6. /\ l + 1 \in Nat /\ l + 1 \notin DOMAIN readings
      /\ DOMAIN readings' = DOMAIN readings \union {l + 1}
      /\ \A k \in DOMAIN readings : k \in Nat /\ k < l + 1
  BY <1>5
<1>7. /\ DOMAIN devices' = DOMAIN devices \union {d} /\ devices'[d] = l + 1
      /\ \A e \in DOMAIN devices \ {d} : devices'[e] = devices[e]
  BY <1>3, <1>4 DEF With
<1> QED BY <1>2, <1>5, <1>6, <1>7

LEMMA TimesStep == ASSUME TimesInv, SweepsInv, [Next]_vars PROVE TimesInv'
<1>0. /\ Interval \in Nat \ {0} /\ MaxTime \in Nat /\ now \in Nat /\ nextSweep \in Nat
      /\ devices \in Rows
  BY Types DEF TimesInv
<1>1. CASE Tick
  <2>1. \A n \in DOMAIN readings : readings[n].at <= now + 1
    BY <1>0, ReadingOk
  <2>2. now' = now + 1 /\ now' \in 0 .. MaxTime /\ (up => now' <= nextSweep)
        /\ nextSweep <= now' + Interval
    BY <1>0, <1>1 DEF Tick, TimesInv
  <2>3. UNCHANGED <<readings, devices, connected, up, nextSweep, sweeps, bounds>>
    BY <1>1 DEF Tick
  <2> QED BY <2>1, <2>2, <2>3 DEF bounds, TimesInv
<1>2. ASSUME NEW d \in Devices, NEW time \in Stamps, Report(d, time) PROVE TimesInv'
  <2>1. UNCHANGED <<now, connected, up, nextSweep, sweeps, overran, bounds>>
    BY <1>2 DEF Report
  <2>2. PICK n \in Nat :
           /\ n \notin DOMAIN readings /\ DOMAIN readings' = DOMAIN readings \union {n}
           /\ \A k \in DOMAIN readings : k \in Nat /\ k < n /\ readings'[k] = readings[k]
           /\ readings'[n] = [device |-> d, time |-> time, at |-> now]
           /\ readings' \in Seq(Reading)
           /\ DOMAIN devices' = DOMAIN devices \union {d} /\ devices'[d] = n
           /\ \A e \in DOMAIN devices \ {d} : devices'[e] = devices[e]
    BY <1>2, Registers
  <2>3. PICK D \in SUBSET Devices : devices \in [D -> Nat]
    BY <1>0 DEF Rows
  <2>4. devices' \in [D \union {d} -> Nat] /\ D \union {d} \in SUBSET Devices
    <3>1. devices' = With(devices, d, Len(readings) + 1) /\ Len(readings) + 1 \in Nat
      BY <1>2 DEF Report, TimesInv
    <3> QED BY <2>3, <3>1 DEF With
  <2>5. devices' \in Rows
    BY <2>4 DEF Rows
  <2>6. IsFiniteSet(DOMAIN devices')
    <3>1. IsFiniteSet(DOMAIN devices)
      BY DEF TimesInv
    <3>2. IsFiniteSet(DOMAIN devices \union {d})
      BY <3>1, FS_AddElement
    <3> QED BY <2>2, <3>2
  <2>7. \A k \in DOMAIN readings' : readings'[k].at <= now
    BY <1>0, <2>2 DEF TimesInv
  <2>8. \A e \in DOMAIN devices' :
           devices'[e] \in DOMAIN readings' /\ readings'[devices'[e]].device = e
    BY <2>2 DEF TimesInv
  <2> QED BY <2>1, <2>2, <2>5, <2>6, <2>7, <2>8 DEF TimesInv, bounds
<1>3. CASE ConnectionChanges
  BY <1>3 DEF ConnectionChanges, TimesInv
<1>4. CASE Crash
  <2>1. DOMAIN sweeps' = {}
    BY <1>4 DEF Crash, NoSweeps
  <2> QED BY <1>4, <2>1 DEF Crash, world, TimesInv
<1>5. CASE Restart
  <2>1. /\ up' = TRUE /\ nextSweep' = now + Interval
        /\ UNCHANGED <<now, readings, devices, connected, failures, outages, crashes>>
    BY <1>5 DEF Restart, FirstSweep, world, bounds
  <2>2. /\ nextSweep' \in Nat /\ Interval <= nextSweep' /\ now' <= nextSweep'
        /\ nextSweep' <= now' + Interval
    BY <1>0, <2>1
  <2> QED BY <2>1, <2>2 DEF TimesInv
<1>6. CASE StartSweep
  BY <1>0, <1>6 DEF StartSweep, world, bounds, TimesInv
<1>7. ASSUME NEW s \in DOMAIN sweeps, Step(s) PROVE TimesInv'
  <2>1. /\ now' = now /\ readings' = readings /\ devices' = devices
        /\ connected' = connected /\ up' = up
        /\ nextSweep' = nextSweep /\ outages' = outages /\ crashes' = crashes
        /\ failures' = failures \/ failures' = failures + 1
    BY <1>7, StepKeeps
  <2>2. failures' \in Nat
    BY <2>1 DEF TimesInv
  <2> QED BY <1>7, <2>1, <2>2 DEF TimesInv
<1>8. CASE UNCHANGED vars
  BY <1>8 DEF vars, world, bounds, TimesInv
<1> QED BY <1>1, <1>2, <1>3, <1>4, <1>5, <1>6, <1>7, <1>8 DEF Next, Rest

\* The clock and the timer do not go back while sweeps are in progress, nor does
\* the registry.
LEMMA WorldStep ==
    ASSUME TimesInv, [Next]_vars
    PROVE  /\ now \in Nat /\ now' \in Nat /\ now <= now'
           /\ DOMAIN sweeps # {} => nextSweep <= nextSweep'
           /\ nextSweep \in Nat /\ nextSweep' \in Nat
           /\ DOMAIN readings \subseteq DOMAIN readings'
           /\ \A n \in DOMAIN readings : n \in Nat /\ readings'[n] = readings[n]
           /\ DOMAIN devices \subseteq DOMAIN devices'
           /\ \A d \in DOMAIN devices : devices[d] \in Nat /\ devices[d] <= devices'[d]
           /\ \A d \in DOMAIN devices' :
                 /\ devices'[d] \in Nat
                 /\ \/ d \in DOMAIN devices /\ devices'[d] = devices[d]
                    \/ readings'[devices'[d]].at = now
<1>0. now \in Nat /\ nextSweep \in Nat /\ Interval \in Nat
  BY Types DEF TimesInv
<1>1. \/ UNCHANGED <<readings, devices>>
      \/ \E d \in Devices, time \in Stamps : Report(d, time)
  BY DEF Next, Rest, Tick, ConnectionChanges, Crash, Restart, StartSweep, vars, world,
     Step, Find, Loop, Clear, AlreadyFired, Alert, Store, Fail
<1>2. now' = now \/ now' = now + 1
  BY DEF Next, Rest, Tick, Report, ConnectionChanges, Crash, Restart, StartSweep, vars,
     world, Step, Find, Loop, Clear, AlreadyFired, Alert, Store, Fail
<1>3. nextSweep' = nextSweep \/ StartSweep \/ Restart
  BY DEF Next, Rest, Tick, Report, ConnectionChanges, Crash, vars, Step, Find, Loop, Clear,
     AlreadyFired, Alert, Store, Fail
<1>4. DOMAIN sweeps # {} => nextSweep <= nextSweep'
  BY <1>0, <1>3 DEF StartSweep, Restart, FirstSweep, TimesInv
<1>5. nextSweep' \in Nat
  BY <1>0, <1>3 DEF StartSweep, Restart, FirstSweep
<1>6. \A d \in DOMAIN devices : devices[d] \in DOMAIN readings /\ devices[d] \in Nat
  BY DEF TimesInv, Rows
<1>7. /\ DOMAIN readings \subseteq DOMAIN readings'
      /\ \A n \in DOMAIN readings : n \in Nat /\ readings'[n] = readings[n]
      /\ DOMAIN devices \subseteq DOMAIN devices'
      /\ \A d \in DOMAIN devices : devices[d] <= devices'[d]
      /\ \A d \in DOMAIN devices' :
            /\ devices'[d] \in Nat
            /\ \/ d \in DOMAIN devices /\ devices'[d] = devices[d]
               \/ readings'[devices'[d]].at = now
  <2>1. CASE UNCHANGED <<readings, devices>>
    BY <1>6, <2>1, ReadingOk
  <2>2. CASE \E d \in Devices, time \in Stamps : Report(d, time)
    <3>0. PICK d \in Devices, time \in Stamps : Report(d, time)
      BY <2>2
    <3>1. PICK n \in Nat :
            /\ DOMAIN readings' = DOMAIN readings \union {n}
            /\ \A k \in DOMAIN readings : k \in Nat /\ k < n /\ readings'[k] = readings[k]
            /\ readings'[n] = [device |-> d, time |-> time, at |-> now]
            /\ DOMAIN devices' = DOMAIN devices \union {d} /\ devices'[d] = n
            /\ \A e \in DOMAIN devices \ {d} : devices'[e] = devices[e]
      BY <3>0, Registers
    <3> QED BY <1>6, <3>1
  <2> QED BY <1>1, <2>1, <2>2
<1> QED BY <1>0, <1>2, <1>4, <1>5, <1>6, <1>7

-----------------------------------------------------------------------------
(* The sweeps.                                                             *)

\* A sweep that a step leaves alone.
LEMMA SweepKept ==
    ASSUME TimesInv, [Next]_vars, NEW s \in DOMAIN sweeps, SweepOk(s), sweeps'[s] = sweeps[s]
    PROVE  SweepOk(s)'
<1>1. PICK v \in Sweep : v = sweeps[s] /\ v = sweeps'[s]
  BY DEF SweepOk
<1>2. v.rows \in Rows /\ \A d \in DOMAIN v.rows : v.rows[d] \in Nat
  BY <1>1 DEF Sweep, Rows
<1>3. \A d \in DOMAIN devices : devices[d] \in Nat /\ devices[d] \in DOMAIN readings
  BY DEF TimesInv, Rows
<1>4. RowsOk(s) => RowsOk(s)' /\ \A d \in DOMAIN v.rows : v.rows[d] \in DOMAIN readings
  <2> SUFFICES ASSUME RowsOk(s)
               PROVE  RowsOk(s)' /\ \A d \in DOMAIN v.rows : v.rows[d] \in DOMAIN readings
    OBVIOUS
  <2>1. s \in Nat /\ s <= now
    BY DEF SweepOk
  <2>2. \A d \in DOMAIN v.rows :
           /\ d \in DOMAIN devices /\ d \in DOMAIN devices'
           /\ v.rows[d] \in DOMAIN readings /\ v.rows[d] <= devices[d]
           /\ readings[v.rows[d]].device = d
    BY <1>1, WorldStep DEF RowsOk
  <2>3. \A d \in DOMAIN v.rows :
           /\ v.rows[d] \in DOMAIN readings' /\ v.rows[d] <= devices'[d]
           /\ readings'[v.rows[d]].device = d
    BY <1>2, <1>3, <2>2, WorldStep
  <2>4. \A d \in DOMAIN devices' :
            \/ d \in DOMAIN v.rows /\ v.rows[d] = devices'[d]
            \/ s <= readings'[devices'[d]].at
    BY <1>1, <1>3, <2>1, WorldStep DEF RowsOk
  <2> QED BY <1>1, <2>2, <2>3, <2>4 DEF RowsOk
<1>5. /\ s <= now' /\ s + Interval <= nextSweep' /\ v.nowMs <= now'
  <2>1. v.nowMs \in Nat /\ Interval \in Nat
    BY <1>1, Types DEF Sweep
  <2> QED BY <1>1, <2>1, WorldStep DEF SweepOk
<1>6. v.step \in Judging => \A d \in DOMAIN v.rows : readings'[v.rows[d]].at <= v.nowMs
  <2> SUFFICES ASSUME v.step \in Judging, NEW d \in DOMAIN v.rows
               PROVE  readings'[v.rows[d]].at <= v.nowMs
    OBVIOUS
  <2>1. v.rows[d] \in DOMAIN readings /\ readings[v.rows[d]].at <= v.nowMs
    BY <1>1, <1>4 DEF SweepOk, Judging
  <2> QED BY <2>1, WorldStep
<1> QED BY <1>1, <1>4, <1>5, <1>6 DEF SweepOk

\* A sweep goes on to its next check, or ends.
Advanced(s) ==
    \/ Tail(sweeps[s].todo) = << >> /\ Ended(s) /\ pipeline' = Tail(pipeline)
    \/ /\ Tail(sweeps[s].todo) # << >> /\ pipeline' = Append(Tail(pipeline), s)
       /\ Became(s, "checking", sweeps[s].rows, sweeps[s].nowMs, Tail(sweeps[s].todo))

LEMMA NextCheckAdvances ==
    ASSUME NEW s \in DOMAIN sweeps, SweepOk(s), sweeps[s].step \in Judging, NextCheck(s)
    PROVE  Advanced(s)
<1>1. sweeps[s].nowMs # 0
  BY DEF SweepOk
<1> QED BY <1>1, ProceedMoves DEF NextCheck, Advanced

\* What a step of sweep s does, action by action.
Found(s) ==
    /\ sweeps[s].step = "querying" /\ Became(s, "found", devices, 0, << >>)
    /\ UNCHANGED <<pipeline, fired, alerts>>
Looped(s, todo) ==
    /\ sweeps[s].step = "found" /\ UNCHANGED <<fired, alerts>>
    /\ \/ todo = << >> /\ Ended(s) /\ pipeline' = pipeline
       \/ /\ todo # << >> /\ pipeline' = Append(pipeline, s)
          /\ Became(s, "checking", sweeps[s].rows, now, todo)
Cleared(s) ==
    /\ sweeps[s].step = "checking" /\ ~Silent(s) /\ Advanced(s)
    /\ fired' = fired \ {Check(s)} /\ alerts' = alerts
Skipped(s) ==
    /\ sweeps[s].step = "checking" /\ Silent(s) /\ Advanced(s)
    /\ Check(s) \in fired /\ UNCHANGED <<fired, alerts>>
Alerting(s) ==
    /\ sweeps[s].step = "checking" /\ Silent(s) /\ Check(s) \notin fired /\ fired' = fired
    /\ Became(s, "storing", sweeps[s].rows, sweeps[s].nowMs, sweeps[s].todo)
    /\ pipeline' = Append(Tail(pipeline), s)
    /\ alerts' = IF ~connected THEN alerts
                 ELSE Append(alerts, [rule |-> Check(s)[1],
                                      device |-> Check(s)[2], reading |-> Seen(s)])
Stored(s) ==
    /\ sweeps[s].step = "storing" /\ Advanced(s)
    /\ fired' = fired \union {Check(s)} /\ alerts' = alerts
Failed(s) ==
    /\ Ended(s) /\ failures' = failures + 1 /\ alerts' = alerts
    /\ \/ sweeps[s].step = "querying" /\ UNCHANGED <<pipeline, fired>>
       \/ /\ sweeps[s].step \in Judging /\ pipeline' = Tail(pipeline)
          /\ fired' \in {fired, fired \union {Check(s)}, fired \ {Check(s)}}

LEMMA StepMoves ==
    ASSUME NEW s \in DOMAIN sweeps, SweepOk(s), Step(s)
    PROVE  /\ \/ Found(s)
              \/ \E todo \in Checks(sweeps[s].rows) : Looped(s, todo)
              \/ Cleared(s) \/ Skipped(s) \/ Alerting(s) \/ Stored(s) \/ Failed(s)
           /\ sweeps[s].step \in Judging => pipeline # << >> /\ s = Head(pipeline)
<1>1. CASE Find(s)
  <2>1. sweeps[s].nowMs = 0 /\ sweeps[s].todo = << >> /\ sweeps[s].step = "querying"
    BY <1>1 DEF Find, SweepOk, Judging
  <2> QED BY <1>1, <2>1, FindReads DEF Find, Judging, Found
<1>2. CASE Loop(s)
  <2>1. sweeps[s].nowMs = 0 /\ sweeps[s].step = "found"
    BY <1>2 DEF Loop, SweepOk, Judging
  <2>2. PICK todo \in Checks(sweeps[s].rows) : Proceed(s, todo, pipeline)
    BY <1>2 DEF Loop
  <2>3. Looped(s, todo)
    BY <1>2, <2>1, <2>2, ProceedMoves DEF Loop, Looped
  <2> QED BY <2>1, <2>3 DEF Judging
<1>3. CASE Clear(s)
  BY <1>3, NextCheckAdvances DEF Clear, Answered, Judging, Cleared
<1>4. CASE AlreadyFired(s)
  BY <1>4, NextCheckAdvances DEF AlreadyFired, Answered, Judging, Skipped
<1>5. CASE Alert(s)
  BY <1>5, AlertStores DEF Alert, Answered, Alerting
<1>6. CASE Store(s)
  BY <1>6, NextCheckAdvances DEF Store, Answered, Judging, Stored
<1>7. CASE Fail(s)
  <2>1. Failed(s)
    BY <1>7, FinishEnds DEF Fail, Answered, Executed, Judging, Failed
  <2> QED BY <1>7, <2>1 DEF Fail, Answered, Judging
<1> QED BY <1>1, <1>2, <1>3, <1>4, <1>5, <1>6, <1>7 DEF Step

LEMMA JudgingOk ==
    ASSUME NEW s \in DOMAIN sweeps, SweepOk(s), sweeps[s].step # "querying",
           UNCHANGED <<now, readings, devices, nextSweep>>,
           NEW step \in Judging, NEW nowMs \in Nat, s <= nowMs, nowMs <= now,
           \A d \in DOMAIN sweeps[s].rows : readings[sweeps[s].rows[d]].at <= nowMs,
           NEW todo \in Seq(RuleIndices \X DOMAIN sweeps[s].rows), todo # << >>,
           Became(s, step, sweeps[s].rows, nowMs, todo)
    PROVE  SweepOk(s)'
<1>1. PICK rows \in Rows : rows = sweeps[s].rows
  BY DEF SweepOk, Sweep
<1>2. PICK v : v = [step |-> step, rows |-> rows, nowMs |-> nowMs, todo |-> todo]
  OBVIOUS
<1>3. sweeps'[s] = v
  BY <1>1, <1>2 DEF Became
<1>4. DOMAIN rows \subseteq Devices
  BY <1>1 DEF Rows
<1>5. todo \in Seq(RuleIndices \X Devices)
  <2>1. RuleIndices \X DOMAIN rows \subseteq RuleIndices \X Devices
    BY <1>4
  <2> QED BY <1>1, <2>1
<1>6. v \in Sweep
  BY <1>2, <1>5 DEF Sweep
<1>7. RowsOk(s)'
  BY <1>1, <1>2, <1>3 DEF SweepOk, RowsOk
<1>8. v.step = step /\ v.rows = rows /\ v.nowMs = nowMs /\ v.todo = todo
  BY <1>2
<1> QED BY <1>1, <1>3, <1>6, <1>7, <1>8 DEF SweepOk, Judging

LEMMA SweepsStep == ASSUME TimesInv, SweepsInv, [Next]_vars PROVE SweepsInv'
<1>0. TimesInv' /\ now \in Nat /\ devices \in Rows /\ IsFiniteSet(DOMAIN devices)
  BY TimesStep DEF TimesInv
<1>1. ASSUME NEW t \in DOMAIN sweeps', t \in DOMAIN sweeps, sweeps'[t] = sweeps[t]
      PROVE  SweepOk(t)'
  BY <1>1, SweepKept DEF SweepsInv
<1>2. ASSUME NEW s \in DOMAIN sweeps, Ended(s) PROVE SweepsInv'
  BY <1>1, <1>2 DEF SweepsInv, Ended
<1>3. ASSUME NEW s \in DOMAIN sweeps, NEW step, NEW rows, NEW nowMs, NEW todo,
             Became(s, step, rows, nowMs, todo), SweepOk(s)'
      PROVE  SweepsInv'
  BY <1>1, <1>3 DEF SweepsInv, Became
<1>4. ASSUME NEW s \in DOMAIN sweeps, Step(s) PROVE SweepsInv'
  <2>0. /\ SweepOk(s) /\ UNCHANGED <<now, readings, devices, nextSweep>>
        /\ s \in Nat \ {0} /\ s <= now
    BY <1>4, StepKeeps DEF SweepsInv, SweepOk
  <2>1. ASSUME Advanced(s), sweeps[s].step \in Judging PROVE SweepsInv'
    <3>1. CASE Ended(s)
      BY <1>2, <3>1
    <3>2. CASE Tail(sweeps[s].todo) # << >> /\
               Became(s, "checking", sweeps[s].rows, sweeps[s].nowMs, Tail(sweeps[s].todo))
      <4>1. /\ sweeps[s].nowMs \in Nat /\ sweeps[s].nowMs <= now /\ s <= sweeps[s].nowMs
            /\ sweeps[s].step # "querying"
            /\ \A d \in DOMAIN sweeps[s].rows :
                  readings[sweeps[s].rows[d]].at <= sweeps[s].nowMs
        BY <2>0, <2>1 DEF SweepOk, Sweep, Judging
      <4>2. SweepOk(s)'
        BY <2>0, <2>1, <3>2, <4>1, CheckOf, JudgingOk DEF Judging
      <4> QED BY <1>3, <3>2, <4>2
    <3> QED BY <2>1, <3>1, <3>2 DEF Advanced
  <2>2. CASE Found(s)
    <3>1. Became(s, "found", devices, 0, << >>)
      BY <2>2 DEF Found
    <3>2. PICK v : v = [step |-> "found", rows |-> devices, nowMs |-> 0, todo |-> << >>]
      OBVIOUS
    <3>3. v \in Sweep /\ sweeps'[s] = v
      BY <1>0, <3>1, <3>2 DEF Became, Sweep
    <3>4. RowsOk(s)'
      <4>1. \A d \in DOMAIN devices :
               /\ devices[d] \in DOMAIN readings /\ devices[d] <= devices[d]
               /\ readings[devices[d]].device = d
        BY <1>0 DEF TimesInv, Rows
      <4> QED BY <2>0, <3>2, <3>3, <4>1 DEF RowsOk
    <3>5. SweepOk(s)'
      BY <2>0, <3>2, <3>3, <3>4, <1>0 DEF SweepOk, Judging
    <3> QED BY <1>3, <3>1, <3>5
  <2>3. ASSUME NEW todo \in Checks(sweeps[s].rows), Looped(s, todo) PROVE SweepsInv'
    <3>1. CASE Ended(s)
      BY <1>2, <3>1
    <3>2. CASE todo # << >> /\ Became(s, "checking", sweeps[s].rows, now, todo)
      <4>1. sweeps[s].step # "querying" /\ RowsOk(s)
        BY <2>0, <2>3 DEF Looped, SweepOk
      <4>2. IsFiniteSet(DOMAIN sweeps[s].rows)
        BY <1>0, <4>1, FS_Subset DEF RowsOk
      <4>3. todo \in Seq(RuleIndices \X DOMAIN sweeps[s].rows)
        BY <4>2, AllAreChecked
      <4>4. \A d \in DOMAIN sweeps[s].rows : readings[sweeps[s].rows[d]].at <= now
        BY <4>1 DEF RowsOk, TimesInv
      <4>5. SweepOk(s)'
        <5>1. PICK n \in Nat : n = now /\ s <= n /\ n <= now
          BY <1>0, <2>0
        <5>2. Became(s, "checking", sweeps[s].rows, n, todo)
          BY <3>2, <5>1
        <5>3. \A d \in DOMAIN sweeps[s].rows : readings[sweeps[s].rows[d]].at <= n
          BY <4>4, <5>1
        <5> QED BY <2>0, <3>2, <4>1, <4>3, <5>1, <5>2, <5>3, JudgingOk DEF Judging
      <4> QED BY <1>3, <3>2, <4>5
    <3> QED BY <2>3, <3>1, <3>2 DEF Looped
  <2>4. CASE Alerting(s)
    <3>1. /\ Became(s, "storing", sweeps[s].rows, sweeps[s].nowMs, sweeps[s].todo)
          /\ sweeps[s].step = "checking"
      BY <2>4 DEF Alerting
    <3>2. /\ sweeps[s].nowMs \in Nat /\ sweeps[s].nowMs <= now /\ s <= sweeps[s].nowMs
          /\ \A d \in DOMAIN sweeps[s].rows :
                readings[sweeps[s].rows[d]].at <= sweeps[s].nowMs
          /\ sweeps[s].todo # << >>
          /\ sweeps[s].todo \in Seq(RuleIndices \X DOMAIN sweeps[s].rows)
      BY <2>0, <3>1 DEF SweepOk, Sweep, Judging
    <3>3. SweepOk(s)'
      BY <2>0, <3>1, <3>2, JudgingOk DEF Judging
    <3> QED BY <1>3, <3>1, <3>3
  <2> QED
    BY <1>2, <1>4, <2>0, <2>1, <2>2, <2>3, <2>4, StepMoves
       DEF Cleared, Skipped, Stored, Failed, Judging
<1>5. CASE StartSweep
  <2>0. PICK t \in Nat : t = now
    BY <1>0
  <2>1. SweepOk(t)'
    <3>1. PICK v : v = [step |-> "querying", rows |-> << >>, nowMs |-> 0, todo |-> << >>]
      OBVIOUS
    <3>2. v \in Sweep /\ sweeps'[t] = v
      <4>1. << >> \in Rows
        <5>1. << >> \in [{} -> Nat] /\ {} \in SUBSET Devices
          OBVIOUS
        <5> QED BY <5>1 DEF Rows
      <4> QED BY <1>5, <2>0, <3>1, <4>1, StartAdds DEF Sweep
    <3>3. now' = t /\ nextSweep' = t + Interval /\ t \in Nat \ {0}
      BY <1>0, <1>5, <2>0, Types DEF StartSweep, world, TimesInv
    <3>4. v.step = "querying" /\ v.rows = << >> /\ v.nowMs = 0 /\ v.todo = << >>
      BY <3>1
    <3>5. \A S : << >> \in Seq(S)
      OBVIOUS
    <3>6. t <= now' /\ t + Interval <= nextSweep' /\ v.nowMs <= now'
      BY <3>3, <3>4, Types
    <3> QED BY <3>2, <3>3, <3>4, <3>5, <3>6 DEF SweepOk, Judging
  <2> QED BY <1>1, <1>5, <2>0, <2>1, StartAdds DEF SweepsInv
<1>6. CASE Crash
  BY <1>6 DEF Crash, NoSweeps, SweepsInv
<1>7. CASE sweeps' = sweeps
  BY <1>1, <1>7 DEF SweepsInv
<1> QED
  BY <1>4, <1>5, <1>6, <1>7
     DEF Next, Rest, Tick, Report, ConnectionChanges, Restart, vars

-----------------------------------------------------------------------------
(* The pipeline, the keys and the alerts.                                  *)

LEMMA QueueTail ==
    ASSUME NEW p, NEW S, Queue(p, S), p # << >>
    PROVE  Head(p) \in S /\ Queue(Tail(p), S \ {Head(p)})
<1>1. /\ p \in Seq(Nat) /\ Len(p) \in Nat \ {0} /\ DOMAIN p = 1 .. Len(p)
      /\ Head(p) = p[1] /\ Tail(p) \in Seq(Nat) /\ DOMAIN Tail(p) = 1 .. Len(p) - 1
      /\ \A i \in 1 .. Len(p) - 1 : Tail(p)[i] = p[i + 1]
      /\ \A i, j \in DOMAIN p : p[i] = p[j] => i = j
      /\ S = {p[i] : i \in DOMAIN p}
  BY DEF Queue
<1>2. \A i, j \in DOMAIN Tail(p) : Tail(p)[i] = Tail(p)[j] => i = j
  <2> SUFFICES ASSUME NEW i \in DOMAIN Tail(p), NEW j \in DOMAIN Tail(p),
                      Tail(p)[i] = Tail(p)[j]
               PROVE  i = j
    OBVIOUS
  <2>0. i \in Nat /\ j \in Nat /\ i + 1 \in DOMAIN p /\ j + 1 \in DOMAIN p
    <3>1. /\ i \in 1 .. Len(p) - 1 /\ j \in 1 .. Len(p) - 1 /\ Len(p) \in Nat
          /\ DOMAIN p = 1 .. Len(p)
      BY <1>1
    <3> QED BY <3>1
  <2>1. Tail(p)[i] = p[i + 1] /\ Tail(p)[j] = p[j + 1]
    BY <1>1
  <2>2. i + 1 = j + 1
    BY <1>1, <2>0, <2>1
  <2> QED BY <2>0, <2>2
<1>3. ASSUME NEW i \in DOMAIN Tail(p) PROVE Tail(p)[i] \in S \ {Head(p)}
  <2>1. i + 1 \in DOMAIN p /\ 1 \in DOMAIN p /\ i + 1 # 1 /\ Tail(p)[i] = p[i + 1]
    BY <1>1
  <2> QED BY <1>1, <2>1
<1>4. ASSUME NEW x \in S \ {Head(p)} PROVE \E i \in DOMAIN Tail(p) : Tail(p)[i] = x
  <2>1. PICK i \in DOMAIN p : p[i] = x
    BY <1>1
  <2>2. i # 1
    BY <1>1, <2>1
  <2>3. i - 1 \in DOMAIN Tail(p) /\ Tail(p)[i - 1] = p[(i - 1) + 1] /\ (i - 1) + 1 = i
    BY <1>1, <2>2
  <2> QED BY <2>1, <2>3
<1>5. Head(p) \in S
  <2>1. 1 \in DOMAIN p
    BY <1>1
  <2> QED BY <1>1, <2>1
<1>6. S \ {Head(p)} = {Tail(p)[i] : i \in DOMAIN Tail(p)}
  BY <1>3, <1>4
<1> QED BY <1>1, <1>2, <1>5, <1>6 DEF Queue

LEMMA Members == ASSUME NEW S, NEW p \in Seq(S) PROVE \A i \in DOMAIN p : p[i] \in S
OBVIOUS

LEMMA QueueAppend ==
    ASSUME NEW p, NEW S, Queue(p, S), NEW s \in Nat, s \notin S
    PROVE  Queue(Append(p, s), S \union {s})
<1>0. p \in Seq(Nat)
  BY DEF Queue
<1>1. PICK q \in Seq(Nat) : q = Append(p, s)
  BY <1>0, Appended
<1>2. /\ Len(p) \in Nat /\ DOMAIN p = 1 .. Len(p) /\ DOMAIN q = 1 .. Len(p) + 1
      /\ q[Len(p) + 1] = s
      /\ \A i \in DOMAIN p : i \in DOMAIN q /\ q[i] = p[i]
      /\ \A i, j \in DOMAIN p : p[i] = p[j] => i = j
      /\ S = {p[i] : i \in DOMAIN p}
  <2>1. /\ Len(p) \in Nat /\ DOMAIN p = 1 .. Len(p) /\ DOMAIN q = 1 .. Len(p) + 1
        /\ q[Len(p) + 1] = s /\ \A i \in DOMAIN p : q[i] = p[i]
    BY <1>0, <1>1, Appended
  <2> QED BY <2>1 DEF Queue
<1>3. \A i \in DOMAIN q : i \in DOMAIN p \/ i = Len(p) + 1
  BY <1>2
<1>4. \A i, j \in DOMAIN q : q[i] = q[j] => i = j
  BY <1>2, <1>3
<1>5. S \union {s} = {q[i] : i \in DOMAIN q}
  <2>1. Len(p) + 1 \in DOMAIN q
    BY <1>2
  <2> QED BY <1>2, <1>3, <2>1
<1> QED BY <1>1, <1>4, <1>5 DEF Queue

LEMMA PipelineStep == ASSUME TimesInv, SweepsInv, PipelineInv, [Next]_vars PROVE PipelineInv'
<1>0. Queue(pipeline, Busy)
  BY DEF PipelineInv
<1>1. \A s \in DOMAIN sweeps : SweepOk(s) /\ s \in Nat
  BY DEF SweepsInv, SweepOk
<1>2. ASSUME NEW s \in DOMAIN sweeps, Ended(s) PROVE Busy' = Busy \ {s}
  BY <1>2 DEF Busy, Ended
<1>3. ASSUME NEW s \in DOMAIN sweeps, NEW step, NEW rows, NEW nowMs, NEW todo,
             Became(s, step, rows, nowMs, todo)
      PROVE  Busy' = IF todo = << >> THEN Busy \ {s} ELSE Busy \union {s}
  <2>1. sweeps'[s].todo = todo
    BY <1>3 DEF Became
  <2> QED BY <1>3, <2>1 DEF Busy, Became
<1>4. ASSUME NEW s \in DOMAIN sweeps, Step(s) PROVE PipelineInv'
  <2>1. SweepOk(s) /\ s \in Nat
    BY <1>1
  <2>2. (s \in Busy) = (sweeps[s].step \in Judging)
    BY <2>1 DEF Busy, SweepOk
  <2>3. ASSUME sweeps[s].step \in Judging
        PROVE  /\ Queue(Tail(pipeline), Busy \ {s})
               /\ Queue(Append(Tail(pipeline), s), Busy \union {s})
    <3>1. Queue(Tail(pipeline), Busy \ {s}) /\ s \in Busy
      BY <1>0, <1>4, <2>1, <2>3, StepMoves, QueueTail
    <3>2. (Busy \ {s}) \union {s} = Busy \union {s}
      BY <3>1
    <3> QED BY <2>1, <3>1, <3>2, QueueAppend
  <2>4. ASSUME Advanced(s), sweeps[s].step \in Judging PROVE PipelineInv'
    BY <1>2, <1>3, <2>3, <2>4 DEF Advanced, PipelineInv
  <2>5. CASE Found(s)
    <3>1. Busy' = Busy
      BY <1>3, <2>2, <2>5 DEF Found, Judging
    <3> QED BY <1>0, <2>5, <3>1 DEF Found, PipelineInv
  <2>6. ASSUME NEW todo \in Checks(sweeps[s].rows), Looped(s, todo) PROVE PipelineInv'
    <3>1. s \notin Busy
      BY <2>2, <2>6 DEF Looped, Judging
    <3>2. CASE Ended(s) /\ pipeline' = pipeline
      BY <1>0, <1>2, <3>1, <3>2 DEF PipelineInv
    <3>3. CASE /\ todo # << >> /\ pipeline' = Append(pipeline, s)
               /\ Became(s, "checking", sweeps[s].rows, now, todo)
      <4>1. Busy' = Busy \union {s}
        BY <1>3, <3>3
      <4> QED BY <1>0, <2>1, <3>1, <3>3, <4>1, QueueAppend DEF PipelineInv
    <3> QED BY <2>6, <3>2, <3>3 DEF Looped
  <2>7. CASE Alerting(s)
    <3>1. /\ Became(s, "storing", sweeps[s].rows, sweeps[s].nowMs, sweeps[s].todo)
          /\ sweeps[s].step = "checking" /\ pipeline' = Append(Tail(pipeline), s)
      BY <2>7 DEF Alerting
    <3>2. sweeps[s].todo # << >>
      BY <2>1, <3>1 DEF SweepOk, Judging
    <3>3. Busy' = Busy \union {s}
      BY <1>3, <3>1, <3>2
    <3> QED BY <2>3, <3>1, <3>3 DEF PipelineInv, Judging
  <2>8. CASE Failed(s)
    <3>1. Busy' = Busy \ {s}
      BY <1>2, <2>8 DEF Failed
    <3>2. CASE sweeps[s].step = "querying" /\ pipeline' = pipeline
      <4>1. s \notin Busy
        BY <2>2, <3>2 DEF Judging
      <4>2. Busy' = Busy
        BY <3>1, <4>1
      <4> QED BY <1>0, <3>2, <4>2 DEF PipelineInv
    <3>3. CASE sweeps[s].step \in Judging /\ pipeline' = Tail(pipeline)
      BY <2>3, <3>1, <3>3 DEF PipelineInv
    <3> QED BY <2>8, <3>2, <3>3 DEF Failed
  <2> QED
    BY <1>4, <2>1, <2>4, <2>5, <2>6, <2>7, <2>8, StepMoves
       DEF Cleared, Skipped, Stored, Judging
<1>5. CASE StartSweep
  <2>1. Busy' = Busy
    <3>1. PICK t : t = now
      OBVIOUS
    <3>2. sweeps'[t].todo = << >>
      BY <1>5, <3>1, StartAdds
    <3> QED BY <1>5, <3>1, <3>2, StartAdds DEF Busy
  <2>2. pipeline' = pipeline
    BY <1>5 DEF StartSweep
  <2> QED BY <1>0, <2>1, <2>2 DEF PipelineInv
<1>6. CASE Crash
  <2>1. pipeline' = << >> /\ Busy' = {}
    BY <1>6 DEF Crash, NoSweeps, Busy
  <2>2. Queue(<< >>, {})
    BY DEF Queue
  <2> QED BY <2>1, <2>2 DEF PipelineInv
<1>7. CASE UNCHANGED <<sweeps, pipeline>>
  BY <1>0, <1>7 DEF PipelineInv, Busy
<1> QED
  BY <1>4, <1>5, <1>6, <1>7
     DEF Next, Rest, Tick, Report, ConnectionChanges, Restart, vars

LEMMA OneSweepStep ==
    ASSUME TimesInv, SweepsInv, OneSweepInv, [Next]_vars PROVE OneSweepInv'
<1> SUFFICES ASSUME ~overran', NEW s \in DOMAIN sweeps'
             PROVE  s + Interval = nextSweep' /\ now' < nextSweep'
  BY DEF OneSweepInv
<1>0. /\ now \in Nat /\ nextSweep \in Nat /\ Interval \in Nat \ {0}
      /\ ~overran => \A t \in DOMAIN sweeps : t + Interval = nextSweep /\ now < nextSweep
  BY Types DEF TimesInv, OneSweepInv
<1>1. CASE Tick
  <2>1. sweeps' = sweeps /\ nextSweep' = nextSweep /\ now' = now + 1
    BY <1>1 DEF Tick
  <2>2. sweeps # NoSweeps
    BY <2>1 DEF NoSweeps
  <2>3. ~overran /\ now' # nextSweep
    BY <1>1, <2>2 DEF Tick
  <2> QED BY <1>0, <2>1, <2>3
<1>2. CASE StartSweep
  <2>1. /\ now = nextSweep /\ now' = now /\ nextSweep' = now + Interval
        /\ overran' = overran
    BY <1>2 DEF StartSweep, world
  <2>2. DOMAIN sweeps = {}
    <3>1. ~overran /\ ~(now < nextSweep)
      BY <1>0, <2>1
    <3> QED BY <1>0, <3>1
  <2> QED BY <1>0, <1>2, <2>1, <2>2, StartAdds
<1>3. CASE Crash
  BY <1>3 DEF Crash, NoSweeps
<1>4. CASE Restart
  BY <1>4 DEF Restart, TimesInv
<1>5. ASSUME NEW t \in DOMAIN sweeps, Step(t)
      PROVE  s + Interval = nextSweep' /\ now' < nextSweep'
  <2>1. UNCHANGED <<now, nextSweep, overran>>
    BY <1>5, StepKeeps
  <2>2. s \in DOMAIN sweeps
    BY <1>5, StepMoves
       DEF SweepsInv, Found, Looped, Cleared, Skipped, Alerting, Stored, Failed, Advanced,
           Ended, Became
  <2> QED BY <1>0, <2>1, <2>2
<1>6. CASE UNCHANGED <<now, nextSweep, overran, sweeps>>
  BY <1>0, <1>6
<1> QED
  BY <1>1, <1>2, <1>3, <1>4, <1>5, <1>6
     DEF Next, Rest, Report, ConnectionChanges, vars, world

\* The rule and the row that a sweep is at.
LEMMA Judged ==
    ASSUME TimesInv, NEW s \in DOMAIN sweeps, SweepOk(s), sweeps[s].step \in Judging
    PROVE  \E r \in RuleIndices, d \in DOMAIN devices :
              /\ Check(s) = <<r, d>> /\ d \in Devices
              /\ d \in DOMAIN sweeps[s].rows /\ Seen(s) = sweeps[s].rows[d]
              /\ Seen(s) \in Nat /\ Seen(s) \in DOMAIN readings
              /\ readings[Seen(s)].device = d /\ Seen(s) <= devices[d]
              /\ Seen(s) = devices[d] \/ s <= readings[devices[d]].at
              /\ readings[Seen(s)].at <= sweeps[s].nowMs
              /\ sweeps[s].nowMs \in Nat /\ s <= sweeps[s].nowMs /\ sweeps[s].nowMs <= now
              /\ Silence[r] \in Nat \ {0}
              /\ Silent(s) = (readings[Seen(s)].time + Silence[r] <= sweeps[s].nowMs)
<1>1. PICK r \in RuleIndices, d \in DOMAIN sweeps[s].rows : Check(s) = <<r, d>>
  <2>1. Check(s) \in RuleIndices \X DOMAIN sweeps[s].rows
    BY CheckOf
  <2> QED BY <2>1
<1>2. RowsOk(s)
  BY DEF SweepOk, Judging
<1>3. /\ d \in DOMAIN devices /\ sweeps[s].rows[d] <= devices[d]
      /\ sweeps[s].rows[d] \in DOMAIN readings /\ readings[sweeps[s].rows[d]].device = d
      /\ sweeps[s].rows[d] = devices[d] \/ s <= readings[devices[d]].at
  BY <1>1, <1>2 DEF RowsOk
<1>4. sweeps[s].rows[d] \in Nat /\ d \in Devices
  BY <1>1, <1>3 DEF SweepOk, Sweep, Rows, TimesInv
<1>5. Seen(s) = sweeps[s].rows[d]
  BY <1>1 DEF Seen
<1>6. /\ sweeps[s].nowMs \in Nat /\ s <= sweeps[s].nowMs /\ sweeps[s].nowMs <= now
      /\ readings[sweeps[s].rows[d]].at <= sweeps[s].nowMs
  BY <1>1 DEF SweepOk, Sweep
<1>7. Silence[r] \in Nat \ {0}
  BY Types
<1>8. Silent(s) = (readings[Seen(s)].time + Silence[r] <= sweeps[s].nowMs)
  <2>1. Silent(s) = (sweeps[s].nowMs - readings[Seen(s)].time >= Silence[r])
    BY <1>1 DEF Silent
  <2>2. readings[Seen(s)].time \in Int
    BY <1>3, <1>5, ReadingOk
  <2> QED BY <1>6, <1>7, <2>1, <2>2
<1> QED BY <1>1, <1>3, <1>4, <1>5, <1>6, <1>7, <1>8

LEMMA KeysStep == ASSUME TimesInv, SweepsInv, KeysInv, [Next]_vars PROVE KeysInv'
<1> DEFINE Of(n, d) == n \in DOMAIN readings /\ readings[n].device = d /\ n <= devices[d]
<1>0. \A d \in DOMAIN devices : \A n \in Nat : Of(n, d) => d \in DOMAIN devices' /\ Of(n, d)'
  <2> SUFFICES ASSUME NEW d \in DOMAIN devices, NEW n \in Nat, Of(n, d)
               PROVE  d \in DOMAIN devices' /\ Of(n, d)'
    OBVIOUS
  <2>1. d \in DOMAIN devices' /\ devices[d] \in Nat /\ devices'[d] \in Nat /\ devices[d] <= devices'[d]
    BY WorldStep
  <2>2. n \in DOMAIN readings' /\ readings'[n] = readings[n]
    BY WorldStep
  <2> QED BY <2>1, <2>2
<1>1. \A i \in DOMAIN alerts :
         /\ alerts[i].reading \in Nat /\ alerts[i].device \in DOMAIN devices
         /\ Of(alerts[i].reading, alerts[i].device)
  <2>1. alerts \in Seq(Event)
    BY DEF KeysInv
  <2>2. \A i \in DOMAIN alerts : alerts[i] \in Event
    BY <2>1, Members
  <2> QED BY <2>2 DEF KeysInv, Event
<1>2. ASSUME alerts' = alerts, fired' \subseteq RuleIndices \X DOMAIN devices PROVE KeysInv'
  <2>1. fired' \subseteq RuleIndices \X DOMAIN devices'
    BY <1>2, WorldStep
  <2>2. \A i \in DOMAIN alerts : /\ alerts[i].device \in DOMAIN devices'
                                /\ Of(alerts[i].reading, alerts[i].device)'
    BY <1>0, <1>1, <1>2
  <2> QED BY <1>2, <2>1, <2>2 DEF KeysInv
<1>3. ASSUME NEW s \in DOMAIN sweeps, Step(s) PROVE KeysInv'
  <2>0. SweepOk(s) /\ UNCHANGED <<readings, devices>> /\ fired \subseteq RuleIndices \X DOMAIN devices
    BY <1>3, StepKeeps DEF SweepsInv, KeysInv
  <2>1. sweeps[s].step \in Judging => Check(s) \in RuleIndices \X DOMAIN devices
    BY <2>0, Judged
  <2>2. CASE Alerting(s) /\ connected
    <3>0. sweeps[s].step \in Judging
      BY <2>2 DEF Alerting, Judging
    <3>1. PICK r \in RuleIndices, d \in DOMAIN devices, n \in Nat :
             Check(s) = <<r, d>> /\ n = Seen(s) /\ Of(n, d) /\ d \in Devices
      BY <2>0, <3>0, Judged
    <3>2. PICK a \in Event : a = [rule |-> r, device |-> d, reading |-> n]
      BY <3>1 DEF Event
    <3>3. alerts' = Append(alerts, a) /\ fired' = fired
      BY <2>2, <3>1, <3>2 DEF Alerting
    <3>4. /\ alerts' \in Seq(Event)
          /\ \A i \in DOMAIN alerts' :
                (i \in DOMAIN alerts /\ alerts'[i] = alerts[i]) \/ alerts'[i] = a
      <4>1. alerts \in Seq(Event)
        BY DEF KeysInv
      <4>2. /\ Append(alerts, a) \in Seq(Event) /\ Len(alerts) \in Nat
            /\ DOMAIN Append(alerts, a) = 1 .. Len(alerts) + 1
            /\ DOMAIN alerts = 1 .. Len(alerts)
            /\ \A i \in DOMAIN alerts : Append(alerts, a)[i] = alerts[i]
            /\ Append(alerts, a)[Len(alerts) + 1] = a
        BY <4>1, Appended
      <4> QED BY <3>3, <4>2
    <3> QED BY <1>1, <2>0, <3>1, <3>2, <3>3, <3>4 DEF KeysInv
  <2>3. CASE ~(Alerting(s) /\ connected)
    <3>1. alerts' = alerts /\ fired' \subseteq RuleIndices \X DOMAIN devices
      BY <1>3, <2>0, <2>1, <2>3, StepMoves
         DEF Found, Looped, Cleared, Skipped, Alerting, Stored, Failed, Judging
    <3> QED BY <1>2, <3>1
  <2> QED BY <2>2, <2>3
<1>4. CASE UNCHANGED <<fired, alerts>>
  BY <1>2, <1>4 DEF KeysInv
<1> QED
  BY <1>3, <1>4
     DEF Next, Rest, Tick, Report, ConnectionChanges, Crash, Restart, StartSweep, vars

-----------------------------------------------------------------------------
(* One alert for an episode.                                               *)

\* Faults are not forgotten.
LEMMA FaultsStay ==
    ASSUME TimesInv, [Next]_vars, Calm'
    PROVE  /\ Calm /\ up /\ ~Crash /\ ~Restart
           /\ \A s \in DOMAIN sweeps : ~Fail(s)
           /\ outages' = 0 => outages = 0
<1>0. crashes \in Nat /\ failures \in Nat /\ outages \in Nat /\ (crashes = 0 => up)
  BY DEF TimesInv
<1>1. ~Crash
  BY <1>0 DEF Crash, Calm
<1>2. \A s \in DOMAIN sweeps : ~Fail(s)
  BY <1>0 DEF Fail, Calm
<1>3. \/ UNCHANGED <<overran, bounds>>
      \/ Tick /\ UNCHANGED bounds
      \/ ConnectionChanges
  <2>1. ASSUME NEW s \in DOMAIN sweeps, Step(s) PROVE UNCHANGED <<overran, bounds>>
    BY <1>2, <2>1, StepKeeps DEF bounds
  <2> QED
    BY <1>1, <2>1 DEF Next, Rest, Tick, Report, Restart, StartSweep, vars
<1>4. Calm /\ (outages' = 0 => outages = 0)
  <2>1. CASE UNCHANGED <<overran, bounds>>
    BY <2>1 DEF Calm, bounds
  <2>2. CASE Tick /\ UNCHANGED bounds
    <3>1. overran => overran'
      BY <2>2 DEF Tick
    <3> QED BY <2>2, <3>1 DEF Calm, bounds
  <2>3. CASE ConnectionChanges
    <3>1. outages' # 0
      BY <1>0, <2>3 DEF ConnectionChanges
    <3> QED BY <2>3, <3>1 DEF ConnectionChanges, Calm
  <2> QED BY <1>3, <2>1, <2>2, <2>3
<1>5. up /\ ~Restart
  BY <1>0, <1>4 DEF Calm, Restart
<1> QED BY <1>1, <1>2, <1>4, <1>5

LEMMA OneAtATime ==
    ASSUME TimesInv, SweepsInv, OneSweepInv, ~overran, NEW s \in DOMAIN sweeps
    PROVE  DOMAIN sweeps = {s} /\ s \in Nat /\ s + Interval = nextSweep /\ now < nextSweep
<1>1. \A t \in DOMAIN sweeps : t \in Nat /\ t + Interval = nextSweep
  BY DEF SweepsInv, SweepOk, OneSweepInv
<1>2. \A t \in DOMAIN sweeps : t = s
  BY <1>1, Types
<1> QED BY <1>1, <1>2 DEF OneSweepInv

LEMMA BackedStays ==
    ASSUME TimesInv, SweepsInv, OneSweepInv, [Next]_vars, Calm',
           NEW r \in RuleIndices, NEW d \in DOMAIN devices, NEW n \in DOMAIN readings,
           Backed(r, d, n)
    PROVE  Backed(r, d, n)'
<1>0. Calm /\ ~Crash /\ ~Restart /\ (\A s \in DOMAIN sweeps : ~Fail(s)) /\ ~overran
  BY FaultsStay DEF Calm
<1>1. Silence[r] \in Nat \ {0} /\ now \in Nat /\ n \in Nat
  BY Types, ReadingOk DEF TimesInv
<1>2. PICK due \in Int : due = readings[n].time + Silence[r] /\ due = (readings[n].time + Silence[r])'
  BY <1>1, ReadingOk, WorldStep
<1>3. due <= now'
  BY <1>1, <1>2, WorldStep DEF Backed, Due
<1>4. \A k \in Nat : k <= devices[d] => k <= devices'[d]
  BY WorldStep
<1>5. ASSUME NEW k \in Nat, Return(r, d, k) PROVE Return(r, d, k)'
  BY <1>5, WorldStep DEF Return, InTime, Lag
<1>6. CASE sweeps' = sweeps /\ fired' = fired
  <2>1. \A k \in Nat : BackBy(d, k) => BackBy(d, k)'
    BY <1>4, <1>6 DEF BackBy
  <2>2. CameBack(r, d, n) => CameBack(r, d, n)'
    BY <1>5, <2>1 DEF CameBack
  <2>3. Keyed(r, d) => Keyed(r, d)'
    BY <1>6 DEF Keyed, Check
  <2>4. Due(r, n)'
    BY <1>2, <1>3, <1>6 DEF Backed, Due
  <2> QED BY <1>1, <2>1, <2>2, <2>3, <2>4 DEF Backed
<1>7. CASE StartSweep
  <2>1. PICK v : v = now /\ v \notin DOMAIN sweeps
    BY StartAdds, <1>7
  <2>2. /\ DOMAIN sweeps' = DOMAIN sweeps \union {v}
        /\ \A t \in DOMAIN sweeps : sweeps'[t] = sweeps[t]
        /\ sweeps'[v].step = "querying" /\ fired' = fired
    BY <1>7, <2>1, StartAdds DEF StartSweep
  <2>3. Keyed(r, d) => Keyed(r, d)'
    BY <2>2 DEF Keyed, Check
  <2>4. \A k \in Nat : BackBy(d, k) => BackBy(d, k)'
    BY <1>4, <2>2 DEF BackBy
  <2>5. CameBack(r, d, n) => CameBack(r, d, n)'
    BY <1>5, <2>4 DEF CameBack
  <2>6. Due(r, n)'
    BY <1>2, <1>3, <2>2 DEF Backed, Due, Judging
  <2> QED BY <1>1, <2>3, <2>4, <2>5, <2>6 DEF Backed
<1>8. ASSUME NEW s \in DOMAIN sweeps, Step(s) PROVE Backed(r, d, n)'
  <2>0. /\ SweepOk(s) /\ DOMAIN sweeps = {s} /\ UNCHANGED <<now, readings, devices>>
        /\ ~Fail(s) /\ failures' = failures
    BY <1>0, <1>8, OneAtATime, StepKeeps DEF SweepsInv
  <2> DEFINE Since(rows, k) == k <= devices[d] /\ d \in DOMAIN rows /\ k <= rows[d]
  <2>1. ASSUME Ended(s), <<r, d>> \in fired' \/ CameBack(r, d, n) PROVE Backed(r, d, n)'
    <3>1. DOMAIN sweeps' = {}
      BY <2>0, <2>1 DEF Ended
    <3>2. \A k \in Nat : BackBy(d, k) => BackBy(d, k)'
      BY <1>4, <3>1 DEF BackBy
    <3>3. CameBack(r, d, n) => CameBack(r, d, n)'
      BY <1>5, <3>2 DEF CameBack
    <3>4. Due(r, n)'
      BY <1>2, <1>3, <3>1 DEF Due
    <3> QED BY <1>1, <2>1, <3>2, <3>3, <3>4 DEF Backed, Keyed
  <2>2. ASSUME NEW step, NEW rows, NEW nowMs, NEW todo, Became(s, step, rows, nowMs, todo),
               step \in Judging => due <= nowMs, Since(rows, n),
               \/ <<r, d>> \in fired'
               \/ step = "storing" /\ Head(todo) = <<r, d>>
               \/ \E k \in Nat : n < k /\ Return(r, d, k) /\ Since(rows, k)
        PROVE  Backed(r, d, n)'
    <3>1. /\ DOMAIN sweeps' = {s} /\ sweeps'[s].step = step /\ sweeps'[s].rows = rows
          /\ sweeps'[s].nowMs = nowMs /\ sweeps'[s].todo = todo
      BY <2>0, <2>2 DEF Became
    <3>2. ASSUME NEW k \in Nat, Since(rows, k) PROVE BackBy(d, k)'
      BY <1>4, <3>1, <3>2 DEF BackBy
    <3>3. (\E k \in Nat : n < k /\ Return(r, d, k) /\ Since(rows, k)) => CameBack(r, d, n)'
      BY <1>5, <3>2 DEF CameBack
    <3>4. Due(r, n)'
      BY <1>2, <1>3, <2>2, <3>1 DEF Due
    <3>5. Keyed(r, d)' \/ CameBack(r, d, n)'
      BY <2>2, <3>1, <3>3 DEF Keyed, Check
    <3> QED BY <1>1, <2>2, <3>2, <3>4, <3>5 DEF Backed
  <2>3. \/ <<r, d>> \in fired
        \/ sweeps[s].step = "storing" /\ Check(s) = <<r, d>>
        \/ CameBack(r, d, n)
    BY <2>0 DEF Backed, Keyed
  <2>4. n <= devices[d] /\ (sweeps[s].step # "querying" => Since(sweeps[s].rows, n))
    BY DEF Backed, BackBy
  <2>5. CameBack(r, d, n) =>
           \E k \in Nat : /\ n < k /\ Return(r, d, k) /\ k <= devices[d]
                          /\ sweeps[s].step # "querying" => Since(sweeps[s].rows, k)
    BY DEF CameBack, BackBy
  <2>6. sweeps[s].step \in Judging => due <= sweeps[s].nowMs
    BY <1>2 DEF Backed, Due
  <2>7. ASSUME Advanced(s), sweeps[s].step \in Judging,
               <<r, d>> \in fired' \/ CameBack(r, d, n)
        PROVE  Backed(r, d, n)'
    BY <2>1, <2>2, <2>4, <2>5, <2>6, <2>7 DEF Advanced, Judging
  <2>8. CASE Found(s)
    <3>1. /\ Became(s, "found", devices, 0, << >>) /\ sweeps[s].step = "querying"
          /\ fired' = fired
      BY <2>8 DEF Found
    <3>2. Since(devices, n)
      BY <2>4
    <3>3. CameBack(r, d, n) => \E k \in Nat : n < k /\ Return(r, d, k) /\ Since(devices, k)
      BY <2>5
    <3> HIDE DEF Since
    <3> QED BY <2>2, <2>3, <3>1, <3>2, <3>3 DEF Judging
  <2>9. ASSUME NEW todo \in Checks(sweeps[s].rows), Looped(s, todo) PROVE Backed(r, d, n)'
    <3>1. /\ <<r, d>> \in fired' \/ CameBack(r, d, n)
          /\ sweeps[s].step # "querying"
      BY <2>3, <2>9 DEF Looped
    <3>2. due <= now
      BY <1>2 DEF Backed, Due
    <3>3. CASE Ended(s)
      BY <2>1, <3>1, <3>3
    <3>4. CASE Became(s, "checking", sweeps[s].rows, now, todo)
      BY <2>2, <2>4, <2>5, <3>1, <3>2, <3>4
    <3> QED BY <2>9, <3>3, <3>4 DEF Looped
  <2>10. CASE Cleared(s)
    <3>1. CASE Check(s) = <<r, d>>
      <4>0. sweeps[s].step \in Judging
        BY <2>10 DEF Cleared, Judging
      <4>1. PICK m \in DOMAIN readings, t \in Int, at \in Nat, nowMs \in Nat :
              /\ t = readings[m].time /\ at = readings[m].at /\ nowMs = sweeps[s].nowMs
              /\ d \in DOMAIN sweeps[s].rows /\ m = sweeps[s].rows[d] /\ m \in Nat
              /\ readings[m].device = d /\ m <= devices[d] /\ at <= nowMs
              /\ ~(t + Silence[r] <= nowMs)
        <5>1. PICK q \in RuleIndices, e \in DOMAIN devices :
                /\ Check(s) = <<q, e>>
                /\ e \in DOMAIN sweeps[s].rows /\ Seen(s) = sweeps[s].rows[e]
                /\ Seen(s) \in Nat /\ Seen(s) \in DOMAIN readings
                /\ readings[Seen(s)].device = e /\ Seen(s) <= devices[e]
                /\ readings[Seen(s)].at <= sweeps[s].nowMs /\ sweeps[s].nowMs \in Nat
                /\ Silent(s) = (readings[Seen(s)].time + Silence[q] <= sweeps[s].nowMs)
          BY <2>0, <4>0, Judged
        <5>2. q = r /\ e = d
          BY <3>1, <5>1
        <5>3. readings[Seen(s)].time \in Int /\ readings[Seen(s)].at \in Nat
          BY <5>1, ReadingOk
        <5>4. ~Silent(s)
          BY <2>10 DEF Cleared
        <5> QED BY <5>1, <5>2, <5>3, <5>4
      <4>2. InTime(r, m)
        <5>1. at - t < Silence[r]
          BY <1>1, <4>1
        <5> QED BY <4>1, <5>1 DEF InTime, Lag
      <4>3. n < m
        <5>1. n <= m
          BY <2>4, <4>0, <4>1 DEF Judging
        <5>2. n # m
          BY <1>2, <2>6, <4>0, <4>1
        <5> QED BY <1>1, <4>1, <5>1, <5>2
      <4>4. Return(r, d, m) /\ BackBy(d, m)
        <5>1. m <= m
          BY <4>1
        <5> QED BY <2>0, <4>1, <4>2, <5>1 DEF Return, BackBy
      <4>5. CameBack(r, d, n)
        BY <4>1, <4>3, <4>4 DEF CameBack
      <4> QED BY <2>7, <2>10, <4>0, <4>5 DEF Cleared
    <3>2. CASE Check(s) # <<r, d>>
      BY <2>3, <2>7, <2>10, <3>2 DEF Cleared, Judging
    <3> QED BY <3>1, <3>2
  <2>11. CASE Skipped(s)
    BY <2>3, <2>7, <2>11 DEF Skipped, Judging
  <2>12. CASE Alerting(s)
    <3>1. /\ Became(s, "storing", sweeps[s].rows, sweeps[s].nowMs, sweeps[s].todo)
          /\ sweeps[s].step = "checking" /\ fired' = fired
      BY <2>12 DEF Alerting
    <3> HIDE DEF Since
    <3> QED BY <2>2, <2>3, <2>4, <2>5, <2>6, <3>1 DEF Judging
  <2>13. CASE Stored(s)
    BY <2>3, <2>7, <2>13 DEF Stored, Judging
  <2>14. ~Failed(s)
    BY <1>0, <2>0 DEF Failed, Calm
  <2> QED
    BY <1>8, <2>0, <2>8, <2>9, <2>10, <2>11, <2>12, <2>13, <2>14, StepMoves
<1> QED
  BY <1>0, <1>6, <1>7, <1>8
     DEF Next, Rest, Tick, Report, ConnectionChanges, Crash, Restart, vars

LEMMA RepeatsStep ==
    ASSUME TimesInv, SweepsInv, KeysInv, OneSweepInv, RepeatsInv, [Next]_vars
    PROVE  RepeatsInv'
<1> DEFINE Apart(i, j) ==
      i < j /\ alerts[i].rule = alerts[j].rule /\ alerts[i].device = alerts[j].device
      => Between(alerts[i].rule, alerts[i].device, alerts[i].reading, alerts[j].reading)
<1> SUFFICES ASSUME Calm'
             PROVE  /\ \A i, j \in DOMAIN alerts' : Apart(i, j)'
                    /\ \A i \in DOMAIN alerts' :
                          Backed(alerts[i].rule, alerts[i].device, alerts[i].reading)'
  BY DEF RepeatsInv
<1>0. Calm /\ (\A s \in DOMAIN sweeps : ~Fail(s)) /\ ~overran
  BY FaultsStay DEF Calm
<1>1. \A i, j \in DOMAIN alerts : Apart(i, j)
  BY <1>0 DEF RepeatsInv
<1>2. alerts \in Seq(Event)
  BY DEF KeysInv
<1>3. \A i \in DOMAIN alerts :
         /\ alerts[i] \in Event /\ alerts[i].device \in DOMAIN devices
         /\ alerts[i].reading \in DOMAIN readings
         /\ alerts[i].reading \in Nat
         /\ alerts[i].reading <= devices[alerts[i].device]
         /\ devices[alerts[i].device] \in DOMAIN readings
  <2>1. \A i \in DOMAIN alerts : alerts[i] \in Event
    BY <1>2, Members
  <2> QED BY <2>1 DEF KeysInv, TimesInv, Event
<1>4. ASSUME NEW i \in DOMAIN alerts, alerts'[i] = alerts[i]
      PROVE  Backed(alerts[i].rule, alerts[i].device, alerts[i].reading)'
  <2>1. PICK r \in RuleIndices, d \in DOMAIN devices, n \in DOMAIN readings :
           r = alerts[i].rule /\ d = alerts[i].device /\ n = alerts[i].reading
    BY <1>3 DEF Event
  <2>2. Backed(r, d, n)
    BY <1>0, <2>1 DEF RepeatsInv
  <2>3. Backed(r, d, n)'
    BY <2>2, BackedStays
  <2>4. r = alerts'[i].rule /\ d = alerts'[i].device /\ n = alerts'[i].reading
    BY <1>4, <2>1
  <2> QED BY <2>3, <2>4
<1>5. ASSUME NEW i \in DOMAIN alerts, NEW j \in DOMAIN alerts,
             alerts'[i] = alerts[i], alerts'[j] = alerts[j]
      PROVE  Apart(i, j)'
  <2> SUFFICES ASSUME i < j, alerts[i].rule = alerts[j].rule,
                      alerts[i].device = alerts[j].device
               PROVE  Between(alerts[i].rule, alerts[i].device,
                              alerts[i].reading, alerts[j].reading)'
    BY <1>5
  <2>1. PICK r, d, m, n : /\ r = alerts[i].rule /\ d = alerts[i].device
                          /\ m = alerts[i].reading /\ n = alerts[j].reading
    OBVIOUS
  <2>2. PICK k \in m + 1 .. n : readings[k].device = d /\ InTime(r, k)
    BY <1>1, <2>1 DEF Between
  <2>3. k \in DOMAIN readings
    <3>1. n \in DOMAIN readings /\ m \in Nat
      BY <1>3, <2>1
    <3>2. PICK l \in Nat : DOMAIN readings = 1 .. l
      BY DEF TimesInv
    <3> QED BY <2>2, <3>1, <3>2
  <2>4. readings'[k] = readings[k]
    BY <2>3, WorldStep
  <2>5. Between(r, d, m, n)'
    BY <2>2, <2>4 DEF Between, InTime, Lag
  <2> QED BY <1>5, <2>1, <2>5
<1>6. CASE alerts' = alerts
  BY <1>4, <1>5, <1>6
<1>7. ASSUME NEW s \in DOMAIN sweeps, Alerting(s), connected
      PROVE  /\ \A i, j \in DOMAIN alerts' : Apart(i, j)'
             /\ \A i \in DOMAIN alerts' :
                   Backed(alerts[i].rule, alerts[i].device, alerts[i].reading)'
  <2>0. /\ SweepOk(s) /\ DOMAIN sweeps = {s} /\ sweeps[s].step = "checking"
    BY <1>0, <1>7, OneAtATime DEF SweepsInv, Alerting
  <2>1. PICK r \in RuleIndices, d \in DOMAIN devices :
          /\ Check(s) = <<r, d>> /\ d \in Devices
          /\ d \in DOMAIN sweeps[s].rows
          /\ Seen(s) = sweeps[s].rows[d] /\ Seen(s) \in Nat /\ Seen(s) \in DOMAIN readings
          /\ Seen(s) <= devices[d]
          /\ sweeps[s].nowMs \in Nat /\ sweeps[s].nowMs <= now
          /\ Silence[r] \in Nat \ {0}
          /\ Silent(s) = (readings[Seen(s)].time + Silence[r] <= sweeps[s].nowMs)
    BY <2>0, Judged DEF Judging
  <2>2. PICK n \in DOMAIN readings : n = Seen(s) /\ n \in Nat /\ n = sweeps[s].rows[d]
    BY <2>1
  <2>3. PICK a \in Event : a = [rule |-> r, device |-> d, reading |-> n]
    BY <2>1, <2>2 DEF Event
  <2>4. PICK l \in Nat : l = Len(alerts)
    BY <1>2
  <2>5. /\ DOMAIN alerts' = 1 .. l + 1 /\ DOMAIN alerts = 1 .. l
        /\ \A i \in DOMAIN alerts : alerts'[i] = alerts[i]
        /\ alerts'[l + 1] = a
    <3>1. alerts' = Append(alerts, a)
      BY <1>7, <2>1, <2>2, <2>3 DEF Alerting
    <3> QED BY <1>2, <2>4, <3>1, Appended
  <2>6. \A i \in DOMAIN alerts' : i \in Nat /\ (i \in DOMAIN alerts \/ i = l + 1)
    BY <2>5
  <2>7. ASSUME NEW i \in DOMAIN alerts, alerts[i].rule = r, alerts[i].device = d
        PROVE  Between(r, d, alerts[i].reading, n)'
    <3>1. PICK m \in DOMAIN readings : m = alerts[i].reading /\ m \in Nat
      BY <1>3
    <3>2. Backed(r, d, m)
      BY <1>0, <2>7, <3>1 DEF RepeatsInv
    <3>3. ~Keyed(r, d)
      BY <1>7, <2>0, <2>1 DEF Keyed, Alerting
    <3>4. PICK k \in Nat : m < k /\ Return(r, d, k) /\ BackBy(d, k)
      BY <3>2, <3>3 DEF Backed, CameBack
    <3>5. k <= n
      BY <2>0, <2>2, <3>4 DEF BackBy
    <3>6. k \in m + 1 .. n
      BY <2>2, <3>1, <3>4, <3>5
    <3>7. readings'[k].device = d /\ InTime(r, k)'
      BY <3>4, WorldStep DEF Return, InTime, Lag
    <3>8. Between(r, d, m, n)'
      BY <3>6, <3>7 DEF Between
    <3> QED BY <2>5, <3>1, <3>8
  <2>8. Backed(r, d, n)'
    <3>1. /\ DOMAIN sweeps' = {s} /\ sweeps'[s].step = "storing"
          /\ sweeps'[s].todo = sweeps[s].todo /\ sweeps'[s].nowMs = sweeps[s].nowMs
          /\ sweeps'[s].rows = sweeps[s].rows
      BY <1>7, <2>0 DEF Alerting, Became
    <3>2. readings'[n] = readings[n] /\ readings[n].time \in Int
      BY WorldStep, ReadingOk
    <3>3. readings[n].time + Silence[r] <= sweeps[s].nowMs
      BY <1>7, <2>1, <2>2 DEF Alerting
    <3>4. now <= now' /\ now' \in Nat /\ now \in Nat
      BY WorldStep
    <3>5. readings[n].time + Silence[r] <= now'
      BY <2>1, <3>2, <3>3, <3>4
    <3>6. Due(r, n)'
      BY <3>1, <3>2, <3>3, <3>5 DEF Due
    <3>7. n <= devices'[d] /\ n <= n
      <4>1. devices[d] \in Nat /\ devices'[d] \in Nat /\ devices[d] <= devices'[d]
        BY WorldStep
      <4> QED BY <2>1, <2>2, <4>1
    <3>8. BackBy(d, n)'
      BY <2>1, <2>2, <3>1, <3>7 DEF BackBy
    <3>9. Keyed(r, d)'
      BY <2>1, <3>1 DEF Keyed, Check
    <3> QED BY <3>6, <3>8, <3>9 DEF Backed
  <2>9. r = alerts'[l + 1].rule /\ d = alerts'[l + 1].device /\ n = alerts'[l + 1].reading
    BY <2>3, <2>5
  <2>10. Backed(alerts[l + 1].rule, alerts[l + 1].device, alerts[l + 1].reading)'
    BY <2>8, <2>9
  <2>11. ASSUME NEW i \in DOMAIN alerts', NEW j \in DOMAIN alerts' PROVE Apart(i, j)'
    <3>1. CASE i \in DOMAIN alerts /\ j \in DOMAIN alerts
      BY <1>5, <2>5, <3>1
    <3>2. CASE i \in DOMAIN alerts /\ j = l + 1
      <4> SUFFICES ASSUME alerts'[i].rule = alerts'[j].rule,
                          alerts'[i].device = alerts'[j].device
                   PROVE  Between(alerts[i].rule, alerts[i].device,
                                  alerts[i].reading, alerts[j].reading)'
        OBVIOUS
      <4>1. alerts[i].rule = r /\ alerts[i].device = d
        BY <2>5, <2>9, <3>2
      <4>2. Between(r, d, alerts[i].reading, n)'
        BY <2>7, <3>2, <4>1
      <4>3. /\ r = alerts'[i].rule /\ d = alerts'[i].device /\ n = alerts'[j].reading
        BY <2>5, <2>9, <3>2, <4>1
      <4> QED BY <4>2, <4>3
    <3>3. CASE i = l + 1
      <4>1. ~(i < j)
        BY <2>5, <3>3
      <4> QED BY <4>1
    <3> QED BY <2>6, <3>1, <3>2, <3>3
  <2>12. ASSUME NEW i \in DOMAIN alerts'
         PROVE  Backed(alerts[i].rule, alerts[i].device, alerts[i].reading)'
    BY <1>4, <2>5, <2>6, <2>10
  <2> QED BY <2>11, <2>12
<1>8. ASSUME NEW s \in DOMAIN sweeps, Step(s)
      PROVE  alerts' = alerts \/ (Alerting(s) /\ connected)
  BY <1>8, StepMoves
     DEF SweepsInv, Found, Looped, Cleared, Skipped, Alerting, Stored, Failed
<1> QED
  BY <1>6, <1>7, <1>8
     DEF Next, Rest, Tick, Report, ConnectionChanges, Crash, Restart, StartSweep, vars

-----------------------------------------------------------------------------
(* Silences are reported.                                                  *)

\* A check stays to be done until its turn.
LEMMA StaysPending ==
    ASSUME NEW s, DOMAIN sweeps = {s}, SweepOk(s), sweeps[s].step \in Judging, Advanced(s),
           NEW r, NEW d, Pending(r, d), Check(s) # <<r, d>>
    PROVE  Pending(r, d)'
<1>1. PICK k \in DOMAIN sweeps[s].todo : sweeps[s].todo[k] = <<r, d>>
  BY DEF Pending
<1>2. PICK j \in DOMAIN Tail(sweeps[s].todo) : Tail(sweeps[s].todo)[j] = <<r, d>>
  BY <1>1, CheckOf
<1>3. Tail(sweeps[s].todo) # << >>
  BY <1>2
<1>4. DOMAIN sweeps' = {s} /\ sweeps'[s].todo = Tail(sweeps[s].todo)
  <2>1. Became(s, "checking", sweeps[s].rows, sweeps[s].nowMs, Tail(sweeps[s].todo))
    BY <1>3 DEF Advanced
  <2> QED BY <2>1 DEF Became
<1> QED BY <1>2, <1>4 DEF Pending

LEMMA AlertedStays ==
    ASSUME KeysInv, NEW a, alerts' = alerts \/ alerts' = Append(alerts, a),
           NEW r, NEW d, NEW n, Alerted(r, d, n)
    PROVE  Alerted(r, d, n)'
<1>1. PICK i \in DOMAIN alerts : alerts[i] = [rule |-> r, device |-> d, reading |-> n]
  BY DEF Alerted
<1>2. i \in DOMAIN alerts' /\ alerts'[i] = alerts[i]
  <2>1. CASE alerts' = alerts
    BY <2>1
  <2>2. CASE alerts' = Append(alerts, a)
    <3>1. PICK p \in Seq(Event) : p = alerts
      BY DEF KeysInv
    <3> QED BY <2>2, <3>1
  <2> QED BY <2>1, <2>2
<1> QED BY <1>1, <1>2 DEF Alerted

\* What a step of a sweep leaves of the report that is due.
LEMMA ReportedStep ==
    ASSUME TimesInv, SweepsInv, KeysInv, OneSweepInv, ReportsInv, [Next]_vars, Quiet, connected,
           NEW s \in DOMAIN sweeps, Step(s), ~Fail(s), ~overran,
           NEW r \in RuleIndices, NEW d \in DOMAIN devices, Punctual(r, d)
    PROVE  Reported(r, d)'
<1>0. /\ SweepOk(s) /\ DOMAIN sweeps = {s} /\ s \in Nat /\ s + Interval = nextSweep
      /\ now < nextSweep /\ Reported(r, d)
  BY OneAtATime DEF SweepsInv, ReportsInv
<1>1. PICK n \in DOMAIN readings, t \in Int, at \in Nat :
         n = devices[d] /\ t = readings[n].time /\ at = readings[n].at
  BY ReadingOk DEF TimesInv
<1>2. /\ Silence[r] \in Nat \ {0} /\ Interval \in Nat \ {0} /\ now \in Nat
      /\ nextSweep \in Nat
  BY Types DEF TimesInv
<1>3. UNCHANGED <<now, readings, devices, nextSweep>> /\ failures' = failures
  BY StepKeeps
<1>4. ~Failed(s)
  BY <1>3 DEF Failed, Quiet, Calm
<1>5. alerts' = alerts \/ \E a : alerts' = Append(alerts, a)
  BY <1>0, <1>4, StepMoves DEF Found, Looped, Cleared, Skipped, Alerting, Stored
<1>6. Alerted(r, d, n) => Alerted(r, d, n)'
  BY <1>5, AlertedStays
<1>7. /\ <<r, d>> \in fired =>
            \/ Alerted(r, d, n) \/ nextSweep <= at + Interval
            \/ nextSweep <= at + 2 * Interval /\ Pending(r, d)
      /\ t + Silence[r] + Interval <= nextSweep => Alerted(r, d, n) \/ Pending(r, d)
  BY <1>0, <1>1 DEF Reported, ReportedOf
<1>8. SUFFICES
        /\ <<r, d>> \in fired' =>
              \/ Alerted(r, d, n)' \/ nextSweep <= at + Interval
              \/ nextSweep <= at + 2 * Interval /\ Pending(r, d)'
        /\ t + Silence[r] + Interval <= nextSweep => Alerted(r, d, n)' \/ Pending(r, d)'
  BY <1>1, <1>3 DEF Reported, ReportedOf
<1>8a. at + 2 * Interval <= t + Silence[r]
  <2>1. (at - t) + 2 * Interval <= Silence[r]
    BY <1>1 DEF Punctual, Lag
  <2> QED BY <1>1, <1>2, <2>1
<1>9. s <= at => /\ nextSweep <= at + Interval
                 /\ ~(t + Silence[r] + Interval <= nextSweep)
  BY <1>0, <1>1, <1>2, <1>8a
<1>10. CASE Found(s)
  <2>1. Pending(r, d)
    BY <1>0, <1>10 DEF Pending, Found, Judging
  <2>2. Pending(r, d)'
    BY <1>0, <1>10 DEF Pending, Found, Judging, Became
  <2> QED BY <1>6, <1>7, <1>10, <2>2 DEF Found
<1>11. ASSUME NEW todo \in Checks(sweeps[s].rows), Looped(s, todo)
       PROVE  /\ <<r, d>> \in fired' =>
                    \/ Alerted(r, d, n)' \/ nextSweep <= at + Interval
                    \/ nextSweep <= at + 2 * Interval /\ Pending(r, d)'
              /\ t + Silence[r] + Interval <= nextSweep =>
                    Alerted(r, d, n)' \/ Pending(r, d)'
  <2>1. RowsOk(s)
    BY <1>0, <1>11 DEF Looped, SweepOk
  <2>2. CASE d \in DOMAIN sweeps[s].rows
    <3>1. IsFiniteSet(DOMAIN sweeps[s].rows)
      BY <2>1, FS_Subset DEF RowsOk, TimesInv
    <3>2. PICK k \in DOMAIN todo : todo[k] = <<r, d>>
      <4>1. \A q \in RuleIndices, e \in DOMAIN sweeps[s].rows :
               \E k \in DOMAIN todo : todo[k] = <<q, e>>
        BY <3>1, AllAreChecked
      <4> QED BY <2>2, <4>1
    <3>3. Became(s, "checking", sweeps[s].rows, now, todo)
      BY <1>11, <3>2 DEF Looped
    <3>4. DOMAIN sweeps' = {s} /\ sweeps'[s].todo = todo
      BY <1>0, <3>3 DEF Became
    <3>5. Pending(r, d)'
      BY <3>2, <3>4 DEF Pending
    <3> QED BY <1>6, <1>7, <1>11, <3>5 DEF Looped
  <2>3. CASE d \notin DOMAIN sweeps[s].rows
    <3>1. s <= at
      BY <1>1, <2>1, <2>3 DEF RowsOk
    <3> QED BY <1>9, <3>1
  <2> QED BY <2>2, <2>3
<1>12. ASSUME Advanced(s), sweeps[s].step \in Judging, Check(s) # <<r, d>>,
              fired' \subseteq fired \union {Check(s)}
       PROVE  /\ <<r, d>> \in fired' =>
                    \/ Alerted(r, d, n)' \/ nextSweep <= at + Interval
                    \/ nextSweep <= at + 2 * Interval /\ Pending(r, d)'
              /\ t + Silence[r] + Interval <= nextSweep =>
                    Alerted(r, d, n)' \/ Pending(r, d)'
  <2>1. Pending(r, d) => Pending(r, d)'
    BY <1>0, <1>12, StaysPending
  <2>2. <<r, d>> \in fired' => <<r, d>> \in fired
    BY <1>12
  <2> QED BY <1>6, <1>7, <2>1, <2>2
<1>13. ASSUME sweeps[s].step \in Judging, Check(s) = <<r, d>>
       PROVE  /\ sweeps[s].nowMs \in Nat /\ s <= sweeps[s].nowMs /\ sweeps[s].nowMs <= now
              /\ \/ Seen(s) = n /\ Silent(s) = (t + Silence[r] <= sweeps[s].nowMs)
                 \/ s <= at
  <2>1. PICK q \in RuleIndices, e \in DOMAIN devices :
          /\ Check(s) = <<q, e>>
          /\ Seen(s) = devices[e] \/ s <= readings[devices[e]].at
          /\ sweeps[s].nowMs \in Nat /\ s <= sweeps[s].nowMs /\ sweeps[s].nowMs <= now
          /\ Silent(s) = (readings[Seen(s)].time + Silence[q] <= sweeps[s].nowMs)
    BY <1>0, <1>13, Judged
  <2>2. q = r /\ e = d
    BY <1>13, <2>1
  <2> QED BY <1>1, <2>1, <2>2
<1>14. CASE Cleared(s) /\ Check(s) = <<r, d>>
  <2>0. sweeps[s].step \in Judging
    BY <1>14 DEF Cleared, Judging
  <2>1. <<r, d>> \notin fired'
    BY <1>14 DEF Cleared
  <2>2. ~Silent(s)
    BY <1>14 DEF Cleared
  <2>3. /\ sweeps[s].nowMs \in Nat /\ s <= sweeps[s].nowMs
        /\ ~(t + Silence[r] <= sweeps[s].nowMs) \/ s <= at
    BY <1>13, <1>14, <2>0, <2>2
  <2>4. CASE ~(t + Silence[r] <= sweeps[s].nowMs)
    <3>1. ~(t + Silence[r] + Interval <= nextSweep)
      BY <1>0, <1>1, <1>2, <2>3, <2>4
    <3> QED BY <2>1, <3>1
  <2>5. CASE s <= at
    BY <1>9, <2>1, <2>5
  <2> QED BY <2>3, <2>4, <2>5
<1>15. CASE Skipped(s) /\ Check(s) = <<r, d>>
  <2>0. sweeps[s].step \in Judging /\ <<r, d>> \in fired /\ fired' = fired /\ Silent(s)
    BY <1>15 DEF Skipped, Judging
  <2>1. /\ sweeps[s].nowMs \in Nat /\ sweeps[s].nowMs <= now
        /\ t + Silence[r] <= sweeps[s].nowMs \/ s <= at
    BY <1>13, <1>15, <2>0
  <2>2. nextSweep <= at + 2 * Interval => nextSweep <= at + Interval
    <3>1. CASE t + Silence[r] <= sweeps[s].nowMs
      BY <1>0, <1>1, <1>2, <1>8a, <2>1, <3>1
    <3>2. CASE s <= at
      BY <1>9, <3>2
    <3> QED BY <2>1, <3>1, <3>2
  <2>3. ~(nextSweep <= at + Interval /\ t + Silence[r] + Interval <= nextSweep)
    BY <1>1, <1>2, <1>8a
  <2> QED BY <1>6, <1>7, <2>0, <2>2, <2>3
<1>16. CASE Alerting(s)
  <2>1. Pending(r, d) => Pending(r, d)'
    <3>1. /\ DOMAIN sweeps' = {s} /\ sweeps'[s].todo = sweeps[s].todo
          /\ sweeps[s].step \in Judging
      BY <1>0, <1>16 DEF Alerting, Became, Judging
    <3> QED BY <1>0, <3>1 DEF Pending
  <2>2. fired' = fired
    BY <1>16 DEF Alerting
  <2> QED BY <1>6, <1>7, <2>1, <2>2
<1>17. CASE Stored(s) /\ Check(s) = <<r, d>>
  <2>0. sweeps[s].step = "storing"
    BY <1>17 DEF Stored
  <2>1. Alerted(Check(s)[1], Check(s)[2], Seen(s))
    BY <2>0 DEF ReportsInv
  <2>2. CASE Seen(s) = n
    <3>1. Alerted(r, d, n)
      BY <1>17, <2>1, <2>2
    <3> QED BY <1>6, <3>1
  <2>3. CASE s <= at
    BY <1>9, <2>3
  <2> QED BY <1>13, <1>17, <2>0, <2>2, <2>3 DEF Judging
<1> QED
  <2>1. CASE Cleared(s) \/ Skipped(s) \/ Stored(s)
    <3>1. Advanced(s) /\ sweeps[s].step \in Judging /\ fired' \subseteq fired \union {Check(s)}
      BY <2>1 DEF Cleared, Skipped, Stored, Judging
    <3> QED BY <1>12, <1>14, <1>15, <1>17, <2>1, <3>1
  <2> QED BY <1>0, <1>4, <1>10, <1>11, <1>16, <2>1, StepMoves

LEMMA ReportsStep ==
    ASSUME TimesInv, SweepsInv, KeysInv, OneSweepInv, ReportsInv, [Next]_vars
    PROVE  ReportsInv'
<1> SUFFICES ASSUME Quiet'
             PROVE  /\ \A s \in DOMAIN sweeps' :
                          (sweeps[s].step = "storing" =>
                              Alerted(Check(s)[1], Check(s)[2], Seen(s)))'
                    /\ \A r \in RuleIndices : \A d \in DOMAIN devices' :
                          (Punctual(r, d) => Reported(r, d))'
  BY DEF ReportsInv
<1>0. /\ Quiet /\ ~Crash /\ ~Restart /\ (\A s \in DOMAIN sweeps : ~Fail(s))
      /\ ~ConnectionChanges /\ up /\ connected /\ ~overran
  <2>1. Calm /\ ~Crash /\ ~Restart /\ (\A s \in DOMAIN sweeps : ~Fail(s)) /\ up
        /\ outages = 0
    BY FaultsStay DEF Quiet
  <2>2. ~ConnectionChanges
    BY <2>1 DEF ConnectionChanges, Quiet
  <2> QED BY <2>1, <2>2 DEF Quiet, Calm, TimesInv
<1>1. Interval \in Nat \ {0} /\ now \in Nat /\ nextSweep \in Nat /\ nextSweep <= now + Interval
  BY Types DEF TimesInv
<1>2. ASSUME NEW s \in DOMAIN sweeps', s \in DOMAIN sweeps, sweeps'[s] = sweeps[s],
             NEW a, alerts' = alerts \/ alerts' = Append(alerts, a), sweeps'[s].step = "storing"
      PROVE  Alerted(Check(s)[1], Check(s)[2], Seen(s))'
  <2>1. PICK r, d, n : r = Check(s)[1] /\ d = Check(s)[2] /\ n = Seen(s)
    OBVIOUS
  <2>2. Alerted(r, d, n)
    BY <1>0, <1>2, <2>1 DEF ReportsInv
  <2>3. Alerted(r, d, n)'
    BY <1>2, <2>2, AlertedStays
  <2>4. r = Check(s)[1]' /\ d = Check(s)[2]' /\ n = Seen(s)'
    BY <1>2, <2>1 DEF Check, Seen
  <2> QED BY <2>3, <2>4
<1>3. CASE UNCHANGED <<sweeps, fired, alerts, nextSweep, readings, devices>>
  <2>1. ASSUME NEW r \in RuleIndices, NEW d \in DOMAIN devices, Punctual(r, d)'
        PROVE  Reported(r, d)'
    <3>1. Punctual(r, d)
      BY <1>3, <2>1 DEF Punctual, Lag
    <3>2. Reported(r, d)
      BY <1>0, <3>1 DEF ReportsInv
    <3> QED BY <1>3, <3>2 DEF Reported, ReportedOf, Alerted, Pending
  <2> QED BY <1>2, <1>3, <2>1
<1>4. ASSUME NEW e \in Devices, NEW time \in Stamps, Report(e, time)
      PROVE  /\ \A s \in DOMAIN sweeps' :
                   (sweeps[s].step = "storing" =>
                       Alerted(Check(s)[1], Check(s)[2], Seen(s)))'
             /\ \A r \in RuleIndices : \A d \in DOMAIN devices' :
                   (Punctual(r, d) => Reported(r, d))'
  <2>0. UNCHANGED <<sweeps, fired, alerts, nextSweep>>
    BY <1>4 DEF Report
  <2>1. PICK m \in Nat :
           /\ \A k \in DOMAIN readings : readings'[k] = readings[k]
           /\ readings'[m] = [device |-> e, time |-> time, at |-> now]
           /\ DOMAIN devices' = DOMAIN devices \union {e} /\ devices'[e] = m
           /\ \A d \in DOMAIN devices \ {e} : devices'[d] = devices[d]
    BY <1>4, Registers
  <2>2. ASSUME NEW r \in RuleIndices, NEW d \in DOMAIN devices', Punctual(r, d)'
        PROVE  Reported(r, d)'
    <3>1. CASE d = e
      <4>1. time \in Int /\ Silence[r] \in Nat
        BY Types, SweepAssumption
      <4>2. readings'[m].at = now /\ readings'[m].time = time
        BY <2>1
      <4>3. (now - time) + 2 * Interval <= Silence[r]
        BY <2>1, <2>2, <3>1, <4>2 DEF Punctual, Lag
      <4>4. nextSweep <= now + Interval /\ ~(time + Silence[r] + Interval <= nextSweep)
        BY <1>1, <4>1, <4>3
      <4>5. ReportedOf(r, d, m)'
        BY <2>0, <4>2, <4>4 DEF ReportedOf
      <4> QED BY <2>1, <3>1, <4>5 DEF Reported
    <3>2. CASE d # e
      <4>1. PICK n \in DOMAIN readings : /\ d \in DOMAIN devices /\ n = devices[d]
                                         /\ n = devices'[d] /\ readings'[n] = readings[n]
        BY <2>1, <3>2 DEF TimesInv
      <4>2. Punctual(r, d)
        BY <2>2, <4>1 DEF Punctual, Lag
      <4>3. ReportedOf(r, d, n)
        BY <1>0, <4>1, <4>2 DEF ReportsInv, Reported
      <4>4. ReportedOf(r, d, n)'
        BY <2>0, <4>1, <4>3 DEF ReportedOf, Alerted, Pending
      <4> QED BY <4>1, <4>4 DEF Reported
    <3> QED BY <3>1, <3>2
  <2>3. ASSUME NEW s \in DOMAIN sweeps', sweeps'[s].step = "storing"
        PROVE  Alerted(Check(s)[1], Check(s)[2], Seen(s))'
    BY <1>2, <2>0, <2>3
  <2> QED BY <2>2, <2>3
<1>5. CASE StartSweep
  <2>0. /\ now = nextSweep /\ nextSweep' = now + Interval
        /\ UNCHANGED <<readings, devices, fired, alerts>>
    BY <1>5 DEF StartSweep, world
  <2>1. DOMAIN sweeps = {}
    <3>1. ~(now < nextSweep)
      BY <1>1, <2>0
    <3> QED BY <1>0, <3>1 DEF OneSweepInv
  <2>2. PICK v : v = now
    OBVIOUS
  <2>3. DOMAIN sweeps' = {v} /\ sweeps'[v].step = "querying"
    BY <1>5, <2>1, <2>2, StartAdds
  <2>4. ASSUME NEW r \in RuleIndices, NEW d \in DOMAIN devices, Punctual(r, d)'
        PROVE  Reported(r, d)'
    <3>1. Punctual(r, d)
      BY <2>0, <2>4 DEF Punctual, Lag
    <3>2. PICK n \in DOMAIN readings : n = devices[d] /\ n = devices'[d]
      BY <2>0 DEF TimesInv
    <3>3. ReportedOf(r, d, n)
      BY <1>0, <3>1, <3>2 DEF ReportsInv, Reported
    <3>4. ~Pending(r, d) /\ Pending(r, d)'
      BY <2>1, <2>3 DEF Pending, Judging
    <3>5. PICK at \in Nat : at = readings[n].at /\ at = readings'[n].at
      BY <2>0, ReadingOk
    <3>6. nextSweep <= at + Interval => nextSweep' <= at + 2 * Interval
      BY <1>1, <2>0, <3>5
    <3>7. Alerted(r, d, n) => Alerted(r, d, n)'
      BY <2>0 DEF Alerted
    <3>8. ReportedOf(r, d, n)'
      BY <2>0, <3>3, <3>4, <3>5, <3>6, <3>7 DEF ReportedOf
    <3> QED BY <3>2, <3>8 DEF Reported
  <2> QED BY <2>0, <2>3, <2>4
<1>6. ASSUME NEW s \in DOMAIN sweeps, Step(s)
      PROVE  /\ \A u \in DOMAIN sweeps' :
                   (sweeps[u].step = "storing" =>
                       Alerted(Check(u)[1], Check(u)[2], Seen(u)))'
             /\ \A r \in RuleIndices : \A d \in DOMAIN devices' :
                   (Punctual(r, d) => Reported(r, d))'
  <2>0. SweepOk(s) /\ DOMAIN sweeps = {s} /\ UNCHANGED <<readings, devices>>
        /\ failures' = failures
    BY <1>0, <1>6, OneAtATime, StepKeeps DEF SweepsInv
  <2>1. ASSUME NEW r \in RuleIndices, NEW d \in DOMAIN devices, Punctual(r, d)'
        PROVE  Reported(r, d)'
    <3>1. Punctual(r, d)
      BY <2>0, <2>1 DEF Punctual, Lag
    <3> QED BY <1>0, <1>6, <3>1, ReportedStep
  <2>2. CASE Alerting(s)
    <3>1. PICK r, d, n : r = Check(s)[1] /\ d = Check(s)[2] /\ n = Seen(s)
      OBVIOUS
    <3>2. alerts' = Append(alerts, [rule |-> r, device |-> d, reading |-> n])
      BY <1>0, <2>2, <3>1 DEF Alerting
    <3>3. Alerted(r, d, n)'
      <4>0. PICK r1 \in RuleIndices, d1 \in DOMAIN devices :
               Check(s) = <<r1, d1>> /\ d1 \in Devices /\ Seen(s) \in Nat
        BY <2>0, <2>2, Judged DEF Alerting, Judging
      <4>1. r \in RuleIndices /\ d \in Devices /\ n \in Nat
        BY <3>1, <4>0
      <4>2. PICK a \in Event : a = [rule |-> r, device |-> d, reading |-> n]
        BY <4>1 DEF Event
      <4>3. alerts \in Seq(Event)
        BY DEF KeysInv
      <4>4. /\ Len(alerts) \in Nat /\ DOMAIN alerts' = 1 .. Len(alerts) + 1
            /\ alerts'[Len(alerts) + 1] = a
        BY <3>2, <4>2, <4>3, Appended
      <4>5. Len(alerts) + 1 \in DOMAIN alerts'
        BY <4>4
      <4> QED BY <4>2, <4>4, <4>5 DEF Alerted
    <3>4. /\ DOMAIN sweeps' = {s} /\ sweeps'[s].todo = sweeps[s].todo
          /\ sweeps'[s].rows = sweeps[s].rows
      BY <2>0, <2>2 DEF Alerting, Became
    <3>5. r = Check(s)[1]' /\ d = Check(s)[2]' /\ n = Seen(s)'
      BY <3>1, <3>4 DEF Check, Seen
    <3> QED BY <2>0, <2>1, <3>3, <3>4, <3>5
  <2>3. CASE ~Alerting(s)
    <3>1. \A u \in DOMAIN sweeps' : sweeps'[u].step # "storing"
      <4>1. ~Failed(s)
        BY <1>0, <2>0 DEF Failed, Quiet, Calm
      <4>2. \/ Ended(s)
            \/ \E step \in {"found", "checking"} : \E rows, nowMs, todo :
                  Became(s, step, rows, nowMs, todo)
        BY <1>6, <2>0, <2>3, <4>1, StepMoves
           DEF Found, Looped, Cleared, Skipped, Stored, Advanced
      <4>3. CASE Ended(s)
        BY <2>0, <4>3 DEF Ended
      <4>4. ASSUME NEW step \in {"found", "checking"}, NEW rows, NEW nowMs, NEW todo,
                   Became(s, step, rows, nowMs, todo)
            PROVE  \A u \in DOMAIN sweeps' : sweeps'[u].step # "storing"
        BY <2>0, <4>4 DEF Became
      <4> QED BY <4>2, <4>3, <4>4
    <3> QED BY <2>0, <2>1, <3>1
  <2> QED BY <2>2, <2>3
<1> QED
  BY <1>0, <1>3, <1>4, <1>5, <1>6 DEF Next, Rest, Tick, vars, world

-----------------------------------------------------------------------------
(* The theorems.                                                           *)

LEMMA InvInit == Init => IInv
<1> SUFFICES ASSUME Init PROVE IInv
  OBVIOUS
<1>1. DOMAIN sweeps = {} /\ DOMAIN devices = {} /\ DOMAIN alerts = {}
  BY DEF Init, NoSweeps
<1>2. TimesInv
  <2>1. << >> \in Rows
    <3>1. << >> \in [{} -> Nat] /\ {} \in SUBSET Devices
      OBVIOUS
    <3> QED BY <3>1 DEF Rows
  <2>2. IsFiniteSet({})
    BY FS_EmptySet
  <2>3. << >> \in Seq(Reading) /\ DOMAIN << >> = {}
    OBVIOUS
  <2> QED BY <1>1, <2>1, <2>2, <2>3, Types DEF Init, TimesInv
<1>3. PipelineInv
  <2>1. Busy = {}
    BY <1>1 DEF Busy
  <2>2. Queue(<< >>, {})
    BY DEF Queue
  <2> QED BY <2>1, <2>2 DEF PipelineInv, Init
<1>4. KeysInv
  BY <1>1 DEF KeysInv, Init
<1> QED
  BY <1>1, <1>2, <1>3, <1>4
     DEF Init, IInv, SweepsInv, OneSweepInv, RepeatsInv, ReportsInv, Reported

LEMMA Inductive == Spec => []IInv
<1>1. IInv /\ [Next]_vars => IInv'
  BY TimesStep, SweepsStep, PipelineStep, KeysStep, OneSweepStep, RepeatsStep, ReportsStep
     DEF IInv
<1> QED BY <1>1, InvInit, PTL DEF Spec

\* Types: the timer of sweepConnectivity is never more than an interval away,
\* exactly the sweeps with something to do have a Redis command out, rows are of
\* readings of their devices, and keys and alerts are of devices registered.
THEOREM TypeCorrect == Spec => []TypeOK
<1>1. ASSUME IInv PROVE TypeOK
  <2>1. /\ now \in 0 .. MaxTime
        /\ up => nextSweep \in now .. now + Interval
        /\ \A d \in DOMAIN devices :
              devices[d] \in DOMAIN readings /\ readings[devices[d]].device = d
    BY <1>1, Types DEF IInv, TimesInv
  <2>2. \A s \in DOMAIN sweeps :
          /\ sweeps[s].step \in {"querying", "found", "checking", "storing"}
          /\ (sweeps[s].todo # << >>) = (\E i \in DOMAIN pipeline : pipeline[i] = s)
    <3> SUFFICES ASSUME NEW s \in DOMAIN sweeps
                 PROVE  /\ sweeps[s].step \in {"querying", "found", "checking", "storing"}
                        /\ (sweeps[s].todo # << >>) =
                              (\E i \in DOMAIN pipeline : pipeline[i] = s)
      OBVIOUS
    <3>1. sweeps[s].step \in {"querying", "found", "checking", "storing"}
      BY <1>1 DEF IInv, SweepsInv, SweepOk, Sweep, Judging
    <3>2. Busy = {pipeline[i] : i \in DOMAIN pipeline}
      BY <1>1 DEF IInv, PipelineInv, Queue
    <3>3. (s \in Busy) <=> (sweeps[s].todo # << >>)
      BY DEF Busy
    <3>4. (s \in Busy) <=> \E i \in DOMAIN pipeline : pipeline[i] = s
      BY <3>2
    <3> QED BY <3>1, <3>3, <3>4
  <2>3. ASSUME NEW i \in DOMAIN alerts
        PROVE  /\ alerts[i] \in [rule : RuleIndices, device : DOMAIN devices,
                                 reading : DOMAIN readings]
               /\ readings[alerts[i].reading].device = alerts[i].device
    <3>1. PICK a \in Event : a = alerts[i]
      <4>1. alerts \in Seq(Event)
        BY <1>1 DEF IInv, KeysInv
      <4> QED BY <4>1, Members
    <3>2. /\ a.device \in DOMAIN devices /\ a.reading \in DOMAIN readings
          /\ readings[a.reading].device = a.device
      BY <1>1, <3>1 DEF IInv, KeysInv
    <3>3. a = [rule |-> a.rule, device |-> a.device, reading |-> a.reading]
          /\ a.rule \in RuleIndices
      BY <3>1 DEF Event
    <3> QED BY <3>1, <3>2, <3>3
  <2>4. readings \in Seq([device : Devices, time : Stamps, at : 0 .. now])
    <3>1. readings \in Seq(Reading)
      BY <1>1 DEF IInv, TimesInv
    <3>2. PICK l \in Nat : l = Len(readings) /\ DOMAIN readings = 1 .. l
      BY <3>1
    <3>3. ASSUME NEW n \in 1 .. l
          PROVE  readings[n] \in [device : Devices, time : Stamps, at : 0 .. now]
      <4>1. /\ readings[n] \in Reading /\ readings[n].at \in Nat /\ readings[n].at <= now
            /\ now \in Nat
        BY <1>1, <3>2, <3>3, ReadingOk DEF IInv, TimesInv
      <4>2. readings[n].at \in 0 .. now
        BY <4>1
      <4> QED BY <4>1, <4>2 DEF Reading
    <3>4. readings = [n \in 1 .. l |-> readings[n]]
      BY <3>1, <3>2
    <3>5. PICK S : S = [device : Devices, time : Stamps, at : 0 .. now]
      OBVIOUS
    <3>6. readings \in [1 .. l -> S]
      BY <3>3, <3>4, <3>5
    <3>7. readings \in Seq(S)
      BY <3>2, <3>6
    <3> QED BY <3>5, <3>7
  <2> QED BY <1>1, <2>1, <2>2, <2>3, <2>4 DEF IInv, KeysInv, TypeOK
<1> QED BY <1>1, Inductive, PTL

\* evaluateConnectivity alerts an offline episode once, for any devices, rules,
\* intervals and timing, and whatever times devices put on their readings: only a
\* crash, a rejected command or a sweep that runs into the next can alert a device
\* again that no reading has shown back in time.
THEOREM AlertsOnce == Spec => []RepeatsOnlyAfterFault
<1>1. ASSUME IInv PROVE RepeatsOnlyAfterFault
  BY <1>1 DEF IInv, RepeatsInv, Calm, Between, RepeatsOnlyAfterFault
<1> QED BY <1>1, Inductive, PTL

\* sweepConnectivity reports every silence since a reading that came two intervals
\* before the silence was due, in time, though a sweep judges by rows that have
\* changed since and may leave a key for a device that has come back.
THEOREM SilencesAreReported == Spec => []SilenceIsReported
<1>1. ASSUME IInv PROVE SilenceIsReported
  <2> SUFFICES ASSUME crashes = 0, failures = 0, outages = 0, ~overran, sweeps = NoSweeps,
                      NEW r \in RuleIndices, NEW d \in DOMAIN devices,
                      Punctual(r, d),
                      now - readings[devices[d]].time >= Silence[r] + Interval
               PROVE  Alerted(r, d, devices[d])
    BY DEF SilenceIsReported, Alerted, Punctual
  <2>1. Reported(r, d)
    BY <1>1 DEF IInv, ReportsInv, Quiet, Calm
  <2>2. ~Pending(r, d)
    BY DEF Pending, NoSweeps
  <2>3. readings[devices[d]].time + Silence[r] + Interval <= nextSweep
    <3>1. /\ now \in Nat /\ nextSweep \in Nat /\ now <= nextSweep
          /\ Silence[r] \in Nat /\ Interval \in Nat
      BY <1>1, Types DEF IInv, TimesInv
    <3>2. readings[devices[d]].time \in Int
      BY <1>1, ReadingOk DEF IInv, TimesInv
    <3> QED BY <3>1, <3>2
  <2> QED BY <2>1, <2>2, <2>3 DEF Reported, ReportedOf
<1> QED BY <1>1, Inductive, PTL

=============================================================================
