--------------------------- MODULE IngestionProofs ---------------------------
(***************************************************************************)
(* The ingestion service for all batch sizes, devices and readings,        *)
(* whatever transactions and connections fail, crashes and shutdowns come: *)
(* no reading is lost sight of, events follow rows, and a graceful stop    *)
(* has flushed what came before it; where a device reports in order, its   *)
(* shadow and its registry never go back, and the shadow catches up.       *)
(***************************************************************************)
EXTENDS Ingestion, TLAPS

\* A sequence is the run of readings n + 1, n + 2, ...
Run(s, n) == s \in Seq(Nat) /\ \A i \in 1 .. Len(s) : s[i] = n + i

LEMMA EmptyRun == ASSUME NEW n PROVE Run(<< >>, n) /\ Len(<< >>) = 0
BY DEF Run

LEMMA RunGrows ==
    ASSUME NEW n \in Nat, NEW s, Run(s, n)
    PROVE  Run(Append(s, n + Len(s) + 1), n) /\ Len(Append(s, n + Len(s) + 1)) = Len(s) + 1
BY DEF Run

LEMMA RunsJoin ==
    ASSUME NEW n \in Nat, NEW s, NEW t, Run(s, n), Run(t, n + Len(s))
    PROVE  Run(s \o t, n) /\ Len(s \o t) = Len(s) + Len(t)
<1>1. /\ s \in Seq(Nat) /\ t \in Seq(Nat) /\ Len(s) \in Nat /\ Len(t) \in Nat
      /\ s \o t \in Seq(Nat) /\ Len(s \o t) = Len(s) + Len(t)
  BY DEF Run
<1>2. ASSUME NEW i \in 1 .. Len(s \o t) PROVE (s \o t)[i] = n + i
  <2>1. CASE i <= Len(s)
    BY <1>1, <1>2, <2>1 DEF Run
  <2>2. CASE i > Len(s)
    <3>1. i - Len(s) \in 1 .. Len(t) /\ (s \o t)[i] = t[i - Len(s)]
      BY <1>1, <2>2
    <3> QED BY <1>1, <3>1 DEF Run
  <2> QED BY <1>1, <2>1, <2>2
<1> QED BY <1>1, <1>2 DEF Run

LEMMA RunMembers ==
    ASSUME NEW n \in Nat, NEW s, Run(s, n)
    PROVE  Members(s) = (n + 1) .. (n + Len(s))
<1>1. DOMAIN s = 1 .. Len(s) /\ Len(s) \in Nat
  BY DEF Run
<1>2. ASSUME NEW x \in (n + 1) .. (n + Len(s)) PROVE x \in Members(s)
  <2>1. x - n \in 1 .. Len(s) /\ s[x - n] = x
    BY <1>1 DEF Run
  <2> QED BY <1>1, <2>1 DEF Members
<1> QED BY <1>1, <1>2 DEF Run, Members

\* Rows up to reading n, followed by the run that begins after it.
LEMMA RowsJoin ==
    ASSUME NEW n \in Nat, NEW r \in Seq(Nat), NEW b, Run(b, n), Increasing(r),
           \A x \in Members(r) : x <= n
    PROVE  /\ r \o b \in Seq(Nat) /\ Increasing(r \o b)
           /\ Members(r \o b) = Members(r) \union Members(b)
<1>1. /\ b \in Seq(Nat) /\ Len(r) \in Nat /\ Len(b) \in Nat
      /\ r \o b \in Seq(Nat) /\ DOMAIN (r \o b) = 1 .. (Len(r) + Len(b))
      /\ DOMAIN r = 1 .. Len(r) /\ DOMAIN b = 1 .. Len(b)
  BY DEF Run
<1>2. ASSUME NEW i \in DOMAIN (r \o b)
      PROVE  \/ i \in DOMAIN r /\ (r \o b)[i] = r[i]
             \/ /\ i > Len(r) /\ i - Len(r) \in DOMAIN b
                /\ (r \o b)[i] = b[i - Len(r)]
  BY <1>1
<1>3. \A i \in DOMAIN r : r[i] <= n /\ i \in DOMAIN (r \o b) /\ (r \o b)[i] = r[i]
  BY <1>1 DEF Members
<1>4. \A i \in DOMAIN b :
          /\ b[i] = n + i /\ Len(r) + i \in DOMAIN (r \o b)
          /\ (r \o b)[Len(r) + i] = b[i]
  BY <1>1 DEF Run
<1>5. ASSUME NEW i \in DOMAIN (r \o b), NEW j \in DOMAIN (r \o b), i < j
      PROVE  (r \o b)[i] < (r \o b)[j]
  <2>1. CASE j \in DOMAIN r
    <3>1. i \in DOMAIN r
      BY <1>1, <1>5, <2>1
    <3>2. r[i] < r[j]
      BY <1>5, <2>1, <3>1 DEF Increasing
    <3> QED BY <1>3, <2>1, <3>1, <3>2
  <2>2. CASE j \notin DOMAIN r
    <3>1. j - Len(r) \in DOMAIN b /\ (r \o b)[j] = n + (j - Len(r)) /\ j > Len(r)
      BY <1>2, <1>4, <2>2
    <3>2. CASE i \in DOMAIN r
      <4>1. (r \o b)[i] \in Nat /\ (r \o b)[i] <= n
        BY <1>1, <1>3, <3>2
      <4>2. j - Len(r) > 0 /\ j \in Nat
        BY <1>1, <3>1
      <4> QED BY <1>1, <3>1, <4>1, <4>2, SMTT(60)
    <3>3. CASE i \notin DOMAIN r
      <4>1. (r \o b)[i] = n + (i - Len(r))
        BY <1>2, <1>4, <3>3
      <4> QED BY <1>1, <1>5, <3>1, <4>1
    <3> QED BY <3>2, <3>3
  <2> QED BY <2>1, <2>2
<1>6. Members(r \o b) = Members(r) \union Members(b)
  <2>1. Members(r \o b) \subseteq Members(r) \union Members(b)
    BY <1>2 DEF Members
  <2>2. Members(r) \subseteq Members(r \o b)
    BY <1>3 DEF Members
  <2>3. Members(b) \subseteq Members(r \o b)
    BY <1>4 DEF Members
  <2> QED BY <2>1, <2>2, <2>3
<1> QED BY <1>1, <1>5, <1>6 DEF Increasing

-----------------------------------------------------------------------------
(* The invariant.                                                          *)

\* The readings settled, those of the batch and those of the buffer are one run.
SplitInv ==
    /\ received \in Seq(Readings)
    /\ Run(settled, 0)
    /\ Run(batch, Len(settled))
    /\ Run(buffer, Len(settled) + Len(batch))
    /\ Len(received) = Len(settled) + Len(batch) + Len(buffer)
    /\ stage \in {"idle", "inserting", "committed"}
    /\ stage = "idle" => batch = << >>

\* Rows are of readings settled, or of the batch once it is committed; events
\* are of rows and settled.
RowsInv ==
    /\ rows \in Seq(Nat) /\ Increasing(rows)
    /\ events \in Seq(Nat) /\ Increasing(events)
    /\ Members(events) \subseteq Members(rows)
    /\ \A x \in Members(events) : x <= Len(settled)
    /\ IF stage = "committed"
       THEN /\ \A x \in Members(rows) : x <= Len(settled) + Len(batch)
            /\ Members(batch) \subseteq Members(rows)
       ELSE \A x \in Members(rows) : x <= Len(settled)

\* Where nothing has failed, what was to be written and announced is.
NothingFailedInv ==
    /\ failures \in Nat /\ crashes \in Nat /\ outages \in Nat
    /\ outages = 0 => connected
    /\ stage = "inserting" /\ ~outgrown => ~TooLarge(batch)
    /\ failures = 0 /\ crashes = 0 =>
          /\ ~outgrown => rows = IF stage = "committed" THEN settled \o batch ELSE settled
          /\ outages = 0 => rows = IF stage = "committed" THEN events \o batch ELSE events

\* The last flush awaited takes what came before the shutdown.
ShutdownInv ==
    /\ phase \in {"running", "stopping", "stopped", "down"}
    /\ chained \in Nat /\ awaited \in Nat /\ inTime \in 0 .. Len(received)
    /\ phase \notin {"stopping", "stopped"} => awaited = 0
    /\ phase = "stopped" => awaited = 0
    /\ phase \in {"stopping", "stopped"} =>
          /\ awaited = 0 => inTime <= Len(settled)
          /\ awaited = 1 /\ stage # "idle" => inTime <= Len(settled) + Len(batch)

-----------------------------------------------------------------------------

LEMMA Lengths ==
    ASSUME SplitInv
    PROVE  /\ Len(settled) \in Nat /\ Len(batch) \in Nat /\ Len(buffer) \in Nat
           /\ Len(received) \in Nat /\ settled \in Seq(Nat) /\ batch \in Seq(Nat)
           /\ buffer \in Seq(Nat)
BY DEF SplitInv, Run

\* A flush ends: its batch is settled.
LEMMA FlushEnded ==
    ASSUME SplitInv, EndFlush, received' = received, buffer' = buffer
    PROVE  SplitInv' /\ Len(settled') = Len(settled) + Len(batch)
<1>1. settled' = settled \o batch /\ batch' = << >> /\ stage' = "idle"
  BY DEF EndFlush
<1>2. Run(settled', 0) /\ Len(settled') = Len(settled) + Len(batch)
  BY <1>1, Lengths, RunsJoin DEF SplitInv
<1>3. Run(batch', Len(settled')) /\ Len(batch') = 0
  BY <1>1, EmptyRun
<1> QED BY <1>1, <1>2, <1>3, Lengths DEF SplitInv

LEMMA SplitStep == ASSUME SplitInv, [Next]_vars PROVE SplitInv'
<1>1. ASSUME NEW reading \in Readings, Enqueue(reading) PROVE SplitInv'
  <2>1. /\ received' = Append(received, reading)
        /\ buffer' = Append(buffer, Len(received) + 1)
        /\ settled' = settled /\ batch' = batch /\ stage' = stage
    BY <1>1 DEF Enqueue
  <2>2. received' \in Seq(Readings) /\ Len(received') = Len(received) + 1
    BY <2>1 DEF SplitInv
  <2>3. /\ Run(buffer', Len(settled) + Len(batch))
        /\ Len(buffer') = Len(buffer) + 1
    <3> DEFINE n == Len(settled) + Len(batch)
    <3>1. n \in Nat /\ Len(received) = n + Len(buffer) /\ Run(buffer, n)
      BY Lengths DEF SplitInv
    <3> HIDE DEF n
    <3>2. buffer' = Append(buffer, n + Len(buffer) + 1)
      BY <2>1, <3>1
    <3>3. Run(buffer', n) /\ Len(buffer') = Len(buffer) + 1
      BY <3>1, <3>2, RunGrows
    <3> QED BY <3>3 DEF n
  <2> QED BY <2>1, <2>2, <2>3, Lengths DEF SplitInv
<1>2. CASE Flush
  <2>1. /\ batch' = buffer /\ buffer' = << >> /\ stage = "idle"
        /\ settled' = settled /\ received' = received
        /\ stage' = IF buffer = << >> THEN stage ELSE "inserting"
    BY <1>2 DEF Flush, Kept, MayStart
  <2>2. Len(batch) = 0 /\ Len(buffer') = 0 /\ \A n : Run(buffer', n)
    BY <2>1, EmptyRun DEF SplitInv
  <2> QED BY <2>1, <2>2, Lengths DEF SplitInv
<1>3. CASE PersistFails
  BY <1>3, FlushEnded DEF PersistFails
<1>4. CASE Announce
  BY <1>4, FlushEnded DEF Announce
<1>5. CASE Commit
  BY <1>5 DEF Commit, SplitInv
<1>6. CASE Crash
  <2>1. /\ settled' = settled \o batch \o buffer /\ batch' = << >> /\ buffer' = << >>
        /\ stage' = "idle" /\ received' = received
    BY <1>6 DEF Crash
  <2>2. Run(settled \o batch, 0) /\ Len(settled \o batch) = Len(settled) + Len(batch)
    BY Lengths, RunsJoin DEF SplitInv
  <2>3. Run(settled', 0) /\ Len(settled') = Len(settled) + Len(batch) + Len(buffer)
    <3> DEFINE s == settled \o batch
    <3>1. /\ Run(s, 0) /\ Run(buffer, 0 + Len(s)) /\ settled' = s \o buffer
          /\ Len(s) = Len(settled) + Len(batch)
      BY <2>1, <2>2, Lengths DEF SplitInv
    <3>2. Run(s \o buffer, 0) /\ Len(s \o buffer) = Len(s) + Len(buffer)
      <4> HIDE DEF s
      <4>1. 0 \in Nat
        OBVIOUS
      <4> QED BY <3>1, <4>1, RunsJoin, SMTT(60)
    <3> QED BY <3>1, <3>2
  <2>4. \A n : Run(batch', n) /\ Run(buffer', n)
    BY <2>1, EmptyRun
  <2>5. Len(batch') = 0 /\ Len(buffer') = 0
    BY <2>1
  <2> QED BY <2>1, <2>3, <2>4, <2>5, Lengths DEF SplitInv
<1>7. CASE UNCHANGED <<received, settled, batch, buffer, stage>>
  BY <1>7 DEF SplitInv
<1> QED
  BY <1>1, <1>2, <1>3, <1>4, <1>5, <1>6, <1>7
     DEF Next, TimerTicks, UpdateShadow, ConnectionChanges, Shutdown, MqttEnds, Stop,
         Restart, Rest, vars, process

\* The rows after the transaction, and the events after they are published.
LEMMA Joined ==
    ASSUME SplitInv, NEW r \in Seq(Nat), Increasing(r),
           \A x \in Members(r) : x <= Len(settled)
    PROVE  /\ r \o batch \in Seq(Nat) /\ Increasing(r \o batch)
           /\ Members(r \o batch) = Members(r) \union Members(batch)
           /\ \A x \in Members(r \o batch) : x <= Len(settled) + Len(batch)
<1>1. Run(batch, Len(settled)) /\ Len(settled) \in Nat /\ Len(batch) \in Nat
  BY Lengths DEF SplitInv
<1>2. /\ r \o batch \in Seq(Nat) /\ Increasing(r \o batch)
      /\ Members(r \o batch) = Members(r) \union Members(batch)
  BY <1>1, RowsJoin
<1>3. Members(batch) = (Len(settled) + 1) .. (Len(settled) + Len(batch))
  BY <1>1, RunMembers
<1>4. Members(r) \subseteq Nat
  BY DEF Members
<1> QED BY <1>1, <1>2, <1>3, <1>4

LEMMA RowsStep == ASSUME SplitInv, RowsInv, [Next]_vars PROVE RowsInv'
<1>0. Members(rows) \subseteq Nat /\ Members(events) \subseteq Nat
  BY DEF RowsInv, Members
<1>1. CASE Commit
  <2>1. /\ stage = "inserting" /\ stage' = "committed" /\ rows' = rows \o batch
        /\ events' = events /\ settled' = settled /\ batch' = batch
    BY <1>1 DEF Commit, Write
  <2>2. /\ rows' \in Seq(Nat) /\ Increasing(rows)'
        /\ Members(rows)' = Members(rows) \union Members(batch)
        /\ \A x \in Members(rows)' : x <= Len(settled) + Len(batch)
    BY <2>1, Joined DEF RowsInv, Increasing, Members
  <2>3. Members(events)' = Members(events) /\ Members(batch)' = Members(batch)
        /\ Increasing(events)'
    BY <2>1 DEF RowsInv, Increasing, Members
  <2> QED BY <2>1, <2>2, <2>3 DEF RowsInv
<1>2. CASE PersistFails
  <2>1. /\ stage = "inserting" /\ stage' = "idle" /\ events' = events
        /\ rows' = rows \o batch \/ rows' = rows
        /\ Len(settled') = Len(settled) + Len(batch)
    BY <1>2, FlushEnded DEF PersistFails, EndFlush, FailureIsLogged, Write
  <2>2. /\ rows' \in Seq(Nat) /\ Increasing(rows)'
        /\ Members(rows) \subseteq Members(rows)'
        /\ \A x \in Members(rows)' : x <= Len(settled')
    <3>1. CASE rows' = rows
      <4>1. Members(rows)' = Members(rows) /\ Increasing(rows)'
        BY <3>1 DEF RowsInv, Increasing, Members
      <4>2. \A x \in Members(rows) : x <= Len(settled)
        BY <2>1 DEF RowsInv
      <4>3. rows' \in Seq(Nat)
        BY <3>1 DEF RowsInv
      <4> QED BY <1>0, <2>1, <4>1, <4>2, <4>3, Lengths
    <3>2. CASE rows' = rows \o batch
      <4>1. /\ rows \o batch \in Seq(Nat) /\ Increasing(rows \o batch)
            /\ Members(rows \o batch) = Members(rows) \union Members(batch)
            /\ \A x \in Members(rows \o batch) : x <= Len(settled) + Len(batch)
        BY <2>1, Joined DEF RowsInv
      <4>2. Increasing(rows)' = Increasing(rows \o batch)
            /\ Members(rows)' = Members(rows \o batch)
        BY <3>2 DEF Increasing, Members
      <4>3. Members(rows) \subseteq Members(rows)'
        BY <4>1, <4>2
      <4>4. \A x \in Members(rows)' : x <= Len(settled')
        BY <2>1, <4>1, <4>2
      <4> QED BY <3>2, <4>1, <4>2, <4>3, <4>4
    <3> QED BY <2>1, <3>1, <3>2
  <2>3. Members(events)' = Members(events) /\ Increasing(events)'
    BY <2>1 DEF RowsInv, Increasing, Members
  <2> QED BY <1>0, <2>1, <2>2, <2>3, Lengths DEF RowsInv
<1>3. CASE Announce
  <2>1. /\ stage = "committed" /\ stage' = "idle" /\ rows' = rows
        /\ events' = events \o batch \/ events' = events
        /\ Len(settled') = Len(settled) + Len(batch)
    BY <1>3, FlushEnded DEF Announce, EndFlush
  <2>2. /\ events' \in Seq(Nat) /\ Increasing(events)'
        /\ Members(events)' \subseteq Members(rows)
        /\ \A x \in Members(events)' : x <= Len(settled')
    <3>1. CASE events' = events
      <4>1. Members(events)' = Members(events) /\ Increasing(events)'
        BY <3>1 DEF RowsInv, Increasing, Members
      <4> QED BY <1>0, <2>1, <3>1, <4>1, Lengths DEF RowsInv
    <3>2. CASE events' = events \o batch
      <4>1. /\ events \o batch \in Seq(Nat) /\ Increasing(events \o batch)
            /\ Members(events \o batch) = Members(events) \union Members(batch)
            /\ \A x \in Members(events \o batch) : x <= Len(settled) + Len(batch)
        BY Joined DEF RowsInv
      <4>2. Increasing(events)' = Increasing(events \o batch)
            /\ Members(events)' = Members(events \o batch)
        BY <3>2 DEF Increasing, Members
      <4> QED BY <2>1, <3>2, <4>1, <4>2 DEF RowsInv
    <3> QED BY <2>1, <3>1, <3>2
  <2>3. Members(rows)' = Members(rows) /\ Increasing(rows)'
    BY <2>1 DEF RowsInv, Increasing, Members
  <2> QED BY <2>1, <2>2, <2>3 DEF RowsInv
<1>4. CASE Flush
  <2>1. /\ stage = "idle" /\ stage' \in {"idle", "inserting"} /\ settled' = settled
        /\ rows' = rows /\ events' = events
    BY <1>4 DEF Flush, MayStart, stores
  <2> QED BY <2>1 DEF RowsInv, Increasing, Members
<1>5. CASE Crash
  <2>1. /\ stage' = "idle" /\ rows' = rows /\ events' = events
        /\ settled' = settled \o batch \o buffer
    BY <1>5 DEF Crash, stores
  <2>2. Len(settled') = Len(settled) + Len(batch) + Len(buffer)
    BY <2>1, Lengths
  <2>3. /\ Members(rows)' = Members(rows) /\ Members(events)' = Members(events)
        /\ Increasing(rows)' /\ Increasing(events)'
    BY <2>1 DEF RowsInv, Increasing, Members
  <2>4. \A x \in Members(rows) : x <= Len(settled) + Len(batch)
    BY <1>0, Lengths DEF RowsInv
  <2>5. /\ \A x \in Members(rows)' : x <= Len(settled')
        /\ \A x \in Members(events)' : x <= Len(settled')
    <3>1. \A x \in Members(events) : x <= Len(settled)
      BY DEF RowsInv
    <3> QED BY <1>0, <2>2, <2>3, <2>4, <3>1, Lengths
  <2> QED BY <2>1, <2>3, <2>5 DEF RowsInv
<1>6. CASE UNCHANGED <<rows, events, settled, stage, batch>>
  <2>1. /\ Members(rows)' = Members(rows) /\ Members(events)' = Members(events)
        /\ Members(batch)' = Members(batch)
        /\ Increasing(rows)' = Increasing(rows) /\ Increasing(events)' = Increasing(events)
    BY <1>6 DEF Increasing, Members
  <2> QED BY <1>6, <2>1 DEF RowsInv
<1> QED
  BY <1>1, <1>2, <1>3, <1>4, <1>5, <1>6, SMTT(60)
     DEF Next, Enqueue, TimerTicks, UpdateShadow, ConnectionChanges, Shutdown,
         MqttEnds, Stop, Restart, Rest, vars, process, stores

LEMMA NothingFailedStep ==
    ASSUME SplitInv, NothingFailedInv, [Next]_vars PROVE NothingFailedInv'
<1>1. CASE Flush
  BY <1>1 DEF Flush, MayStart, stores, bounds, NothingFailedInv, TooLarge
<1>2. CASE Commit
  BY <1>2 DEF Commit, Write, bounds, NothingFailedInv, TooLarge
<1>3. CASE PersistFails
  BY <1>3 DEF PersistFails, EndFlush, FailureIsLogged, NothingFailedInv, TooLarge
<1>4. CASE Announce
  BY <1>4 DEF Announce, EndFlush, bounds, NothingFailedInv, TooLarge
<1>5. CASE UpdateShadow
  BY <1>5 DEF UpdateShadow, NothingFailedInv, TooLarge
<1>6. CASE ConnectionChanges
  BY <1>6 DEF ConnectionChanges, process, stores, NothingFailedInv, TooLarge
<1>7. CASE Crash
  BY <1>7 DEF Crash, NothingFailedInv, TooLarge
<1>8. CASE UNCHANGED <<rows, events, settled, stage, batch, connected, outgrown, bounds>>
  BY <1>8 DEF NothingFailedInv, TooLarge, bounds
<1> QED
  BY <1>1, <1>2, <1>3, <1>4, <1>5, <1>6, <1>7, <1>8
     DEF Next, Enqueue, TimerTicks, Shutdown, MqttEnds, Stop, Restart, Rest, vars,
         process, stores

LEMMA ShutdownStep ==
    ASSUME SplitInv, ShutdownInv, [Next]_vars PROVE ShutdownInv'
<1>0. /\ Len(settled) \in Nat /\ Len(batch) \in Nat /\ Len(buffer) \in Nat
      /\ Len(received) = Len(settled) + Len(batch) + Len(buffer)
      /\ stage \in {"idle", "inserting", "committed"}
      /\ stage = "idle" => Len(batch) = 0
  BY Lengths, EmptyRun DEF SplitInv
<1>1. ASSUME NEW reading \in Readings, Enqueue(reading) PROVE ShutdownInv'
  <2>1. /\ phase' = phase /\ awaited' = awaited /\ stage' = stage
        /\ settled' = settled /\ batch' = batch /\ chained' \in {chained, chained + 1}
        /\ received' = Append(received, reading)
        /\ inTime' = IF phase = "running" THEN Len(received) + 1 ELSE inTime
    BY <1>1 DEF Enqueue
  <2>2. Len(received') = Len(received) + 1
    <3>1. received \in Seq(Readings)
      BY DEF SplitInv
    <3> QED BY <2>1, <3>1
  <2> QED BY <1>0, <2>1, <2>2 DEF ShutdownInv
<1>2. CASE Flush
  <2>1. /\ stage = "idle" /\ chained > 0 /\ chained' = chained - 1 /\ batch' = buffer
        /\ phase' = phase /\ settled' = settled /\ received' = received
        /\ inTime' = inTime
        /\ IF buffer = << >>
           THEN awaited' = (IF awaited > 0 THEN awaited - 1 ELSE 0) /\ stage' = stage
           ELSE stage' = "inserting" /\ awaited' = awaited
    BY <1>2 DEF Flush, MayStart, FlushEnds
  <2>2. buffer = << >> => Len(buffer) = 0
    OBVIOUS
  <2>3. CASE buffer = << >>
    BY <1>0, <2>1, <2>2, <2>3 DEF ShutdownInv
  <2>4. CASE buffer # << >>
    BY <1>0, <2>1, <2>4 DEF ShutdownInv
  <2> QED BY <2>3, <2>4
<1>3. ASSUME EndFlush, received' = received, buffer' = buffer,
             UNCHANGED <<phase, chained, inTime>>, stage # "idle"
      PROVE  ShutdownInv'
  <2>1. /\ awaited' = (IF awaited > 0 THEN awaited - 1 ELSE 0) /\ stage' = "idle"
        /\ Len(settled') = Len(settled) + Len(batch)
    BY <1>3, FlushEnded DEF EndFlush, FlushEnds
  <2> QED BY <1>0, <1>3, <2>1 DEF ShutdownInv
<1>4. CASE PersistFails
  BY <1>3, <1>4 DEF PersistFails
<1>5. CASE Announce
  BY <1>3, <1>5 DEF Announce
<1>6. CASE Commit
  BY <1>6 DEF Commit, ShutdownInv
<1>7. CASE Shutdown
  BY <1>7 DEF Shutdown, AwaitedAtShutdown, ShutdownInv
<1>8. CASE Stop
  BY <1>8 DEF Stop, process, ShutdownInv
<1>9. CASE Crash
  BY <1>9 DEF Crash, ShutdownInv
<1>10. CASE Restart
  BY <1>0, <1>10 DEF Restart, process, ShutdownInv
<1>11. CASE TimerTicks
  BY <1>11 DEF TimerTicks, ShutdownInv
<1>12. CASE UNCHANGED <<received, phase, chained, stage, batch, awaited, settled, inTime>>
  BY <1>12 DEF ShutdownInv
<1> QED
  BY <1>1, <1>2, <1>4, <1>5, <1>6, <1>7, <1>8, <1>9, <1>10, <1>11, <1>12
     DEF Next, UpdateShadow, ConnectionChanges, MqttEnds, Rest, vars, process

-----------------------------------------------------------------------------

IInv == SplitInv /\ RowsInv /\ NothingFailedInv /\ ShutdownInv

LEMMA Initially == Init => IInv
<1> SUFFICES ASSUME Init PROVE IInv
  OBVIOUS
<1>1. SplitInv
  BY EmptyRun DEF Init, SplitInv
<1>2. RowsInv
  BY DEF Init, RowsInv, Increasing, Members
<1>3. NothingFailedInv
  BY DEF Init, NothingFailedInv
<1>4. ShutdownInv
  BY DEF Init, ShutdownInv
<1> QED BY <1>1, <1>2, <1>3, <1>4 DEF IInv

LEMMA Inductive == Spec => []IInv
<1>1. IInv /\ [Next]_vars => IInv'
  BY SplitStep, RowsStep, NothingFailedStep, ShutdownStep DEF IInv
<1> QED BY Initially, <1>1, PTL DEF Spec

\* No reading acknowledged is lost sight of, taken by two flushes or overtaken:
\* whatever fails, the readings settled, in the batch and in the buffer are the
\* readings received, in order, and the rows are in order as well.
THEOREM AccountedFor == Spec => []EachReadingOnce
<1>1. IInv => EachReadingOnce
  <2> SUFFICES ASSUME IInv PROVE EachReadingOnce
    OBVIOUS
  <2> DEFINE s == settled \o batch
             a == s \o buffer
  <2>1. Run(s, 0) /\ Len(s) = Len(settled) + Len(batch)
    BY Lengths, RunsJoin DEF IInv, SplitInv
  <2>2. Run(buffer, 0 + Len(s)) /\ Len(received) = Len(s) + Len(buffer)
    BY <2>1, Lengths DEF IInv, SplitInv
  <2>3. Run(a, 0) /\ Len(a) = Len(received)
    <3> HIDE DEF s
    <3> QED BY <2>1, <2>2, RunsJoin
  <2>4. a = [i \in Indices |-> i]
    <3> HIDE DEF a
    <3>1. DOMAIN a = 1 .. Len(a) /\ a = [i \in DOMAIN a |-> a[i]]
      BY <2>3 DEF Run
    <3>2. Indices = DOMAIN a
      BY <2>3, <3>1 DEF Indices, IInv, SplitInv
    <3>3. \A i \in DOMAIN a : a[i] = i
      BY <2>3, <3>1 DEF Run
    <3> QED BY <3>1, <3>2, <3>3
  <2> QED BY <2>4 DEF EachReadingOnce, IInv, RowsInv
<1> QED BY <1>1, Inductive, PTL

\* Consumers of telemetry.received never run ahead of the table, and where
\* nothing has failed everything settled is stored and announced.
THEOREM AnnouncedAreStored == Spec => []EventsFollowRows
<1>1. IInv => EventsFollowRows
  BY DEF IInv, RowsInv, NothingFailedInv, EventsFollowRows
<1> QED BY <1>1, Inductive, PTL

\* A graceful stop has flushed every reading that came before it.
THEOREM StopLeavesNothing == Spec => []ShutdownFlushes
<1>1. IInv => ShutdownFlushes
  <2> SUFFICES ASSUME IInv, phase = "stopped"
               PROVE  1 .. inTime \subseteq Members(settled)
    BY DEF ShutdownFlushes
  <2>1. inTime <= Len(settled) /\ inTime \in Int /\ Len(settled) \in Nat
    BY Lengths DEF IInv, ShutdownInv, SplitInv
  <2>2. Members(settled) = (0 + 1) .. (0 + Len(settled))
    BY RunMembers DEF IInv, SplitInv
  <2> QED BY <2>1, <2>2
<1> QED BY <1>1, Inductive, PTL

-----------------------------------------------------------------------------
(* The shadow and the registry.                                            *)

\* The readings of a device come in the order of their timestamps.
OrderInv ==
    DevicesReportInOrder =>
        \A i, j \in Indices :
            i < j /\ received[i].device = received[j].device =>
                Timestamp(i) <= Timestamp(j)

\* Reading i is what latestByDevice takes of device d from b.
IsLatest(b, d, i) ==
    /\ i \in Members(b) /\ received[i].device = d
    /\ \A j \in Members(b) : received[j].device = d => Supersedes(i, j)

\* Each device of the buffer and of the batch has a latest reading.
HasLatest(b) == \A d \in DevicesOf(b) : \E i \in Members(b) : IsLatest(b, d, i)
LatestInv == \A b \in {buffer, batch} : HasLatest(b)

\* The registry has the time of a reading that is in the table, or was when its
\* flush ended.
Stored == IF stage = "committed" THEN Len(settled) + Len(batch) ELSE Len(settled)
SeenInv ==
    \A d \in Devices :
        lastSeen[d] # None =>
            \E i \in 1 .. Stored : received[i].device = d /\ lastSeen[d] = Timestamp(i)

\* Shadows and the pipelines on their way are of readings settled, each behind
\* the one it overwrites.
Updates == UNION {[D -> Nat] : D \in SUBSET Devices}
SettledOf(d, i) == i \in 1 .. Len(settled) /\ received[i].device = d
AllSettled(t, f) ==
    /\ \A n \in DOMAIN t : \A d \in DOMAIN t[n] : SettledOf(d, t[n][d])
    /\ \A d \in Devices : f[d] # None => SettledOf(d, f[d])
Behind(t, f) ==
    \A n \in DOMAIN t : \A d \in DOMAIN t[n] :
        /\ f[d] # None => f[d] <= t[n][d]
        /\ \A m \in DOMAIN t : n < m /\ d \in DOMAIN t[m] => t[n][d] <= t[m][d]
PipelinesInv ==
    /\ pipelines \in Seq(Updates)
    /\ AllSettled(pipelines, shadow) /\ Behind(pipelines, shadow)

\* Of the device of a reading that is stored and settled, one as late is in the
\* shadow or on its way there.
Shown(t, f, d, j) == f[d] = j \/ \E n \in DOMAIN t : d \in DOMAIN t[n] /\ t[n][d] = j
CoverInv ==
    failures = 0 /\ crashes = 0 =>
        \A i \in Members(rows) :
            i <= Len(settled) =>
                \E j \in Indices : /\ Timestamp(i) <= Timestamp(j)
                                   /\ Shown(pipelines, shadow, received[i].device, j)

StoresInv == OrderInv /\ LatestInv /\ SeenInv /\ PipelinesInv
             /\ (DevicesReportInOrder => CoverInv)

\* Flushes chained and awaited, and a batch for every flush that runs.
CountsInv ==
    /\ stage # "idle" => batch # << >>
    /\ chained \in 0 .. MaxChained + 1 /\ awaited \in 0 .. MaxChained + 2
    /\ phase = "running" => chained <= MaxChained
    /\ phase = "down" => chained = 0
    /\ outgrown \in BOOLEAN
    /\ 0 \notin Members(rows)

-----------------------------------------------------------------------------

\* What is received stays.
LEMMA ReceivedKept ==
    ASSUME SplitInv, [Next]_vars
    PROVE  /\ Indices = 1 .. Len(received) /\ Len(received) \in Nat
           /\ Indices' = 1 .. Len(received') /\ Len(received') \in Nat
           /\ Len(received) <= Len(received')
           /\ \A i \in Indices : received'[i] = received[i] /\ Timestamp(i)' = Timestamp(i)
           /\ \A i \in Indices : received[i].device \in Devices /\ Timestamp(i) \in Nat
<1>1. received \in Seq(Readings)
  BY DEF SplitInv
<1>2. received' = received \/ \E reading \in Readings : received' = Append(received, reading)
  BY DEF Next, Enqueue, TimerTicks, Flush, Commit, PersistFails, Announce, UpdateShadow,
     ConnectionChanges, Shutdown, MqttEnds, Stop, Crash, Restart, Rest, vars
<1>3. /\ received' \in Seq(Readings) /\ Len(received) <= Len(received')
      /\ \A i \in 1 .. Len(received) : received'[i] = received[i]
  BY <1>1, <1>2
<1>4. \A i \in 1 .. Len(received) :
          received[i].device \in Devices /\ received[i].timestamp \in Nat
  BY <1>1, IngestionAssumption
<1> QED BY <1>1, <1>3, <1>4 DEF Indices, Timestamp

LEMMA OrderStep == ASSUME SplitInv, OrderInv, [Next]_vars PROVE OrderInv'
<1> SUFFICES ASSUME DevicesReportInOrder, NEW i \in Indices', NEW j \in Indices', i < j,
                    received'[i].device = received'[j].device
             PROVE  Timestamp(i)' <= Timestamp(j)'
  BY DEF OrderInv
<1>1. CASE j \in Indices
  <2>1. i \in Indices
    BY <1>1, ReceivedKept
  <2> QED BY <1>1, <2>1, ReceivedKept DEF OrderInv
<1>2. CASE j \notin Indices
  <2>1. received' # received
    BY <1>2 DEF Indices
  <2>2. PICK reading \in Readings : received' = Append(received, reading) /\ InOrder(reading)
    BY <2>1 DEF Next, Enqueue, TimerTicks, Flush, Commit, PersistFails, Announce, UpdateShadow,
       ConnectionChanges, Shutdown, MqttEnds, Stop, Crash, Restart, Rest, vars
  <2>3. received \in Seq(Readings)
    BY DEF SplitInv
  <2>4. j = Len(received) + 1 /\ received'[j] = reading /\ i \in Indices
    BY <1>2, <2>2, <2>3, ReceivedKept DEF Indices
  <2> QED BY <2>2, <2>4, ReceivedKept DEF InOrder, Timestamp, Indices
<1> QED BY <1>1, <1>2

-----------------------------------------------------------------------------
(* latestByDevice.                                                         *)

LEMMA LatestOf ==
    ASSUME NEW b, HasLatest(b), NEW d \in DevicesOf(b)
    PROVE  d \in DOMAIN Latest(b) /\ IsLatest(b, d, Latest(b)[d])
BY DEF HasLatest, Latest, IsLatest

\* What is held is received.
LEMMA HeldIsReceived ==
    ASSUME SplitInv
    PROVE  /\ Members(batch) = (Len(settled) + 1) .. (Len(settled) + Len(batch))
           /\ Members(buffer) = (Len(settled) + Len(batch) + 1) .. Len(received)
           /\ Members(batch) \subseteq Indices /\ Members(buffer) \subseteq Indices
<1>1. Members(batch) = (Len(settled) + 1) .. (Len(settled) + Len(batch))
  BY Lengths, RunMembers DEF SplitInv
<1>2. Members(buffer) = (Len(settled) + Len(batch) + 1) .. Len(received)
  <2> DEFINE n == Len(settled) + Len(batch)
  <2>1. n \in Nat /\ Run(buffer, n) /\ Len(received) = n + Len(buffer)
    BY Lengths DEF SplitInv
  <2> HIDE DEF n
  <2>2. Members(buffer) = (n + 1) .. (n + Len(buffer))
    BY <2>1, RunMembers
  <2> QED BY <2>1, <2>2 DEF n
<1>3. Indices = 1 .. Len(received)
  BY DEF SplitInv, Indices
<1> QED BY <1>1, <1>2, <1>3, Lengths DEF SplitInv

LEMMA HasLatestKept ==
    ASSUME SplitInv, [Next]_vars, NEW b, Members(b) \subseteq Indices, HasLatest(b)
    PROVE  HasLatest(b)'
<1>1. \A i \in Members(b) : received'[i] = received[i]
  BY ReceivedKept
<1>2. DevicesOf(b)' = DevicesOf(b)
  BY <1>1 DEF DevicesOf
<1>3. ASSUME NEW d, NEW i \in Members(b), IsLatest(b, d, i) PROVE IsLatest(b, d, i)'
  BY <1>1, <1>3 DEF IsLatest, Supersedes
<1> QED BY <1>2, <1>3 DEF HasLatest

\* A reading more is the latest of its device, or the one before it still is.
LEMMA LatestWithOneMore ==
    ASSUME SplitInv, LatestInv, NEW reading \in Readings, Enqueue(reading),
           NEW b, b = buffer'
    PROVE  HasLatest(b)'
<1>0. PICK k \in Nat : k = Len(received) + 1
  BY Lengths
<1>1. /\ received' = Append(received, reading) /\ buffer' = Append(buffer, k)
      /\ received \in Seq(Readings) /\ buffer \in Seq(Nat) /\ [Next]_vars
  BY <1>0, Lengths DEF Enqueue, SplitInv, Next
<1>2. /\ k \in Nat /\ received'[k] = reading /\ reading.timestamp \in Nat
      /\ Members(b) = Members(buffer) \union {k}
      /\ \A j \in Members(buffer) : j < k /\ j \in Nat
  <2>1. Members(Append(buffer, k)) = Members(buffer) \union {k}
    <3>1. /\ DOMAIN Append(buffer, k) = 1 .. Len(buffer) + 1 /\ DOMAIN buffer = 1 .. Len(buffer)
          /\ Len(buffer) \in Nat /\ Append(buffer, k)[Len(buffer) + 1] = k
          /\ \A n \in 1 .. Len(buffer) : Append(buffer, k)[n] = buffer[n]
      BY <1>1
    <3> QED BY <3>1 DEF Members
  <2>2. b = Append(buffer, k)
    BY <1>1
  <2>3. received'[k] = reading /\ k \in Nat
    BY <1>0, <1>1
  <2>4. \A j \in Members(buffer) : j \in 1 .. Len(received)
    BY HeldIsReceived DEF SplitInv, Indices
  <2>5. reading.timestamp \in Nat
    BY IngestionAssumption
  <2>6. \A j \in Members(buffer) : j < k /\ j \in Nat
    BY <1>0, <2>4, Lengths
  <2>7. Members(b) = Members(buffer) \union {k}
    BY <2>1, <2>2
  <2> QED BY <1>0, <1>1, <2>3, <2>5, <2>6, <2>7
<1>3. \A j \in Members(buffer) : received'[j] = received[j] /\ received[j].timestamp \in Nat
  BY <1>1, ReceivedKept, HeldIsReceived DEF Timestamp
<1>4. ASSUME NEW d \in DevicesOf(b)'
      PROVE  \E i \in Members(b) : IsLatest(b, d, i)'
  <2>1. CASE d \notin DevicesOf(buffer)
    <3>1. /\ \A j \in Members(buffer) : received'[j].device # d
          /\ received'[k].device = d
      BY <1>2, <1>3, <2>1 DEF DevicesOf
    <3>2. IsLatest(b, d, k)'
      BY <1>2, <3>1 DEF IsLatest, Supersedes
    <3> QED BY <1>2, <3>2
  <2>2. CASE d \in DevicesOf(buffer)
    <3>1. PICK i \in Members(buffer) : IsLatest(buffer, d, i)
      BY <2>2 DEF LatestInv, HasLatest
    <3>2. \A j \in Members(buffer) :
              received[j].device = d =>
                  \/ received[i].timestamp > received[j].timestamp
                  \/ received[i].timestamp = received[j].timestamp /\ i <= j
      BY <3>1 DEF IsLatest, Supersedes
    <3>3. received'[i].device = d
      BY <1>3, <3>1 DEF IsLatest
    <3>4. CASE reading.device = d /\ reading.timestamp > received[i].timestamp
      <4>1. IsLatest(b, d, k)'
        BY <1>2, <1>3, <3>1, <3>2, <3>4 DEF IsLatest, Supersedes
      <4> QED BY <1>2, <4>1
    <3>5. CASE ~(reading.device = d /\ reading.timestamp > received[i].timestamp)
      <4>1. IsLatest(b, d, i)'
        BY <1>2, <1>3, <3>1, <3>2, <3>3, <3>5 DEF IsLatest, Supersedes
      <4> QED BY <1>2, <3>1, <4>1
    <3> QED BY <3>4, <3>5
  <2> QED BY <2>1, <2>2
<1> QED BY <1>4 DEF HasLatest

LEMMA LatestStep == ASSUME SplitInv, LatestInv, [Next]_vars PROVE LatestInv'
<1>1. ASSUME NEW b, b = << >> PROVE HasLatest(b)'
  BY <1>1 DEF HasLatest, DevicesOf, Members
<1>2. ASSUME NEW b, b = buffer \/ b = batch PROVE HasLatest(b)'
  BY <1>2, HasLatestKept, HeldIsReceived DEF LatestInv
<1>3. ASSUME NEW b, b = batch' PROVE HasLatest(b)'
  <2>1. batch' = batch \/ batch' = buffer \/ batch' = << >>
    BY DEF Next, Enqueue, TimerTicks, Flush, Commit, PersistFails, Announce, UpdateShadow,
       ConnectionChanges, Shutdown, MqttEnds, Stop, Crash, Restart, Rest, vars, process,
       EndFlush
  <2> QED BY <1>1, <1>2, <1>3, <2>1
<1>4. ASSUME NEW b, b = buffer' PROVE HasLatest(b)'
  <2>1. CASE buffer' = buffer \/ buffer' = << >>
    BY <1>1, <1>2, <1>4, <2>1
  <2>2. ASSUME NEW reading \in Readings, Enqueue(reading) PROVE HasLatest(b)'
    BY <1>4, <2>2, LatestWithOneMore
  <2> QED
    BY <2>1, <2>2
       DEF Next, TimerTicks, Flush, Kept, Commit, PersistFails, Announce, UpdateShadow,
           ConnectionChanges, Shutdown, MqttEnds, Stop, Crash, Restart, Rest, vars, process
<1> QED BY <1>3, <1>4 DEF LatestInv

-----------------------------------------------------------------------------
(* The registry.                                                           *)

\* The transaction sets last_seen to the time of readings of the batch.
LEMMA Written ==
    ASSUME SplitInv, LatestInv, Write, NEW d \in Devices
    PROVE  \/ lastSeen'[d] = lastSeen[d]
           \/ \E i \in Members(batch) :
                 received[i].device = d /\ lastSeen'[d] = Timestamp(i)
<1>1. CASE d \in DevicesOf(batch)
  <2>1. IsLatest(batch, d, Latest(batch)[d])
    BY <1>1, LatestOf DEF LatestInv
  <2>2. lastSeen'[d] = Timestamp(Latest(batch)[d])
    BY <1>1 DEF Write, Overwrite, Timestamp
  <2> QED BY <2>1, <2>2 DEF IsLatest
<1>2. CASE d \notin DevicesOf(batch)
  BY <1>2 DEF Write, Overwrite
<1> QED BY <1>1, <1>2

\* How last_seen changes.
LEMMA SeenChanges ==
    ASSUME SplitInv, LatestInv, [Next]_vars, NEW d \in Devices
    PROVE  \/ lastSeen'[d] = lastSeen[d]
           \/ /\ stage = "inserting"
              /\ \E i \in Members(batch) :
                    received[i].device = d /\ lastSeen'[d] = Timestamp(i)
<1>1. CASE Commit
  BY <1>1, Written DEF Commit
<1>2. CASE PersistFails
  BY <1>2, Written DEF PersistFails
<1>3. CASE UNCHANGED lastSeen
  BY <1>3
<1> QED
  BY <1>1, <1>2, <1>3
     DEF Next, Enqueue, TimerTicks, Flush, Announce, UpdateShadow, ConnectionChanges,
         Shutdown, MqttEnds, Stop, Crash, Restart, Rest, vars, stores

LEMMA StoredGrows ==
    ASSUME SplitInv, [Next]_vars
    PROVE  /\ Stored \in Nat /\ Stored' \in Nat /\ Stored <= Stored'
           /\ Stored <= Len(received)
           /\ stage = "inserting" /\ lastSeen' # lastSeen =>
                 Stored' = Len(settled) + Len(batch)
<1>1. /\ Len(settled) \in Nat /\ Len(batch) \in Nat /\ Len(buffer) \in Nat
      /\ Len(received) = Len(settled) + Len(batch) + Len(buffer)
      /\ stage = "idle" => Len(batch) = 0
  BY Lengths, EmptyRun DEF SplitInv
<1>2. Stored \in Nat /\ Stored <= Len(received) /\ Stored <= Len(settled) + Len(batch)
      /\ Len(settled) <= Stored
  BY <1>1 DEF Stored
<1>3. CASE Commit
  BY <1>1, <1>3 DEF Commit, Stored
<1>4. CASE PersistFails \/ Announce
  <2>1. Len(settled') = Len(settled) + Len(batch) /\ stage' = "idle"
    BY <1>4, FlushEnded DEF PersistFails, Announce, EndFlush
  <2> QED BY <1>1, <1>2, <2>1 DEF Stored
<1>5. CASE Crash
  <2>1. /\ settled' = settled \o batch \o buffer /\ stage' = "idle"
        /\ lastSeen' = lastSeen
    BY <1>5 DEF Crash, stores
  <2>2. Len(settled') = Len(settled) + Len(batch) + Len(buffer)
    BY <2>1, Lengths
  <2> QED BY <1>1, <1>2, <2>1, <2>2 DEF Stored
<1>6. CASE Flush
  BY <1>1, <1>6 DEF Flush, MayStart, Stored, stores
<1>7. CASE UNCHANGED <<settled, batch, stage, lastSeen>>
  BY <1>2, <1>7 DEF Stored
<1> QED
  BY <1>3, <1>4, <1>5, <1>6, <1>7
     DEF Next, Enqueue, TimerTicks, UpdateShadow, ConnectionChanges,
         Shutdown, MqttEnds, Stop, Restart, Rest, vars, stores, process

LEMMA SeenStep == ASSUME SplitInv, LatestInv, SeenInv, [Next]_vars PROVE SeenInv'
<1> SUFFICES ASSUME NEW d \in Devices, lastSeen'[d] # None
             PROVE  \E i \in 1 .. Stored' :
                        received'[i].device = d /\ lastSeen'[d] = Timestamp(i)'
  BY DEF SeenInv
<1>1. CASE lastSeen'[d] = lastSeen[d]
  <2>1. PICK i \in 1 .. Stored : received[i].device = d /\ lastSeen[d] = Timestamp(i)
    BY <1>1 DEF SeenInv
  <2>2. i \in Indices /\ i \in 1 .. Stored'
    BY StoredGrows, ReceivedKept
  <2> QED BY <1>1, <2>1, <2>2, ReceivedKept
<1>2. CASE lastSeen'[d] # lastSeen[d]
  <2>1. PICK i \in Members(batch) : received[i].device = d /\ lastSeen'[d] = Timestamp(i)
    BY <1>2, SeenChanges
  <2>2. stage = "inserting" /\ lastSeen' # lastSeen
    BY <1>2, SeenChanges
  <2>3. i \in Indices /\ i \in 1 .. Stored'
    BY <2>1, <2>2, StoredGrows, HeldIsReceived, Lengths
  <2> QED BY <2>1, <2>3, ReceivedKept
<1> QED BY <1>1, <1>2

-----------------------------------------------------------------------------
(* The shadows, and the pipelines nobody waits for.                        *)

LEMMA HeadRemoved ==
    ASSUME NEW S, NEW s \in Seq(S), 1 \in DOMAIN s
    PROVE  /\ RemoveAt(s, 1) \in Seq(S)
           /\ Len(s) \in Nat /\ DOMAIN s = 1 .. Len(s)
           /\ DOMAIN RemoveAt(s, 1) = 1 .. Len(s) - 1
           /\ \A n \in DOMAIN RemoveAt(s, 1) :
                 n + 1 \in DOMAIN s /\ RemoveAt(s, 1)[n] = s[n + 1]
<1>1. Len(s) \in Nat \ {0} /\ DOMAIN s = 1 .. Len(s)
  OBVIOUS
<1>2. /\ SubSeq(s, 1, 1 - 1) = << >>
      /\ SubSeq(s, 1 + 1, Len(s)) \in Seq(S)
      /\ Len(SubSeq(s, 1 + 1, Len(s))) = Len(s) - 1
      /\ \A n \in 1 .. Len(s) - 1 : SubSeq(s, 1 + 1, Len(s))[n] = s[n + 1]
  BY <1>1
<1>3. RemoveAt(s, 1) = SubSeq(s, 1 + 1, Len(s))
  BY <1>2 DEF RemoveAt
<1>4. PICK t \in Seq(S) : t = RemoveAt(s, 1)
  BY <1>2, <1>3
<1>5. Len(t) = Len(s) - 1 /\ \A n \in 1 .. Len(s) - 1 : t[n] = s[n + 1]
  BY <1>2, <1>3, <1>4
<1>6. DOMAIN t = 1 .. Len(s) - 1
  BY <1>5
<1>7. \A n \in DOMAIN t : n + 1 \in DOMAIN s /\ t[n] = s[n + 1]
  BY <1>1, <1>5, <1>6
<1> QED BY <1>1, <1>4, <1>6, <1>7

LEMMA Appended ==
    ASSUME NEW S, NEW s \in Seq(S), NEW x \in S
    PROVE  /\ Append(s, x) \in Seq(S) /\ DOMAIN Append(s, x) = 1 .. Len(s) + 1
           /\ Len(s) \in Nat /\ DOMAIN s = 1 .. Len(s)
           /\ \A n \in DOMAIN s : Append(s, x)[n] = s[n]
           /\ Append(s, x)[Len(s) + 1] = x
OBVIOUS

LEMMA SettledGrows ==
    ASSUME SplitInv, [Next]_vars
    PROVE  /\ Len(settled) \in Nat /\ Len(settled') \in Nat
           /\ Len(settled) <= Len(settled') /\ Len(settled) <= Len(received)
           /\ Len(settled') <= Len(received')
           /\ Announce => Len(settled') = Len(settled) + Len(batch)
           /\ Announce \/ PersistFails \/ Crash \/ settled' = settled
<1>1. SplitInv'
  BY SplitStep
<1>2. /\ Len(settled) \in Nat /\ Len(batch) \in Nat /\ Len(buffer) \in Nat
      /\ Len(settled) <= Len(received)
  BY Lengths DEF SplitInv
<1>3. /\ Len(settled') \in Nat /\ Len(batch') \in Nat /\ Len(buffer') \in Nat
      /\ Len(received') = Len(settled') + Len(batch') + Len(buffer')
  <2>1. /\ settled' \in Seq(Nat) /\ batch' \in Seq(Nat) /\ buffer' \in Seq(Nat)
        /\ Len(received') = Len(settled') + Len(batch') + Len(buffer')
    BY <1>1 DEF SplitInv, Run
  <2> QED BY <2>1
<1>4. Announce \/ PersistFails => Len(settled') = Len(settled) + Len(batch)
  BY FlushEnded DEF Announce, PersistFails
<1>5. Crash => Len(settled') = Len(settled) + Len(batch) + Len(buffer)
  BY Lengths DEF Crash
<1>6. Announce \/ PersistFails \/ Crash \/ settled' = settled
  BY DEF Next, Enqueue, TimerTicks, Flush, Commit, UpdateShadow,
     ConnectionChanges, Shutdown, MqttEnds, Stop, Restart, Rest, vars
<1> QED BY <1>2, <1>3, <1>4, <1>5, <1>6

\* A reading settled stays so.
LEMMA SettledOfKept ==
    ASSUME SplitInv, [Next]_vars, NEW d, NEW i, SettledOf(d, i)
    PROVE  /\ SettledOf(d, i)' /\ i \in Indices /\ i \in Nat
           /\ i <= Len(settled) /\ received[i].device = d
BY SettledGrows, ReceivedKept DEF SettledOf

\* What a flush sends to Redis.
LEMMA SentOff ==
    ASSUME SplitInv, LatestInv, Announce
    PROVE  \E u \in Updates :
              /\ pipelines' = Append(pipelines, u)
              /\ DOMAIN u = DevicesOf(batch) /\ DOMAIN u \subseteq Devices
              /\ \A d \in DOMAIN u : IsLatest(batch, d, u[d])
              /\ \A d \in DOMAIN u : SettledOf(d, u[d])' /\ Len(settled) < u[d]
<1> DEFINE u == Latest(batch)
<1>1. pipelines' = Append(pipelines, u) /\ DOMAIN u = DevicesOf(batch) /\ [Next]_vars
  BY DEF Announce, Latest, Next
<1>2. \A d \in DOMAIN u : IsLatest(batch, d, u[d])
  BY <1>1, LatestOf DEF LatestInv
<1>3. Members(batch) = (Len(settled) + 1) .. Len(settled') /\ Len(settled) \in Nat
  BY <1>1, HeldIsReceived, SettledGrows
<1>4. Members(batch) \subseteq Indices /\ Indices \subseteq Nat
  BY <1>1, HeldIsReceived, ReceivedKept
<1>5. DOMAIN u \subseteq Devices
  BY <1>1, <1>4, ReceivedKept DEF DevicesOf
<1>6. u \in Updates
  <2>1. u = [d \in DOMAIN u |-> u[d]]
    BY DEF Latest
  <2>2. \A d \in DOMAIN u : u[d] \in Nat
    BY <1>2, <1>4 DEF IsLatest
  <2> HIDE DEF u
  <2>3. u \in [DOMAIN u -> Nat]
    BY <2>1, <2>2
  <2> QED BY <1>5, <2>3 DEF Updates
<1>7. ASSUME NEW v, v = u, NEW d \in DOMAIN v
      PROVE  SettledOf(d, v[d])' /\ Len(settled) < v[d]
  <2>1. v[d] \in Members(batch) /\ received[v[d]].device = d
    BY <1>2, <1>7 DEF IsLatest
  <2>2. v[d] \in 1 .. Len(settled') /\ Len(settled) < v[d]
    BY <1>3, <2>1
  <2>3. received'[v[d]] = received[v[d]]
    BY <1>1, <1>4, <2>1, ReceivedKept
  <2> QED BY <2>1, <2>2, <2>3 DEF SettledOf
<1>8. ASSUME NEW v, v = u
      PROVE  \A d \in DOMAIN v : SettledOf(d, v[d])' /\ Len(settled) < v[d]
  BY <1>7, <1>8
<1> HIDE DEF u
<1>9. PICK v \in Updates : v = u
  BY <1>6
<1> QED BY <1>1, <1>2, <1>5, <1>8, <1>9

LEMMA SettledKept ==
    ASSUME SplitInv, [Next]_vars, NEW t, NEW f, AllSettled(t, f)
    PROVE  AllSettled(t, f)'
<1>1. \A d, i : SettledOf(d, i) => SettledOf(d, i)'
  BY SettledOfKept
<1> QED BY <1>1 DEF AllSettled

\* A pipeline more, of later readings.
LEMMA OneMoreBehind ==
    ASSUME NEW t \in Seq(Updates), NEW f, NEW u \in Updates, NEW k \in Nat, Behind(t, f),
           \A n \in DOMAIN t : \A d \in DOMAIN t[n] : t[n][d] \in 1 .. k,
           \A d \in DOMAIN u : u[d] \in Nat /\ k < u[d],
           \A d \in DOMAIN u : f[d] # None => f[d] \in 1 .. k
    PROVE  /\ Append(t, u) \in Seq(Updates) /\ Behind(Append(t, u), f)
           /\ \A n \in DOMAIN Append(t, u) :
                 (n \in DOMAIN t /\ Append(t, u)[n] = t[n]) \/ Append(t, u)[n] = u
<1>1. PICK s \in Seq(Updates) : s = Append(t, u)
  BY Appended
<1>2. /\ DOMAIN s = 1 .. Len(t) + 1 /\ DOMAIN t = 1 .. Len(t) /\ Len(t) \in Nat
      /\ \A n \in DOMAIN t : s[n] = t[n]
      /\ s[Len(t) + 1] = u
  BY <1>1, Appended
<1>3. \A n \in DOMAIN s :
          (n \in DOMAIN t /\ s[n] = t[n]) \/ (n = Len(t) + 1 /\ s[n] = u)
  BY <1>2
<1>4. ASSUME NEW n \in DOMAIN s, NEW d \in DOMAIN s[n], f[d] # None PROVE f[d] <= s[n][d]
  <2>1. CASE n \in DOMAIN t /\ s[n] = t[n]
    BY <1>4, <2>1 DEF Behind
  <2>2. CASE s[n] = u
    <3>1. f[d] \in 1 .. k /\ u[d] \in Nat /\ k < u[d]
      BY <1>4, <2>2
    <3> QED BY <2>2, <3>1
  <2> QED BY <1>3, <2>1, <2>2
<1>5. ASSUME NEW n \in DOMAIN s, NEW m \in DOMAIN s, NEW d, n < m,
             d \in DOMAIN s[n], d \in DOMAIN s[m]
      PROVE  s[n][d] <= s[m][d]
  <2>1. n \in DOMAIN t /\ s[n] = t[n]
    BY <1>2, <1>3, <1>5
  <2>2. CASE m \in DOMAIN t /\ s[m] = t[m]
    BY <1>5, <2>1, <2>2 DEF Behind
  <2>3. CASE s[m] = u
    <3>1. t[n][d] \in 1 .. k /\ u[d] \in Nat /\ k < u[d]
      BY <1>5, <2>1, <2>3
    <3> QED BY <2>1, <2>3, <3>1
  <2> QED BY <1>3, <2>2, <2>3
<1>6. Behind(s, f)
  BY <1>4, <1>5 DEF Behind
<1> QED BY <1>1, <1>3, <1>6

\* The first pipeline is executed, or fails.
LEMMA HeadBehind ==
    ASSUME NEW t \in Seq(Updates), NEW f, 1 \in DOMAIN t, Behind(t, f)
    PROVE  /\ Behind(RemoveAt(t, 1), f)
           /\ Behind(RemoveAt(t, 1), Overwrite(f, t[1]))
<1>1. PICK s : s = RemoveAt(t, 1)
  OBVIOUS
<1>2. /\ DOMAIN s = 1 .. Len(t) - 1 /\ DOMAIN t = 1 .. Len(t) /\ Len(t) \in Nat
      /\ s \in Seq(Updates)
      /\ \A n \in DOMAIN s : n + 1 \in DOMAIN t /\ s[n] = t[n + 1]
  BY <1>1, HeadRemoved
<1>3. ASSUME NEW n \in DOMAIN s, NEW m \in DOMAIN s, NEW d, n < m,
             d \in DOMAIN s[n], d \in DOMAIN s[m]
      PROVE  s[n][d] <= s[m][d]
  <2>1. n + 1 \in DOMAIN t /\ m + 1 \in DOMAIN t /\ n + 1 < m + 1
    BY <1>2, <1>3
  <2>2. s[n] = t[n + 1] /\ s[m] = t[m + 1]
    BY <1>2
  <2> QED BY <1>3, <2>1, <2>2 DEF Behind
<1>4. ASSUME NEW n \in DOMAIN s, NEW d \in DOMAIN s[n]
      PROVE  /\ f[d] # None => f[d] <= s[n][d]
             /\ d \in DOMAIN t[1] => t[1][d] <= s[n][d]
  <2>1. n + 1 \in DOMAIN t /\ s[n] = t[n + 1] /\ 1 < n + 1
    BY <1>2
  <2> QED BY <1>4, <2>1 DEF Behind
<1>5. ASSUME NEW n \in DOMAIN s, NEW d \in DOMAIN s[n]
      PROVE  /\ d \in Devices
             /\ Overwrite(f, t[1])[d] # None => Overwrite(f, t[1])[d] <= s[n][d]
  <2>1. s[n] \in Updates
    BY <1>2
  <2>2. d \in Devices
    BY <2>1 DEF Updates
  <2> QED BY <1>4, <2>2 DEF Overwrite
<1>6. Behind(s, f)
  BY <1>3, <1>4 DEF Behind
<1>7. Behind(s, Overwrite(f, t[1]))
  BY <1>3, <1>5 DEF Behind
<1> QED BY <1>1, <1>6, <1>7

LEMMA PipelinesStep ==
    ASSUME SplitInv, LatestInv, PipelinesInv, [Next]_vars PROVE PipelinesInv'
<1>0. PICK t, f : t = pipelines /\ f = shadow
  OBVIOUS
<1>1. t \in Seq(Updates) /\ AllSettled(t, f) /\ AllSettled(t, f)' /\ Behind(t, f)
  BY <1>0, SettledKept DEF PipelinesInv
<1>2. ASSUME NEW s \in Seq(Updates), NEW g, AllSettled(s, g)', Behind(s, g),
             pipelines' = s, shadow' = g
      PROVE  PipelinesInv'
  BY <1>2 DEF PipelinesInv, AllSettled, Behind
<1>3. CASE Announce
  <2>1. PICK u \in Updates :
          /\ pipelines' = Append(t, u) /\ DOMAIN u \subseteq Devices
          /\ \A d \in DOMAIN u : SettledOf(d, u[d])' /\ Len(settled) < u[d]
    BY <1>0, <1>3, SentOff
  <2>2. PICK k \in Nat : k = Len(settled)
    BY SettledGrows
  <2>3. \A d, i : SettledOf(d, i) => i \in 1 .. k
    BY <2>2, SettledGrows DEF SettledOf
  <2>4. /\ \A n \in DOMAIN t : \A d \in DOMAIN t[n] : t[n][d] \in 1 .. k
        /\ \A d \in DOMAIN u : f[d] # None => f[d] \in 1 .. k
    BY <1>1, <2>1, <2>3 DEF AllSettled
  <2>5. \A d \in DOMAIN u : u[d] \in Nat /\ k < u[d]
    BY <2>1, <2>2, SettledGrows DEF SettledOf
  <2>6. PICK s : s = Append(t, u)
    OBVIOUS
  <2>7. /\ s \in Seq(Updates) /\ Behind(s, f)
        /\ \A n \in DOMAIN s : (n \in DOMAIN t /\ s[n] = t[n]) \/ s[n] = u
    BY <1>1, <2>4, <2>5, <2>6, OneMoreBehind
  <2>8. AllSettled(s, f)'
    BY <1>1, <2>1, <2>7 DEF AllSettled
  <2>9. shadow' = f
    BY <1>0, <1>3 DEF Announce
  <2> QED BY <1>2, <2>1, <2>6, <2>7, <2>8, <2>9
<1>4. CASE UpdateShadow
  <2>1. /\ 1 \in DOMAIN t /\ pipelines' = RemoveAt(t, 1)
        /\ shadow' = f \/ shadow' = Overwrite(f, t[1])
    BY <1>0, <1>4 DEF UpdateShadow, InOrderOfIssue
  <2>2. PICK s : s = RemoveAt(t, 1)
    OBVIOUS
  <2>3. /\ s \in Seq(Updates)
        /\ \A n \in DOMAIN s : n + 1 \in DOMAIN t /\ s[n] = t[n + 1]
    BY <1>1, <2>1, <2>2, HeadRemoved
  <2>4. Behind(s, f) /\ Behind(s, Overwrite(f, t[1]))
    BY <1>1, <2>1, <2>2, HeadBehind
  <2>5. AllSettled(s, f)'
    BY <1>1, <2>3 DEF AllSettled
  <2>6. AllSettled(s, Overwrite(f, t[1]))'
    BY <1>1, <2>1, <2>3 DEF AllSettled, Overwrite
  <2>7. PICK g : g = Overwrite(f, t[1])
    OBVIOUS
  <2> QED BY <1>2, <2>1, <2>2, <2>3, <2>4, <2>5, <2>6, <2>7
<1>5. CASE Crash
  <2>1. pipelines' = << >> /\ shadow' = f
    BY <1>0, <1>5 DEF Crash, stores
  <2>2. << >> \in Seq(Updates) /\ Behind(<< >>, f) /\ AllSettled(<< >>, f)'
    BY <1>1 DEF Behind, AllSettled
  <2> QED BY <1>2, <2>1, <2>2
<1>6. CASE UNCHANGED <<pipelines, shadow>>
  BY <1>0, <1>1, <1>2, <1>6
<1> QED
  BY <1>3, <1>4, <1>5, <1>6
     DEF Next, Enqueue, TimerTicks, Flush, Commit, PersistFails, ConnectionChanges,
         Shutdown, MqttEnds, Stop, Restart, Rest, vars, stores, process

LEMMA NothingFailsBefore ==
    ASSUME NothingFailedInv, [Next]_vars, failures' = 0, crashes' = 0
    PROVE  failures = 0 /\ crashes = 0
<1>1. /\ failures' = failures \/ failures' = failures + 1
      /\ crashes' = crashes \/ crashes' = crashes + 1
  BY DEF Next, Enqueue, TimerTicks, Flush, Commit, PersistFails, Announce, UpdateShadow,
     ConnectionChanges, Shutdown, MqttEnds, Stop, Crash, Restart, Rest, vars, bounds
<1> QED BY <1>1 DEF NothingFailedInv

\* The rows that are settled: those that were, or those of the batch announced.
LEMMA SettledRows ==
    ASSUME SplitInv, RowsInv, NothingFailedInv, [Next]_vars, failures' = 0, crashes' = 0,
           NEW i \in Members(rows'), i <= Len(settled')
    PROVE  /\ i \in Nat /\ i <= Len(received) /\ (i \in Indices \/ i = 0)
           /\ \/ i \in Members(rows) /\ i <= Len(settled)
              \/ Announce /\ i \in Members(batch)
<1>0. failures = 0 /\ crashes = 0
  BY NothingFailsBefore
<1>1. /\ Len(settled) \in Nat /\ Len(batch) \in Nat /\ Len(settled) <= Len(received)
      /\ Len(settled) + Len(batch) <= Len(received) /\ Indices = 1 .. Len(received)
  BY Lengths, ReceivedKept DEF SplitInv
<1>2. Members(rows) \subseteq Nat
  BY DEF RowsInv, Members
<1>3. CASE Commit
  <2>1. Members(rows') = Members(rows) \union Members(batch) /\ settled' = settled
    BY <1>3, Joined DEF Commit, Write, RowsInv
  <2> QED BY <1>1, <1>2, <2>1, HeldIsReceived
<1>4. CASE PersistFails
  <2>1. rows' = rows /\ stage = "inserting"
    BY <1>0, <1>4 DEF PersistFails
  <2>2. i <= Len(settled)
    BY <2>1 DEF RowsInv
  <2> QED BY <1>1, <1>2, <2>1, <2>2
<1>5. CASE Announce
  <2>1. rows' = rows /\ Len(settled') = Len(settled) + Len(batch)
    BY <1>5, SettledGrows DEF Announce
  <2> QED BY <1>1, <1>2, <1>5, <2>1, HeldIsReceived
<1>6. ~Crash
  BY <1>0 DEF Crash
<1>7. CASE UNCHANGED <<rows, settled>>
  BY <1>1, <1>2, <1>7
<1> QED
  BY <1>3, <1>4, <1>5, <1>6, <1>7
     DEF Next, Enqueue, TimerTicks, Flush, UpdateShadow, ConnectionChanges,
         Shutdown, MqttEnds, Stop, Restart, Rest, vars, stores

\* What is shown of a device stays so, or gives way to a later reading.
LEMMA ShownStep ==
    ASSUME SplitInv, LatestInv, PipelinesInv, [Next]_vars, ~Crash,
           failures \in Nat, failures' = failures,
           NEW d \in Devices, NEW j \in Indices, Shown(pipelines, shadow, d, j)
    PROVE  \E k \in Indices :
              /\ received[k].device = d /\ received[j].device = d /\ j <= k
              /\ Shown(pipelines', shadow', d, k)
<1>0. PICK t, f : t = pipelines /\ f = shadow
  OBVIOUS
<1>1. t \in Seq(Updates) /\ AllSettled(t, f) /\ Behind(t, f) /\ Shown(t, f, d, j)
  BY <1>0 DEF PipelinesInv
<1>2. received[j].device = d /\ j <= j
  <2>1. j # None /\ j <= j
    BY ReceivedKept, IngestionAssumption
  <2> QED BY <1>1, <2>1 DEF Shown, AllSettled, SettledOf
<1>3. CASE Announce
  <2>1. PICK u \in Updates : pipelines' = Append(t, u) /\ shadow' = f
    BY <1>0, <1>3, SentOff DEF Announce
  <2>2. \A n \in DOMAIN t : n \in DOMAIN Append(t, u) /\ Append(t, u)[n] = t[n]
    BY <1>1, Appended
  <2>3. Shown(Append(t, u), f, d, j)
    BY <1>1, <2>2 DEF Shown
  <2> QED BY <1>2, <2>1, <2>3
<1>4. CASE UpdateShadow
  <2>1. /\ 1 \in DOMAIN t /\ pipelines' = RemoveAt(t, 1)
        /\ shadow' = Overwrite(f, t[1])
    BY <1>0, <1>4 DEF UpdateShadow, InOrderOfIssue
  <2>2. PICK s : s = RemoveAt(t, 1)
    OBVIOUS
  <2>3. /\ DOMAIN s = 1 .. Len(t) - 1 /\ DOMAIN t = 1 .. Len(t) /\ Len(t) \in Nat
        /\ \A n \in DOMAIN s : s[n] = t[n + 1]
    BY <1>1, <2>1, <2>2, HeadRemoved
  <2>4. ASSUME NEW k \in Indices, received[k].device = d, j <= k,
               Shown(s, Overwrite(f, t[1]), d, k)
        PROVE  \E l \in Indices :
                  /\ received[l].device = d /\ received[j].device = d /\ j <= l
                  /\ Shown(pipelines', shadow', d, l)
    BY <1>2, <2>1, <2>2, <2>4
  <2>5. CASE f[d] = j /\ d \in DOMAIN t[1]
    <3>1. PICK k : k = t[1][d]
      OBVIOUS
    <3>2. k \in Indices /\ received[k].device = d
      BY <1>1, <2>1, <2>5, <3>1, SettledOfKept DEF AllSettled
    <3>3. j <= k
      BY <1>1, <2>1, <2>5, <3>1, ReceivedKept, IngestionAssumption DEF Behind
    <3>4. Shown(s, Overwrite(f, t[1]), d, k)
      BY <2>5, <3>1 DEF Shown, Overwrite
    <3> QED BY <2>4, <3>2, <3>3, <3>4
  <2>6. CASE f[d] = j /\ d \notin DOMAIN t[1]
    <3>1. Shown(s, Overwrite(f, t[1]), d, j)
      BY <2>6 DEF Shown, Overwrite
    <3> QED BY <1>2, <2>4, <3>1
  <2>7. ASSUME NEW n \in DOMAIN t, d \in DOMAIN t[n], t[n][d] = j
        PROVE  Shown(s, Overwrite(f, t[1]), d, j)
    <3>1. CASE n = 1
      BY <2>7, <3>1 DEF Shown, Overwrite
    <3>2. CASE n # 1
      <4>1. n - 1 \in DOMAIN s /\ s[n - 1] = t[n]
        BY <2>3, <3>2
      <4> QED BY <2>7, <4>1 DEF Shown
    <3> QED BY <3>1, <3>2
  <2> QED BY <1>1, <1>2, <2>4, <2>5, <2>6, <2>7 DEF Shown
<1>5. CASE UNCHANGED <<pipelines, shadow>>
  BY <1>0, <1>1, <1>2, <1>5
<1> QED
  BY <1>3, <1>4, <1>5
     DEF Next, Enqueue, TimerTicks, Flush, Commit, PersistFails, ConnectionChanges,
         Shutdown, MqttEnds, Stop, Restart, Rest, vars, stores, process

LEMMA CoverStep ==
    ASSUME DevicesReportInOrder, SplitInv, RowsInv, NothingFailedInv, OrderInv, LatestInv,
           PipelinesInv, CoverInv, 0 \notin Members(rows), 0 \notin Members(rows'),
           [Next]_vars
    PROVE  CoverInv'
<1> SUFFICES ASSUME failures' = 0, crashes' = 0, NEW i \in Members(rows'), i <= Len(settled')
             PROVE  \E j \in Indices' :
                        /\ Timestamp(i)' <= Timestamp(j)'
                        /\ Shown(pipelines', shadow', received'[i].device, j)
  BY DEF CoverInv, Members, Shown
<1>1. failures = 0 /\ crashes = 0 /\ ~Crash
  BY NothingFailsBefore DEF Crash, NothingFailedInv
<1>2. i \in Indices /\ received'[i] = received[i] /\ Timestamp(i)' = Timestamp(i)
  BY SettledRows, ReceivedKept
<1>3. PICK d \in Devices : d = received[i].device
  BY <1>2, ReceivedKept
<1>4. ASSUME NEW j \in Indices, Timestamp(i) <= Timestamp(j), Shown(pipelines', shadow', d, j)
      PROVE  \E k \in Indices' :
                 /\ Timestamp(i)' <= Timestamp(k)'
                 /\ Shown(pipelines', shadow', received'[i].device, k)
  <2>1. j \in Indices' /\ Timestamp(j)' = Timestamp(j)
    BY ReceivedKept
  <2> QED BY <1>2, <1>3, <1>4, <2>1
<1>5. CASE i \in Members(rows) /\ i <= Len(settled)
  <2>1. PICK j \in Indices : Timestamp(i) <= Timestamp(j) /\ Shown(pipelines, shadow, d, j)
    BY <1>1, <1>3, <1>5 DEF CoverInv
  <2>2. PICK k \in Indices :
           /\ received[k].device = d /\ received[j].device = d /\ j <= k
           /\ Shown(pipelines', shadow', d, k)
    BY <1>1, <2>1, ShownStep
  <2>3. Timestamp(j) <= Timestamp(k)
    BY <2>2, ReceivedKept DEF OrderInv
  <2>4. Timestamp(i) <= Timestamp(k)
    BY <1>2, <2>1, <2>3, ReceivedKept
  <2> QED BY <1>4, <2>2, <2>4
<1>6. CASE Announce /\ i \in Members(batch)
  <2>1. PICK u \in Updates :
          /\ pipelines' = Append(pipelines, u) /\ DOMAIN u = DevicesOf(batch)
          /\ \A e \in DOMAIN u : IsLatest(batch, e, u[e])
    BY <1>6, SentOff
  <2>2. d \in DOMAIN u
    BY <1>3, <1>6, <2>1 DEF DevicesOf
  <2>3. PICK j : j = u[d]
    OBVIOUS
  <2>4. IsLatest(batch, d, j)
    BY <2>1, <2>2, <2>3
  <2>5. j \in Indices /\ Supersedes(j, i)
    BY <1>3, <1>6, <2>4, HeldIsReceived DEF IsLatest
  <2>6. Timestamp(i) <= Timestamp(j)
    BY <1>2, <2>5, ReceivedKept DEF Supersedes, Timestamp
  <2>7. Shown(pipelines', shadow', d, j)
    <3>1. pipelines \in Seq(Updates)
      BY DEF PipelinesInv
    <3>2. Len(pipelines) + 1 \in DOMAIN Append(pipelines, u)
          /\ Append(pipelines, u)[Len(pipelines) + 1] = u
      BY <3>1, Appended
    <3> QED BY <2>1, <2>2, <2>3, <3>2 DEF Shown
  <2> QED BY <1>4, <2>5, <2>6, <2>7
<1> QED BY <1>5, <1>6, SettledRows

LEMMA CountsStep ==
    ASSUME SplitInv, RowsInv, ShutdownInv, CountsInv, [Next]_vars PROVE CountsInv'
<1>1. 0 \notin Members(rows')
  <2>1. CASE rows' = rows
    BY <2>1 DEF CountsInv
  <2>2. CASE rows' = rows \o batch /\ stage = "inserting"
    <3>1. Members(rows') = Members(rows) \union Members(batch)
      BY <2>2, Joined DEF RowsInv
    <3> QED BY <3>1, HeldIsReceived, Lengths DEF CountsInv
  <2> QED
    BY <2>1, <2>2
       DEF Next, Enqueue, TimerTicks, Flush, Commit, Write, PersistFails, Announce,
           UpdateShadow, ConnectionChanges, Shutdown, MqttEnds, Stop, Crash, Restart,
           Rest, vars, stores
<1>2. stage' # "idle" => batch' # << >>
  BY DEF CountsInv, Next, Enqueue, TimerTicks, Flush, MayStart, Commit, PersistFails,
     Announce, EndFlush, UpdateShadow, ConnectionChanges, Shutdown, MqttEnds, Stop, Crash,
     Restart, Rest, vars, process
<1>5. outgrown' \in BOOLEAN
  BY DEF CountsInv, Next, Enqueue, TimerTicks, Flush, Commit, PersistFails, Announce,
     UpdateShadow, ConnectionChanges, Shutdown, MqttEnds, Stop, Crash, Restart,
     Rest, vars, TooLarge
<1>3. /\ chained' \in 0 .. MaxChained + 1
      /\ phase' = "running" => chained' <= MaxChained
      /\ phase' = "down" => chained' = 0
  <2>1. MaxChained \in Nat
    BY IngestionAssumption
  <2> QED
    BY <2>1, SMTT(60)
       DEF CountsInv, ShutdownInv, Next, Enqueue, TimerTicks, Flush, MayStart, Commit,
           PersistFails, Announce, UpdateShadow, ConnectionChanges, Shutdown, MqttEnds,
           Stop, Crash, Restart, Rest, vars, process
<1>4. awaited' \in 0 .. MaxChained + 2
  <2>1. MaxChained \in Nat
    BY IngestionAssumption
  <2> QED
    BY <2>1, SMTT(60)
       DEF CountsInv, Next, Enqueue, TimerTicks, Flush, FlushEnds, Commit, PersistFails,
           Announce, EndFlush, UpdateShadow, ConnectionChanges, Shutdown,
           AwaitedAtShutdown, MqttEnds, Stop, Crash, Restart, Rest, vars, process
<1> QED BY <1>1, <1>2, <1>3, <1>4, <1>5 DEF CountsInv, Members

-----------------------------------------------------------------------------

ShadowInv == IInv /\ StoresInv /\ CountsInv

LEMMA ShadowInitially == Init => ShadowInv
<1> SUFFICES ASSUME Init PROVE ShadowInv
  OBVIOUS
<1>1. OrderInv /\ LatestInv
  BY DEF Init, OrderInv, Indices, LatestInv, HasLatest, DevicesOf, Members
<1>2. SeenInv /\ PipelinesInv
  BY DEF Init, SeenInv, PipelinesInv, AllSettled, Behind
<1>3. CoverInv
  BY DEF Init, CoverInv, Members
<1>4. CountsInv
  <2>1. MaxChained \in Nat
    BY IngestionAssumption
  <2>2. Members(rows) = {}
    BY DEF Init, Members
  <2>3. outgrown \in BOOLEAN
    BY DEF Init
  <2>4. chained = 0 /\ awaited = 0 /\ stage = "idle" /\ phase = "running"
    BY DEF Init
  <2> QED BY <2>1, <2>2, <2>3, <2>4 DEF CountsInv
<1> QED BY <1>1, <1>2, <1>3, <1>4, Initially DEF ShadowInv, StoresInv

LEMMA ShadowInductive == Spec => []ShadowInv
<1>1. ShadowInv /\ [Next]_vars => ShadowInv'
  <2> SUFFICES ASSUME ShadowInv, [Next]_vars PROVE ShadowInv'
    OBVIOUS
  <2>1. IInv'
    BY SplitStep, RowsStep, NothingFailedStep, ShutdownStep DEF IInv, ShadowInv
  <2>2. OrderInv' /\ LatestInv' /\ SeenInv' /\ PipelinesInv'
    BY OrderStep, LatestStep, SeenStep, PipelinesStep DEF IInv, ShadowInv, StoresInv
  <2>3. CountsInv'
    BY CountsStep DEF IInv, ShadowInv
  <2>4. 0 \notin Members(rows) /\ 0 \notin Members(rows')
    BY <2>3 DEF CountsInv, ShadowInv, Members
  <2>5. DevicesReportInOrder => CoverInv'
    BY <2>4, CoverStep DEF IInv, ShadowInv, StoresInv
  <2> QED BY <2>1, <2>2, <2>3, <2>5 DEF ShadowInv, StoresInv
<1> QED BY ShadowInitially, <1>1, PTL DEF Spec

\* The service's variables have their types: whatever is held, stored or
\* announced has been received, a flush runs exactly when it has a batch, and
\* flushes are chained and awaited within their bounds.
THEOREM TypeCorrect == Spec => []TypeOK
<1>1. ShadowInv => TypeOK
  <2> SUFFICES ASSUME ShadowInv PROVE TypeOK
    OBVIOUS
  <2>1. /\ SplitInv /\ RowsInv /\ ShutdownInv /\ SeenInv /\ PipelinesInv /\ CountsInv
        /\ received \in Seq(Readings) /\ Indices = 1 .. Len(received)
        /\ Len(settled) \in Nat /\ Len(batch) \in Nat /\ Len(buffer) \in Nat
        /\ Len(received) = Len(settled) + Len(batch) + Len(buffer)
        /\ Len(received) \in Nat
    BY Lengths DEF ShadowInv, StoresInv, IInv, SplitInv, Indices
  <2>2. Members(settled) \subseteq Indices
    BY <2>1, RunMembers DEF SplitInv
  <2>3. Members(rows) \subseteq Indices
    <3>1. Members(rows) \subseteq Nat \ {0}
      <4>1. rows \in Seq(Nat) /\ 0 \notin Members(rows)
        BY <2>1 DEF RowsInv, CountsInv
      <4> QED BY <4>1 DEF Members
    <3>2. \A x \in Members(rows) : x <= Len(received)
      BY <2>1, <3>1 DEF RowsInv
    <3> QED BY <2>1, <3>1, <3>2
  <2>4. /\ Members(buffer) \subseteq Indices /\ Members(batch) \subseteq Indices
        /\ Members(events) \subseteq Indices
    BY <2>1, <2>3, HeldIsReceived DEF RowsInv
  <2>5. ASSUME NEW d \in Devices
        PROVE  lastSeen[d] \in Times \union {None} /\ shadow[d] \in Indices \union {None}
    <3>1. lastSeen[d] # None => lastSeen[d] \in Times
      <4> SUFFICES ASSUME lastSeen[d] # None PROVE lastSeen[d] \in Times
        OBVIOUS
      <4>1. PICK i \in 1 .. Stored : lastSeen[d] = Timestamp(i)
        BY <2>1 DEF SeenInv
      <4>2. i \in 1 .. Len(received)
        BY <2>1, <4>1 DEF Stored
      <4> QED BY <2>1, <4>1, <4>2 DEF Times, Timestamp
    <3>2. shadow[d] # None => shadow[d] \in Indices
      BY <2>1 DEF PipelinesInv, AllSettled, SettledOf
    <3> QED BY <3>1, <3>2
  <2>6. (stage = "idle") = (batch = << >>)
    BY <2>1 DEF SplitInv, CountsInv
  <2>7. outgrown \in BOOLEAN
    BY <2>1 DEF CountsInv
  <2>8. /\ phase \in {"running", "stopping", "stopped", "down"}
        /\ stage \in {"idle", "inserting", "committed"}
        /\ chained \in 0 .. MaxChained + 1 /\ awaited \in 0 .. MaxChained + 2
        /\ inTime \in 0 .. Len(received)
    BY <2>1 DEF SplitInv, ShutdownInv, CountsInv
  <2> QED BY <2>1, <2>2, <2>3, <2>4, <2>5, <2>6, <2>7, <2>8 DEF TypeOK
<1> QED BY <1>1, ShadowInductive, PTL

\* The shadow of a device has caught up with the table once the pipelines nobody
\* waits for have been executed, where nothing has failed.  Readings that come
\* late defeat it: the hypothesis is the run's, and IngestionStaleShadow's
\* counterexample is what happens without it.
THEOREM ShadowCatchesUp ==
    ASSUME DevicesReportInOrder PROVE Spec => []ShadowIsLatest
<1>1. ShadowInv => ShadowIsLatest
  <2> SUFFICES ASSUME ShadowInv, pipelines = << >>, stage = "idle", failures = 0,
                      crashes = 0, NEW i \in Members(rows), NEW d, d = received[i].device
               PROVE  shadow[d] # None /\ Timestamp(shadow[d]) >= Timestamp(i)
    BY DEF ShadowIsLatest
  <2>1. i <= Len(settled)
    BY DEF ShadowInv, IInv, RowsInv
  <2>2. PICK j \in Indices : Timestamp(i) <= Timestamp(j) /\ Shown(pipelines, shadow, d, j)
    BY <2>1 DEF ShadowInv, StoresInv, CoverInv
  <2>3. shadow[d] = j
    BY <2>2 DEF Shown
  <2>4. j # None
    BY IngestionAssumption DEF ShadowInv, IInv, SplitInv, Indices
  <2>5. Timestamp(i) \in Nat /\ Timestamp(j) \in Nat
    <3>1. received \in Seq(Readings) /\ Indices = 1 .. Len(received)
      BY DEF ShadowInv, IInv, SplitInv, Indices
    <3>2. Len(settled) \in Nat /\ Len(settled) <= Len(received)
      BY Lengths DEF ShadowInv, IInv, SplitInv
    <3>3. i \in Nat /\ i # 0
      BY DEF ShadowInv, IInv, RowsInv, CountsInv, Members
    <3>4. i \in Indices /\ j \in Indices
      BY <2>1, <3>1, <3>2, <3>3
    <3>5. received[i] \in Readings /\ received[j] \in Readings
      BY <3>1, <3>4
    <3> QED BY <3>5, IngestionAssumption DEF Timestamp
  <2> QED BY <2>2, <2>3, <2>4, <2>5
<1> QED BY <1>1, ShadowInductive, PTL

\* No step takes the shadow or the registry of a device back in time, where its
\* readings come in order: batches take effect in the order of arrival, and so
\* do the pipelines, however late they are executed and whichever fail.
THEOREM NeverBack ==
    ASSUME DevicesReportInOrder PROVE Spec => DevicesNeverGoBack
<1>1. ASSUME ShadowInv, [Next]_vars, NEW d \in Devices, lastSeen[d] # None
      PROVE  lastSeen'[d] >= lastSeen[d]
  <2>0. SplitInv /\ LatestInv /\ SeenInv /\ OrderInv
    BY <1>1 DEF ShadowInv, IInv, StoresInv
  <2>1. PICK j \in 1 .. Stored : received[j].device = d /\ lastSeen[d] = Timestamp(j)
    BY <1>1, <2>0 DEF SeenInv
  <2>2. j \in Indices /\ Timestamp(j) \in Nat
    BY <1>1, <2>0, StoredGrows, ReceivedKept
  <2>3. CASE lastSeen'[d] = lastSeen[d]
    BY <2>1, <2>2, <2>3
  <2>4. ASSUME stage = "inserting", NEW i \in Members(batch), received[i].device = d,
               lastSeen'[d] = Timestamp(i)
        PROVE  lastSeen'[d] >= lastSeen[d]
    <3>1. j < i /\ i \in Indices
      BY <2>0, <2>1, <2>2, <2>4, HeldIsReceived, Lengths DEF Stored
    <3>2. Timestamp(j) <= Timestamp(i) /\ Timestamp(i) \in Nat
      BY <1>1, <2>0, <2>1, <2>2, <2>4, <3>1, ReceivedKept DEF OrderInv
    <3> QED BY <2>1, <2>2, <2>4, <3>2
  <2> QED BY <1>1, <2>0, <2>3, <2>4, SeenChanges
<1>2. ASSUME ShadowInv, [Next]_vars, NEW d \in Devices, shadow[d] # None
      PROVE  Timestamp(shadow[d])' >= Timestamp(shadow[d])
  <2>0. SplitInv /\ LatestInv /\ OrderInv /\ PipelinesInv
    BY <1>2 DEF ShadowInv, IInv, StoresInv
  <2>1. PICK j, k : j = shadow[d] /\ k = shadow'[d]
    OBVIOUS
  <2>2. SettledOf(d, j) /\ j \in Indices /\ received[j].device = d
    BY <1>2, <2>0, <2>1, SettledOfKept DEF PipelinesInv, AllSettled
  <2>3. CASE k = j
    <3>1. Timestamp(j)' = Timestamp(j) /\ Timestamp(j) \in Nat
      BY <1>2, <2>0, <2>2, ReceivedKept
    <3> QED BY <2>1, <2>3, <3>1 DEF Timestamp
  <2>4. CASE k # j
    <3>1. /\ 1 \in DOMAIN pipelines /\ d \in DOMAIN pipelines[1] /\ k = pipelines[1][d]
      <4>1. shadow' # shadow
        BY <2>1, <2>4
      <4>2. UpdateShadow
        BY <1>2, <4>1
           DEF Next, Enqueue, TimerTicks, Flush, Commit, PersistFails, Announce,
               ConnectionChanges, Shutdown, MqttEnds, Stop, Crash, Restart, Rest, vars,
               stores
      <4>3. 1 \in DOMAIN pipelines /\ shadow' = Overwrite(shadow, pipelines[1])
        BY <4>1, <4>2 DEF UpdateShadow, InOrderOfIssue
      <4> QED BY <2>1, <2>4, <4>3 DEF Overwrite
    <3>2. SettledOf(d, k) /\ k \in Indices /\ received[k].device = d
      BY <1>2, <2>0, <3>1, SettledOfKept DEF PipelinesInv, AllSettled
    <3>3. j <= k
      BY <1>2, <2>0, <2>1, <3>1 DEF PipelinesInv, Behind
    <3>4. Timestamp(j) <= Timestamp(k)
      BY <1>2, <2>0, <2>2, <2>4, <3>2, <3>3, ReceivedKept DEF OrderInv
    <3>5. /\ Timestamp(j) \in Nat /\ Timestamp(k) \in Nat
          /\ Timestamp(k)' = Timestamp(k)
      BY <1>2, <2>0, <2>2, <3>2, ReceivedKept
    <3> QED BY <2>1, <3>4, <3>5 DEF Timestamp
  <2> QED BY <2>3, <2>4
<1>3. ShadowInv /\ [Next]_vars =>
          [\A d \in Devices :
              /\ lastSeen[d] # None => lastSeen'[d] >= lastSeen[d]
              /\ shadow[d] # None => Timestamp(shadow[d])' >= Timestamp(shadow[d])]_vars
  BY <1>1, <1>2
<1> QED BY <1>3, ShadowInductive, PTL DEF Spec, DevicesNeverGoBack

=============================================================================
