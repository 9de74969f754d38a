-------------------------- MODULE DeviceLinkProofs --------------------------
(***************************************************************************)
(* The way of a reading to the ingestion service, for any number of        *)
(* readings, connections, outages and refusals.                            *)
(***************************************************************************)
EXTENDS DeviceLink, TLAPS, FiniteSetTheorems, SequenceTheorems

-----------------------------------------------------------------------------
(* The invariants.                                                         *)

\* The timers set are those of the connections made; the shutdown clears the
\* last.
TimersInv ==
    /\ interval \in Nat /\ connects \in Nat /\ timer = connects
    /\ made \in Seq(Nat) /\ stopping \in Nat \union {-1}
    /\ timers \subseteq 1 .. connects /\ due \subseteq timers
    /\ stopping # -1 => timers \subseteq 1 .. connects - 1
    /\ stopping # -1 /\ connects <= 1 => Len(made) = stopping

\* Of the readings made in this interval there are as many as timers have fired,
\* and no more timers fire than there were connections.
PaceInv ==
    /\ \A i \in DOMAIN made : made[i] <= interval
    /\ \A i, j \in DOMAIN made : i <= j => made[i] <= made[j]
    /\ \A i \in DOMAIN made : i + connects \in DOMAIN made => made[i] < made[i + connects]
    /\ \A i \in DOMAIN made :
          i + connects - Cardinality(due) <= Len(made) => made[i] < interval

\* What the simulator's client holds, of which the broker has taken the first
\* takenHere; and what the broker has passed on.
Held == sent \o outbox
Passed == arrived \o outbound
QueuesInv ==
    /\ sent \in Seq(Nat) /\ outbox \in Seq(Nat)
    /\ arrived \in Seq(Nat) /\ outbound \in Seq(Nat)
    /\ takenHere \in 0 .. Len(sent)
    /\ connects = 0 => ~simOnline /\ sent = << >> /\ Passed = << >>

\* The client holds readings in the order made; on the first connection, what
\* the broker has passed on comes before what it has not taken.
Increasing(s) == \A i, j \in DOMAIN s : i < j => s[i] < s[j]
OrderInv ==
    /\ \A i \in DOMAIN Held : Held[i] <= Len(made)
    /\ \A i \in DOMAIN Passed : Passed[i] <= Len(made)
    /\ Increasing(Held)
    /\ connects <= 1 =>
          /\ Increasing(Passed)
          /\ \A i \in DOMAIN Passed, j \in DOMAIN Held : takenHere < j => Passed[i] < Held[j]

\* Every connection passes a reading on at most once, and leaves room for it until
\* the broker has taken it.
Positions(s, m) == {i \in DOMAIN s : s[i] = m}
Awaited(m) == \E j \in DOMAIN Held : takenHere < j /\ Held[j] = m
RepeatsInv ==
    connects > 0 =>
        \A m \in Nat : Cardinality(Positions(Passed, m))
                          <= IF Awaited(m) THEN connects - 1 ELSE connects

IInv == TimersInv /\ PaceInv /\ QueuesInv /\ OrderInv /\ RepeatsInv

-----------------------------------------------------------------------------
(* The timers.                                                             *)

LEMMA Appended ==
    ASSUME NEW S, NEW p \in Seq(S), NEW x \in S
    PROVE  /\ Append(p, x) \in Seq(S) /\ DOMAIN Append(p, x) = 1 .. Len(p) + 1
           /\ Len(p) \in Nat /\ DOMAIN p = 1 .. Len(p) /\ Len(Append(p, x)) = Len(p) + 1
           /\ \A n \in DOMAIN p : Append(p, x)[n] = p[n]
           /\ Append(p, x)[Len(p) + 1] = x
OBVIOUS

LEMMA TimersStep == ASSUME TimersInv, [Next]_vars PROVE TimersInv'
<1>0. connects \in Nat /\ interval \in Nat /\ Len(made) \in Nat
  BY DEF TimersInv
<1>1. CASE NextInterval
  BY <1>0, <1>1 DEF NextInterval, TimersInv, upstream
<1>2. CASE Tick
  <2>1. Append(made, interval) \in Seq(Nat) /\ Len(Append(made, interval)) = Len(made) + 1
    BY Appended DEF TimersInv
  <2>2. due # {} /\ timers # {}
    BY <1>2 DEF Tick, TimersInv
  <2>3. ~(stopping # -1 /\ connects <= 1)
    <3>1. connects <= 1 => 1 .. connects - 1 = {}
      BY <1>0
    <3> QED BY <2>2, <3>1 DEF TimersInv
  <2> QED BY <1>2, <2>1, <2>3 DEF Tick, TimersInv
<1>3. CASE SimulatorConnects
  <2>1. timers \union {connects + 1} \subseteq 1 .. connects + 1
    BY <1>0 DEF TimersInv
  <2> QED BY <1>0, <1>3, <2>1 DEF SimulatorConnects, TimersInv
<1>4. CASE Shutdown
  <2>1. timers' \subseteq 1 .. connects - 1 /\ timers' \subseteq timers
    BY <1>0, <1>4 DEF Shutdown, ClearTimer, TimersInv
  <2>2. due' \subseteq timers'
    BY <1>4 DEF Shutdown
  <2>3. UNCHANGED <<interval, timer, made, connects>> /\ stopping' = Len(made)
    BY <1>4 DEF Shutdown, upstream
  <2> QED BY <1>0, <2>1, <2>2, <2>3 DEF TimersInv
<1>5. CASE UNCHANGED <<interval, connects, timer, made, stopping, timers, due>>
  BY <1>5 DEF TimersInv
<1> QED
  BY <1>1, <1>2, <1>3, <1>4, <1>5
     DEF Next, SimulatorLoses, Send, Acknowledged, Take, Deliver, SubscriberConnects,
         Answered, SubscriberLoses, Rest, vars, simulator, upstream

LEMMA DueBounded ==
    ASSUME TimersInv
    PROVE  /\ IsFiniteSet(timers) /\ IsFiniteSet(due)
           /\ Cardinality(timers) \in Nat /\ Cardinality(due) \in Nat
           /\ Cardinality(timers) <= connects /\ Cardinality(due) <= connects
<1>1. connects \in Nat /\ timers \subseteq 1 .. connects /\ due \subseteq 1 .. connects
  BY DEF TimersInv
<1>2. IsFiniteSet(1 .. connects) /\ Cardinality(1 .. connects) = connects
  BY <1>1, FS_Interval
<1>3. \A S \in SUBSET (1 .. connects) :
         IsFiniteSet(S) /\ Cardinality(S) <= connects /\ Cardinality(S) \in Nat
  <2> SUFFICES ASSUME NEW S \in SUBSET (1 .. connects)
               PROVE  IsFiniteSet(S) /\ Cardinality(S) <= connects /\ Cardinality(S) \in Nat
    OBVIOUS
  <2>1. IsFiniteSet(S) /\ Cardinality(S) <= Cardinality(1 .. connects)
    BY <1>2, FS_Subset
  <2>2. Cardinality(S) \in Nat
    BY <2>1, FS_CardinalityType
  <2> QED BY <1>2, <2>1, <2>2
<1> QED BY <1>1, <1>3

LEMMA PaceStep == ASSUME TimersInv, PaceInv, [Next]_vars PROVE PaceInv'
<1>0. /\ connects \in Nat /\ interval \in Nat
      /\ Len(made) \in Nat /\ DOMAIN made = 1 .. Len(made)
      /\ \A i \in DOMAIN made : made[i] \in Nat
      /\ Cardinality(due) \in Nat /\ Cardinality(due) <= connects
  BY DueBounded DEF TimersInv
<1>1. CASE NextInterval
  <2>1. /\ UNCHANGED <<made, connects>> /\ interval' = interval + 1
    BY <1>1 DEF NextInterval, upstream
  <2>2. \A i \in DOMAIN made : made[i] < interval + 1 /\ made[i] <= interval + 1
    BY <1>0 DEF PaceInv
  <2> QED BY <2>1, <2>2 DEF PaceInv
<1>2. CASE Tick
  <2>1. PICK t \in due : due' = due \ {t}
    BY <1>2 DEF Tick
  <2>2. PICK c \in Nat : c = Cardinality(due')
    <3>1. IsFiniteSet(due')
      BY <2>1, DueBounded, FS_RemoveElement
    <3> QED BY <3>1, FS_CardinalityType
  <2>3. Cardinality(due) = c + 1
    <3>1. Cardinality(due \ {t}) = Cardinality(due) - 1
      BY DueBounded, FS_RemoveElement
    <3> QED BY <1>0, <2>1, <2>2, <3>1
  <2>4. PICK n \in Nat : n = Len(made)
    BY <1>0
  <2>5. /\ made' = Append(made, interval) /\ UNCHANGED <<interval, connects>>
    BY <1>2 DEF Tick
  <2>6. /\ DOMAIN made' = 1 .. n + 1 /\ Len(made') = n + 1 /\ DOMAIN made = 1 .. n
        /\ \A i \in DOMAIN made : made'[i] = made[i]
        /\ made'[n + 1] = interval
    BY <2>4, <2>5, Appended DEF TimersInv
  <2>7. \A i \in DOMAIN made' : i \in DOMAIN made \/ i = n + 1
    BY <2>6
  <2>8. \A i \in DOMAIN made : i + connects <= n + 1 + c => made[i] < interval
    BY <1>0, <2>3, <2>4 DEF PaceInv
  <2>9. \A i \in DOMAIN made' : made'[i] <= interval'
    BY <1>0, <2>5, <2>6, <2>7 DEF PaceInv
  <2>10. \A i, j \in DOMAIN made' : i <= j => made'[i] <= made'[j]
    <3> SUFFICES ASSUME NEW i \in DOMAIN made', NEW j \in DOMAIN made', i <= j
                 PROVE  made'[i] <= made'[j]
      OBVIOUS
    <3>1. CASE j = n + 1
      BY <2>5, <2>6, <2>9, <3>1
    <3>2. CASE j \in DOMAIN made
      BY <2>6, <3>2 DEF PaceInv
    <3> QED BY <2>7, <3>1, <3>2
  <2>11. ASSUME NEW i \in DOMAIN made', i + connects \in DOMAIN made'
         PROVE  made'[i] < made'[i + connects]
    <3>0. connects > 0
      BY <1>0, <2>3
    <3>1. i \in DOMAIN made
      BY <1>0, <2>6, <2>11, <3>0
    <3>2. CASE i + connects \in DOMAIN made
      BY <2>6, <3>1, <3>2 DEF PaceInv
    <3>3. CASE i + connects = n + 1
      <4>1. made[i] < interval
        BY <2>4, <2>8, <3>1, <3>3
      <4> QED BY <2>6, <3>1, <3>3, <4>1
    <3> QED BY <2>7, <2>11, <3>2, <3>3
  <2>12. ASSUME NEW i \in DOMAIN made', i + connects - c <= n + 1
         PROVE  made'[i] < interval
    <3>1. i # n + 1
      BY <1>0, <2>3, <2>4, <2>12
    <3>2. i \in DOMAIN made
      BY <2>7, <3>1
    <3>3. i + connects <= n + 1 + c
      BY <1>0, <2>2, <2>4, <2>12, <3>2
    <3> QED BY <2>6, <2>8, <3>2, <3>3
  <2> QED BY <2>2, <2>5, <2>6, <2>9, <2>10, <2>11, <2>12 DEF PaceInv
<1>3. CASE SimulatorConnects
  <2>1. UNCHANGED <<interval, due, made>> /\ connects' = connects + 1
    BY <1>3 DEF SimulatorConnects
  <2>2. ASSUME NEW i \in DOMAIN made, i + (connects + 1) \in DOMAIN made
        PROVE  made[i] < made[i + (connects + 1)]
    <3>1. i + connects \in DOMAIN made /\ i + connects <= i + (connects + 1)
      BY <1>0, <2>2
    <3>2. made[i] < made[i + connects] /\ made[i + connects] <= made[i + (connects + 1)]
      BY <2>2, <3>1 DEF PaceInv
    <3> QED BY <1>0, <2>2, <3>1, <3>2
  <2>3. \A i \in DOMAIN made :
           i + (connects + 1) - Cardinality(due) <= Len(made) =>
               i + connects - Cardinality(due) <= Len(made)
    BY <1>0
  <2> QED BY <2>1, <2>2, <2>3 DEF PaceInv
<1>4. CASE Shutdown
  <2>1. UNCHANGED <<interval, made, connects>> /\ due' \subseteq due
    BY <1>4 DEF Shutdown, upstream
  <2>2. Cardinality(due') <= Cardinality(due) /\ Cardinality(due') \in Nat
    BY <2>1, DueBounded, FS_Subset, FS_CardinalityType
  <2>3. \A i \in DOMAIN made :
           i + connects - Cardinality(due') <= Len(made) =>
               i + connects - Cardinality(due) <= Len(made)
    BY <1>0, <2>2
  <2> QED BY <2>1, <2>3 DEF PaceInv
<1>5. CASE UNCHANGED <<interval, connects, made, due>>
  BY <1>5 DEF PaceInv
<1> QED
  BY <1>1, <1>2, <1>3, <1>4, <1>5
     DEF Next, SimulatorLoses, Send, Acknowledged, Take, Deliver, SubscriberConnects,
         Answered, SubscriberLoses, Rest, vars, simulator, upstream

-----------------------------------------------------------------------------
(* The queues.                                                             *)

LEMMA TailOf ==
    ASSUME NEW q \in Seq(Nat), q # << >>, NEW t, t = Tail(q)
    PROVE  /\ t \in Seq(Nat) /\ Len(t) \in Nat /\ Len(q) = Len(t) + 1
           /\ Head(q) = q[1] /\ q[1] \in Nat
           /\ \A i \in 1 .. Len(t) : t[i] = q[i + 1]
<1>1. t \in Seq(Nat) /\ Len(t) = Len(q) - 1 /\ \A i \in 1 .. Len(t) : t[i] = q[i + 1]
  BY HeadTailProperties
<1>2. Len(q) \in Nat \ {0}
  BY EmptySeq
<1>3. Head(q) = q[1] /\ q[1] \in Nat
  BY <1>2, ElementOfSeq
<1> QED BY <1>1, <1>2, <1>3

LEMMA ConcatOf ==
    ASSUME NEW p \in Seq(Nat), NEW q \in Seq(Nat), NEW c, c = p \o q
    PROVE  /\ c \in Seq(Nat) /\ Len(c) = Len(p) + Len(q)
           /\ Len(p) \in Nat /\ Len(q) \in Nat /\ DOMAIN c = 1 .. Len(p) + Len(q)
           /\ \A i \in 1 .. Len(p) : c[i] = p[i]
           /\ \A i \in 1 .. Len(q) : c[Len(p) + i] = q[i]
<1>1. /\ c \in Seq(Nat) /\ Len(c) = Len(p) + Len(q)
      /\ \A i \in 1 .. Len(p) + Len(q) : c[i] = IF i <= Len(p) THEN p[i] ELSE q[i - Len(p)]
  BY ConcatProperties
<1>2. Len(p) \in Nat /\ Len(q) \in Nat /\ DOMAIN c = 1 .. Len(c)
  BY <1>1, LenProperties
<1>3. ASSUME NEW i \in 1 .. Len(p) PROVE c[i] = p[i]
  <2>1. i \in 1 .. Len(p) + Len(q) /\ i <= Len(p)
    BY <1>2
  <2> QED BY <1>1, <2>1
<1>4. ASSUME NEW i \in 1 .. Len(q) PROVE c[Len(p) + i] = q[i]
  <2>1. /\ Len(p) + i \in 1 .. Len(p) + Len(q) /\ ~(Len(p) + i <= Len(p))
        /\ (Len(p) + i) - Len(p) = i
    BY <1>2
  <2> QED BY <1>1, <2>1
<1> QED BY <1>1, <1>2, <1>3, <1>4

\* The head of a sequence goes to the end of the one before.
LEMMA HandedOver ==
    ASSUME NEW p \in Seq(Nat), NEW q \in Seq(Nat), q # << >>
    PROVE  Append(p, Head(q)) \o Tail(q) = p \o q
<1>1. PICK t, r, c, d :
         t = Tail(q) /\ r = Append(p, q[1]) /\ c = r \o t /\ d = p \o q
  OBVIOUS
<1>2. /\ t \in Seq(Nat) /\ Len(t) \in Nat /\ Len(q) = Len(t) + 1
      /\ Head(q) = q[1] /\ q[1] \in Nat
      /\ \A i \in 1 .. Len(t) : t[i] = q[i + 1]
  BY <1>1, TailOf
<1>3. /\ r \in Seq(Nat) /\ Len(r) = Len(p) + 1
      /\ (\A i \in 1 .. Len(p) : r[i] = p[i]) /\ r[Len(p) + 1] = q[1]
  BY <1>1, <1>2, AppendProperties
<1>4. /\ c \in Seq(Nat) /\ Len(c) = Len(r) + Len(t)
      /\ \A i \in 1 .. Len(r) : c[i] = r[i]
      /\ \A i \in 1 .. Len(t) : c[Len(r) + i] = t[i]
  <2>1. r \in Seq(Nat) /\ t \in Seq(Nat) /\ c = r \o t
    BY <1>1, <1>2, <1>3
  <2> QED BY <2>1, ConcatOf
<1>5. /\ d \in Seq(Nat) /\ Len(d) = Len(p) + Len(q) /\ Len(p) \in Nat
      /\ \A i \in 1 .. Len(p) : d[i] = p[i]
      /\ \A i \in 1 .. Len(q) : d[Len(p) + i] = q[i]
  BY <1>1, ConcatOf
<1>6. ASSUME NEW i \in 1 .. Len(c) PROVE c[i] = d[i]
  <2>1. CASE i \in 1 .. Len(p)
    <3>1. i \in 1 .. Len(r)
      BY <1>3, <1>5, <2>1
    <3> QED BY <1>3, <1>4, <1>5, <2>1, <3>1
  <2>2. CASE i = Len(p) + 1
    <3>1. i \in 1 .. Len(r) /\ 1 \in 1 .. Len(q)
      BY <1>2, <1>3, <1>5, <2>2
    <3> QED BY <1>3, <1>4, <1>5, <2>2, <3>1
  <2>3. CASE i > Len(p) + 1
    <3>1. PICK k \in 1 .. Len(t) : i = Len(r) + k /\ i = Len(p) + (k + 1) /\ k + 1 \in 1 .. Len(q)
      <4>1. /\ i - Len(r) \in 1 .. Len(t) /\ i = Len(r) + (i - Len(r))
            /\ i = Len(p) + ((i - Len(r)) + 1) /\ (i - Len(r)) + 1 \in 1 .. Len(q)
        <5>1. PICK n \in Nat, m \in Nat : n = Len(t) /\ m = Len(p)
          BY <1>2, <1>5
        <5>2. Len(r) = m + 1 /\ Len(q) = n + 1 /\ i \in 1 .. (m + 1) + n /\ i > m + 1
          BY <1>2, <1>3, <1>4, <2>3, <5>1
        <5> QED BY <5>1, <5>2
      <4> QED BY <4>1
    <3>2. c[i] = t[k] /\ d[i] = q[k + 1]
      BY <1>4, <1>5, <3>1
    <3> QED BY <1>2, <3>1, <3>2
  <2> QED BY <1>2, <1>3, <1>4, <1>5, <2>1, <2>2, <2>3
<1>7. Len(c) = Len(d)
  BY <1>2, <1>3, <1>4, <1>5
<1> QED BY <1>1, <1>2, <1>4, <1>5, <1>6, <1>7, SeqEqual

LEMMA TailOfConcat ==
    ASSUME NEW p \in Seq(Nat), NEW q \in Seq(Nat), p # << >>
    PROVE  Tail(p) \o q = Tail(p \o q)
<1>1. PICK t, c, d, u : t = Tail(p) /\ c = t \o q /\ d = p \o q /\ u = Tail(d)
  OBVIOUS
<1>2. /\ t \in Seq(Nat) /\ Len(t) \in Nat /\ Len(p) = Len(t) + 1
      /\ \A i \in 1 .. Len(t) : t[i] = p[i + 1]
  BY <1>1, TailOf
<1>3. /\ c \in Seq(Nat) /\ Len(c) = Len(t) + Len(q) /\ Len(q) \in Nat
      /\ \A i \in 1 .. Len(t) : c[i] = t[i]
      /\ \A i \in 1 .. Len(q) : c[Len(t) + i] = q[i]
  BY <1>1, <1>2, ConcatOf
<1>4. /\ d \in Seq(Nat) /\ Len(d) = Len(p) + Len(q)
      /\ \A i \in 1 .. Len(p) : d[i] = p[i]
      /\ \A i \in 1 .. Len(q) : d[Len(p) + i] = q[i]
  BY <1>1, ConcatOf
<1>5. /\ u \in Seq(Nat) /\ Len(d) = Len(u) + 1 /\ Len(u) \in Nat
      /\ \A i \in 1 .. Len(u) : u[i] = d[i + 1]
  <2>1. d # << >>
    BY <1>2, <1>3, <1>4
  <2> QED BY <1>1, <1>4, <2>1, TailOf
<1>6. Len(c) = Len(u)
  BY <1>2, <1>3, <1>4, <1>5
<1>7. ASSUME NEW i \in 1 .. Len(c) PROVE c[i] = u[i]
  <2>0. u[i] = d[i + 1]
    BY <1>5, <1>6
  <2>1. CASE i \in 1 .. Len(t)
    <3>1. i + 1 \in 1 .. Len(p)
      BY <1>2, <2>1
    <3> QED BY <1>2, <1>3, <1>4, <2>0, <2>1, <3>1
  <2>2. CASE i > Len(t)
    <3>1. PICK k \in 1 .. Len(q) : i = Len(t) + k /\ i + 1 = Len(p) + k
      <4>1. i - Len(t) \in 1 .. Len(q) /\ i = Len(t) + (i - Len(t)) /\ i + 1 = Len(p) + (i - Len(t))
        BY <1>2, <1>3, <2>2
      <4> QED BY <4>1
    <3> QED BY <1>3, <1>4, <2>0, <3>1
  <2> QED BY <1>2, <1>3, <2>1, <2>2
<1> QED BY <1>1, <1>3, <1>5, <1>6, <1>7, SeqEqual

LEMMA AppendToConcat ==
    ASSUME NEW p \in Seq(Nat), NEW q \in Seq(Nat), NEW x \in Nat
    PROVE  p \o Append(q, x) = Append(p \o q, x)
<1>1. p \o q \in Seq(Nat)
  BY ConcatProperties
<1>2. <<x>> \in Seq(Nat)
  OBVIOUS
<1> QED BY <1>1, <1>2, AppendIsConcat, ConcatAssociative

LEMMA FirstRemoved ==
    ASSUME NEW q \in Seq(Nat), q # << >> PROVE RemoveAt(q, 1) = Tail(q)
<1>1. RemoveAt(q, 1) = SubSeq(q, 1, 0) \o SubSeq(q, 2, Len(q))
  BY DEF RemoveAt
<1>2. SubSeq(q, 1, 0) = << >>
  BY SubSeqEmpty
<1>3. SubSeq(q, 2, Len(q)) = Tail(q) /\ Tail(q) \in Seq(Nat)
  BY TailIsSubSeq, HeadTailProperties
<1> QED BY <1>1, <1>2, <1>3, ConcatEmptySeq

\* What a step does to the queues: nothing; a reading is made, all is sent again,
\* one is acknowledged, one is taken and passed on or not, or what is on its way
\* is lost.
Still == Held' = Held /\ takenHere' = takenHere /\ Passed' = Passed
Makes == Held' = Append(Held, Len(made')) /\ takenHere' = takenHere /\ Passed' = Passed
Resends == Held' = Held /\ takenHere' = 0 /\ Passed' = Passed /\ connects' = connects + 1
Forgets ==
    /\ takenHere > 0 /\ Held # << >> /\ Held' = Tail(Held)
    /\ takenHere' = takenHere - 1 /\ Passed' = Passed
Takes ==
    /\ takenHere + 1 \in DOMAIN Held /\ Held' = Held /\ takenHere' = takenHere + 1
    /\ Passed' \in {Passed, Append(Passed, Held[takenHere + 1])}
Drops ==
    /\ Held' = Held /\ takenHere' = takenHere
    /\ DOMAIN Passed' \subseteq DOMAIN Passed
    /\ \A i \in DOMAIN Passed' : Passed'[i] = Passed[i]
Flows ==
    /\ \/ made' = made \/ Tick
    /\ \/ Resends
       \/ connects' = connects /\ (Still \/ (Makes /\ Tick) \/ Forgets \/ Takes \/ Drops)

LEMMA QueuesStep == ASSUME TimersInv, QueuesInv, [Next]_vars PROVE QueuesInv' /\ Flows
<1>0. /\ sent \in Seq(Nat) /\ outbox \in Seq(Nat)
      /\ arrived \in Seq(Nat) /\ outbound \in Seq(Nat)
      /\ takenHere \in 0 .. Len(sent) /\ Len(sent) \in Nat
      /\ connects \in Nat /\ Len(made) \in Nat
      /\ connects = 0 => ~simOnline /\ sent = << >> /\ Passed = << >>
      /\ Held \in Seq(Nat) /\ Passed \in Seq(Nat)
  BY ConcatProperties DEF QueuesInv, TimersInv, Held, Passed
<1>1. CASE Tick
  <2>1. /\ UNCHANGED <<simOnline, connects, sent, takenHere, arrived, outbound>>
        /\ made' = Append(made, interval)
        /\ outbox' = Append(outbox, Len(made) + 1) \/ outbox' = outbox
    BY <1>1 DEF Tick, downstream
  <2>2. Len(made') = Len(made) + 1
    BY <2>1, Appended DEF TimersInv
  <2>3. outbox' = Append(outbox, Len(made) + 1) => Held' = Append(Held, Len(made'))
    <3>1. Len(made) + 1 \in Nat
      BY <1>0
    <3>2. sent \in Seq(Nat) /\ outbox \in Seq(Nat)
      BY <1>0
    <3>3. sent \o Append(outbox, Len(made) + 1) = Append(sent \o outbox, Len(made) + 1)
      BY <3>1, <3>2, AppendToConcat
    <3> QED BY <2>1, <2>2, <3>3 DEF Held
  <2>4. outbox' \in Seq(Nat)
    <3>1. Len(made) + 1 \in Nat
      BY <1>0
    <3>2. Append(outbox, Len(made) + 1) \in Seq(Nat)
      BY <1>0, <3>1, AppendProperties
    <3> QED BY <1>0, <2>1, <3>2
  <2>5. QueuesInv'
    BY <1>0, <2>1, <2>4 DEF QueuesInv, Passed
  <2>6. Passed' = Passed /\ (outbox' = outbox => Held' = Held)
    BY <2>1 DEF Passed, Held
  <2> QED BY <1>1, <2>1, <2>3, <2>5, <2>6 DEF Flows, Still, Makes
<1>2. CASE SimulatorConnects
  <2>1. /\ UNCHANGED <<made, arrived, outbound>> /\ connects' = connects + 1
        /\ outbox' = Held /\ sent' = << >> /\ takenHere' = 0
    BY <1>2 DEF SimulatorConnects, SendAgain, downstream, Held
  <2>2. Held' = Held
    BY <1>0, <2>1, ConcatEmptySeq DEF Held
  <2>3. Passed' = Passed
    BY <2>1 DEF Passed
  <2>4. << >> \in Seq(Nat) /\ 0 \in 0 .. Len(<< >>) /\ connects + 1 # 0
    BY <1>0
  <2>5. QueuesInv'
    BY <1>0, <2>1, <2>4 DEF QueuesInv
  <2>6. Resends
    BY <2>1, <2>2, <2>3 DEF Resends
  <2> QED BY <2>1, <2>5, <2>6 DEF Flows
<1>3. CASE Send
  <2>1. /\ UNCHANGED <<made, connects, simOnline, takenHere, arrived, outbound>>
        /\ outbox # << >> /\ outbox' = Tail(outbox) /\ sent' = Append(sent, Head(outbox))
        /\ simOnline
    BY <1>3 DEF Send, simulator, downstream
  <2>2. Held' = Held /\ Passed' = Passed
    BY <1>0, <2>1, HandedOver DEF Held, Passed
  <2>3. Head(outbox) \in Nat /\ Tail(outbox) \in Seq(Nat)
    BY <1>0, <2>1, HeadTailProperties
  <2>4. sent' \in Seq(Nat) /\ Len(sent') = Len(sent) + 1
    BY <1>0, <2>1, <2>3, AppendProperties
  <2>5. takenHere' \in 0 .. Len(sent')
    BY <1>0, <2>1, <2>4
  <2>6. QueuesInv'
    BY <1>0, <2>1, <2>3, <2>4, <2>5 DEF QueuesInv
  <2>7. Still
    BY <2>1, <2>2 DEF Still
  <2> QED BY <2>1, <2>6, <2>7 DEF Flows
<1>4. CASE Acknowledged
  <2>1. /\ UNCHANGED <<made, connects, simOnline, outbox, arrived, outbound>>
        /\ takenHere > 0 /\ sent' = Tail(sent) /\ takenHere' = takenHere - 1 /\ simOnline
    BY <1>4 DEF Acknowledged, simulator, downstream
  <2>2. sent # << >>
    BY <1>0, <2>1
  <2>3. Held' = Tail(Held) /\ Passed' = Passed
    BY <1>0, <2>1, <2>2, TailOfConcat DEF Held, Passed
  <2>4. Held # << >>
    BY <1>0, <2>2, ConcatEqualIffEmpty DEF Held
  <2>5. sent' \in Seq(Nat) /\ Len(sent') = Len(sent) - 1
    BY <1>0, <2>1, <2>2, HeadTailProperties
  <2>6. takenHere' \in 0 .. Len(sent')
    BY <1>0, <2>1, <2>5
  <2>7. QueuesInv'
    BY <1>0, <2>1, <2>5, <2>6 DEF QueuesInv
  <2> QED BY <2>1, <2>3, <2>4, <2>7 DEF Flows, Forgets
<1>5. CASE Take
  <2>1. /\ UNCHANGED <<made, connects, simOnline, sent, outbox, arrived>>
        /\ takenHere < Len(sent) /\ takenHere' = takenHere + 1 /\ simOnline
        /\ outbound' \in {outbound, Append(outbound, sent[takenHere + 1])}
    BY <1>5 DEF Take, simulator
  <2>2. PICK k \in 1 .. Len(sent) : k = takenHere + 1
    BY <1>0, <2>1
  <2>3. k \in DOMAIN Held /\ Held[k] = sent[k] /\ sent[k] \in Nat
    <3>1. /\ DOMAIN Held = 1 .. Len(sent) + Len(outbox) /\ Len(outbox) \in Nat
          /\ \A i \in 1 .. Len(sent) : Held[i] = sent[i]
      BY <1>0, ConcatOf DEF Held
    <3>2. sent[k] \in Nat
      BY <1>0, ElementOfSeq
    <3> QED BY <1>0, <3>1, <3>2
  <2>4. outbound' \in {outbound, Append(outbound, sent[k])}
    BY <2>1, <2>2
  <2>5. /\ outbound' \in Seq(Nat) /\ Passed' \in {Passed, Append(Passed, Held[k])}
    <3>0. arrived \in Seq(Nat) /\ outbound \in Seq(Nat) /\ sent[k] \in Nat
      BY <1>0, <2>3
    <3>1. Append(outbound, sent[k]) \in Seq(Nat)
      BY <3>0, AppendProperties
    <3>2. arrived \o Append(outbound, sent[k]) = Append(arrived \o outbound, sent[k])
      BY <3>0, AppendToConcat
    <3>3. outbound' \in Seq(Nat)
      BY <2>4, <3>0, <3>1
    <3>4. Passed' \in {Passed, Append(Passed, Held[k])}
      BY <2>1, <2>3, <2>4, <3>2 DEF Passed
    <3> QED BY <3>3, <3>4
  <2>6. takenHere' \in 0 .. Len(sent') /\ Held' = Held
    BY <2>1, <2>2 DEF Held
  <2>7. QueuesInv'
    BY <1>0, <2>1, <2>5, <2>6 DEF QueuesInv
  <2>8. Takes
    BY <2>1, <2>2, <2>3, <2>5, <2>6 DEF Takes
  <2> QED BY <2>1, <2>7, <2>8 DEF Flows
<1>6. CASE Deliver
  <2>1. UNCHANGED <<made, connects, simOnline, takenHere, sent, outbox>>
    BY <1>6 DEF Deliver, simulator, upstream
  <2>2. 1 \in DOMAIN outbound /\ arrived' = Append(arrived, outbound[1])
        /\ outbound' = RemoveAt(outbound, 1)
    BY <1>6 DEF Deliver, IsNext
  <2>3. outbound # << >>
    BY <2>2
  <2>4. PICK t : t = Tail(outbound)
    OBVIOUS
  <2>5. /\ outbound' = t /\ t \in Seq(Nat) /\ Head(outbound) = outbound[1]
        /\ outbound[1] \in Nat
    BY <1>0, <2>2, <2>3, <2>4, FirstRemoved, TailOf
  <2>6. Passed' = Passed
    <3>1. arrived \in Seq(Nat) /\ outbound \in Seq(Nat)
      BY <1>0
    <3>2. Append(arrived, Head(outbound)) \o Tail(outbound) = arrived \o outbound
      BY <2>3, <3>1, HandedOver
    <3>3. arrived' = Append(arrived, Head(outbound)) /\ outbound' = Tail(outbound)
      BY <2>2, <2>4, <2>5
    <3> QED BY <3>2, <3>3 DEF Passed
  <2>7. arrived' \in Seq(Nat)
    BY <1>0, <2>2, <2>5, AppendProperties
  <2>8. Held' = Held
    BY <2>1 DEF Held
  <2>9. QueuesInv'
    BY <1>0, <2>1, <2>5, <2>6, <2>7 DEF QueuesInv
  <2>10. Still
    BY <2>1, <2>6, <2>8 DEF Still
  <2> QED BY <2>1, <2>9, <2>10 DEF Flows
<1>7. CASE SubscriberLoses
  <2>1. /\ UNCHANGED <<made, connects, simOnline, takenHere, sent, outbox, arrived>>
        /\ outbound' = << >>
    BY <1>7 DEF SubscriberLoses, simulator, upstream
  <2>2. Held' = Held /\ Passed' = arrived
    BY <1>0, <2>1, ConcatEmptySeq DEF Held, Passed
  <2>3. /\ DOMAIN Passed = 1 .. Len(arrived) + Len(outbound) /\ Len(arrived) \in Nat
        /\ Len(outbound) \in Nat /\ DOMAIN arrived = 1 .. Len(arrived)
        /\ \A i \in 1 .. Len(arrived) : Passed[i] = arrived[i]
    BY <1>0, ConcatOf, LenProperties DEF Passed
  <2>4. DOMAIN arrived \subseteq DOMAIN Passed
    BY <2>3
  <2>5. Passed = << >> => arrived = << >>
    BY <1>0, ConcatEqualIffEmpty DEF Passed
  <2>6. << >> \in Seq(Nat)
    OBVIOUS
  <2>7. QueuesInv'
    BY <1>0, <2>1, <2>2, <2>5, <2>6 DEF QueuesInv
  <2> QED BY <2>1, <2>2, <2>3, <2>4, <2>7 DEF Flows, Drops
<1>8. CASE SimulatorLoses
  <2>1. /\ UNCHANGED <<made, connects, takenHere, sent, outbox, arrived, outbound>>
        /\ simOnline
    BY <1>8 DEF SimulatorLoses, simulator, downstream
  <2>2. Held' = Held /\ Passed' = Passed
    BY <2>1 DEF Held, Passed
  <2>3. QueuesInv'
    BY <1>0, <2>1, <2>2 DEF QueuesInv
  <2>4. Still
    BY <2>1, <2>2 DEF Still
  <2> QED BY <2>1, <2>3, <2>4 DEF Flows
<1>9. CASE UNCHANGED <<made, connects, simOnline, takenHere, sent, outbox, arrived, outbound>>
  <2>1. Held' = Held /\ Passed' = Passed
    BY <1>9 DEF Held, Passed
  <2>2. QueuesInv'
    BY <1>0, <1>9, <2>1 DEF QueuesInv
  <2>3. Still
    BY <1>9, <2>1 DEF Still
  <2> QED BY <1>9, <2>2, <2>3 DEF Flows
<1> QED
  BY <1>1, <1>2, <1>3, <1>4, <1>5, <1>6, <1>7, <1>8, <1>9
     DEF Next, NextInterval, Shutdown, SubscriberConnects, Answered, Rest, vars,
         simulator, upstream, downstream

-----------------------------------------------------------------------------
(* The order and the number of what is passed on.                          *)

LEMMA OrderStep ==
    ASSUME TimersInv, QueuesInv, OrderInv, [Next]_vars
    PROVE  OrderInv'
<1>0. /\ Held \in Seq(Nat) /\ Passed \in Seq(Nat) /\ connects \in Nat /\ Len(made) \in Nat
      /\ takenHere \in Nat /\ (connects = 0 => takenHere = 0)
  BY ConcatProperties DEF TimersInv, QueuesInv, Held, Passed
<1>1. Flows
  BY QueuesStep
<1>2. PICK h \in Seq(Nat), p \in Seq(Nat), k \in Nat, n \in Nat :
         h = Held /\ p = Passed /\ k = takenHere /\ n = Len(made)
  BY <1>0
<1>3. /\ \A i \in DOMAIN h : h[i] <= n
      /\ \A i \in DOMAIN p : p[i] <= n
      /\ Increasing(h)
      /\ connects <= 1 =>
            Increasing(p) /\ \A i \in DOMAIN p, j \in DOMAIN h : k < j => p[i] < h[j]
  BY <1>2 DEF OrderInv
<1>4. /\ Len(made') \in Nat /\ n <= Len(made')
      /\ Tick => Len(made') = n + 1
  <2>1. Tick => made' = Append(made, interval)
    BY DEF Tick
  <2>2. Len(Append(made, interval)) = Len(made) + 1
    BY Appended DEF TimersInv
  <2> QED BY <1>0, <1>1, <1>2, <2>1, <2>2 DEF Flows
<1>5. /\ \A i \in DOMAIN h : h[i] \in Nat
      /\ \A i \in DOMAIN p : p[i] \in Nat
      /\ Len(h) \in Nat /\ DOMAIN h = 1 .. Len(h) /\ Len(p) \in Nat /\ DOMAIN p = 1 .. Len(p)
  OBVIOUS
<1>6. \A i \in DOMAIN p : p[i] <= Len(made')
  BY <1>3, <1>4, <1>5
<1>7. \A i \in DOMAIN h : h[i] <= Len(made')
  BY <1>3, <1>4, <1>5
<1>8. CASE Still /\ connects' = connects
  BY <1>2, <1>3, <1>6, <1>7, <1>8 DEF Still, OrderInv
<1>9. CASE Resends
  <2>1. connects' <= 1 => connects <= 1 /\ k = 0
    BY <1>0, <1>2, <1>9 DEF Resends
  <2> QED BY <1>2, <1>3, <1>6, <1>7, <1>9, <2>1 DEF Resends, OrderInv
<1>10. CASE Makes /\ Tick /\ connects' = connects
  <2>1. PICK g : g = Append(h, n + 1)
    OBVIOUS
  <2>2. Held' = g /\ takenHere' = k /\ Passed' = p /\ Len(made') = n + 1
    BY <1>2, <1>4, <1>10, <2>1 DEF Makes
  <2>3. /\ DOMAIN g = 1 .. Len(h) + 1 /\ g[Len(h) + 1] = n + 1
        /\ \A i \in DOMAIN h : g[i] = h[i]
    BY <1>2, <2>1, Appended
  <2>4. \A i \in DOMAIN g : (i \in DOMAIN h /\ g[i] = h[i]) \/ (i = Len(h) + 1 /\ g[i] = n + 1)
    BY <1>5, <2>3
  <2>5. \A i \in DOMAIN g : g[i] <= n + 1
    BY <1>2, <1>3, <1>5, <2>4
  <2>6. ASSUME NEW i \in DOMAIN g, NEW j \in DOMAIN g, i < j PROVE g[i] < g[j]
    <3>1. i \in DOMAIN h /\ g[i] = h[i]
      BY <1>5, <2>3, <2>4, <2>6
    <3>2. CASE j \in DOMAIN h /\ g[j] = h[j]
      BY <1>3, <2>6, <3>1, <3>2 DEF Increasing
    <3>3. CASE g[j] = n + 1
      BY <1>2, <1>3, <1>5, <3>1, <3>3
    <3> QED BY <2>4, <3>2, <3>3
  <2>7. connects <= 1 => \A i \in DOMAIN p, j \in DOMAIN g : k < j => p[i] < g[j]
    <3> SUFFICES ASSUME connects <= 1, NEW i \in DOMAIN p, NEW j \in DOMAIN g, k < j
                 PROVE  p[i] < g[j]
      OBVIOUS
    <3>1. CASE j \in DOMAIN h /\ g[j] = h[j]
      BY <1>3, <3>1
    <3>2. CASE g[j] = n + 1
      BY <1>2, <1>3, <1>5, <3>2
    <3> QED BY <2>4, <3>1, <3>2
  <2> QED BY <1>3, <1>6, <1>10, <2>2, <2>5, <2>6, <2>7 DEF OrderInv, Increasing
<1>11. CASE Forgets /\ connects' = connects
  <2>1. PICK g : g = Tail(h)
    OBVIOUS
  <2>2. Held' = g /\ takenHere' = k - 1 /\ Passed' = p /\ h # << >>
    BY <1>2, <1>11, <2>1 DEF Forgets
  <2>3. /\ DOMAIN g = 1 .. Len(g) /\ Len(g) \in Nat /\ Len(h) = Len(g) + 1
        /\ \A i \in 1 .. Len(g) : g[i] = h[i + 1]
    BY <1>2, <2>1, <2>2, TailOf, LenProperties
  <2>4. \A i \in DOMAIN g : i + 1 \in DOMAIN h /\ g[i] = h[i + 1]
    BY <1>5, <2>3
  <2>5. \A i \in DOMAIN g : g[i] <= Len(made')
    BY <1>7, <2>4
  <2>6. Increasing(g)
    BY <1>3, <2>3, <2>4 DEF Increasing
  <2>7. connects <= 1 => \A i \in DOMAIN p, j \in DOMAIN g : k - 1 < j => p[i] < g[j]
    <3> SUFFICES ASSUME connects <= 1, NEW i \in DOMAIN p, NEW j \in DOMAIN g, k - 1 < j
                 PROVE  p[i] < h[j + 1]
      BY <2>4
    <3>1. k < j + 1 /\ j + 1 \in DOMAIN h
      BY <1>2, <2>3, <2>4
    <3> QED BY <1>3, <3>1
  <2> QED BY <1>3, <1>6, <1>11, <2>2, <2>5, <2>6, <2>7 DEF OrderInv
<1>12. CASE Takes /\ connects' = connects
  <2>1. /\ k + 1 \in DOMAIN h /\ Held' = h /\ takenHere' = k + 1
        /\ Passed' = p \/ Passed' = Append(p, h[k + 1])
    BY <1>2, <1>12 DEF Takes
  <2>2. CASE Passed' = p
    <3>1. connects <= 1 => \A i \in DOMAIN p, j \in DOMAIN h : k + 1 < j => p[i] < h[j]
      BY <1>2, <1>3, <1>5
    <3> QED BY <1>3, <1>6, <1>7, <1>12, <2>1, <2>2, <3>1 DEF OrderInv
  <2>3. CASE Passed' = Append(p, h[k + 1])
    <3>1. PICK q : q = Append(p, h[k + 1])
      OBVIOUS
    <3>2. /\ DOMAIN q = 1 .. Len(p) + 1 /\ q[Len(p) + 1] = h[k + 1]
          /\ \A i \in DOMAIN p : q[i] = p[i]
      BY <1>5, <2>1, <3>1, Appended
    <3>3. \A i \in DOMAIN q :
             (i \in DOMAIN p /\ q[i] = p[i]) \/ (i = Len(p) + 1 /\ q[i] = h[k + 1])
      BY <1>5, <3>2
    <3>4. \A i \in DOMAIN q : q[i] <= Len(made')
      BY <1>6, <1>7, <2>1, <3>3
    <3>5. ASSUME connects <= 1 PROVE Increasing(q)
      <4> SUFFICES ASSUME NEW i \in DOMAIN q, NEW j \in DOMAIN q, i < j PROVE q[i] < q[j]
        BY DEF Increasing
      <4>1. i \in DOMAIN p /\ q[i] = p[i]
        BY <1>5, <3>2, <3>3
      <4>2. CASE j \in DOMAIN p /\ q[j] = p[j]
        BY <1>3, <3>5, <4>1, <4>2 DEF Increasing
      <4>3. CASE q[j] = h[k + 1]
        BY <1>2, <1>3, <2>1, <3>5, <4>1, <4>3
      <4> QED BY <3>3, <4>2, <4>3
    <3>6. ASSUME connects <= 1, NEW i \in DOMAIN q, NEW j \in DOMAIN h, k + 1 < j
          PROVE  q[i] < h[j]
      <4>1. k < j
        BY <1>2, <1>5, <3>6
      <4>2. CASE i \in DOMAIN p /\ q[i] = p[i]
        BY <1>3, <3>6, <4>1, <4>2
      <4>3. CASE q[i] = h[k + 1]
        BY <1>3, <2>1, <3>6, <4>3 DEF Increasing
      <4> QED BY <3>3, <4>2, <4>3
    <3> QED BY <1>3, <1>7, <1>12, <2>1, <2>3, <3>1, <3>4, <3>5, <3>6 DEF OrderInv
  <2> QED BY <2>1, <2>2, <2>3
<1>13. CASE Drops /\ connects' = connects
  <2>1. PICK q : q = Passed'
    OBVIOUS
  <2>2. /\ Held' = h /\ takenHere' = k /\ DOMAIN q \subseteq DOMAIN p
        /\ \A i \in DOMAIN q : q[i] = p[i]
    BY <1>2, <1>13, <2>1 DEF Drops
  <2>3. /\ \A i \in DOMAIN q : q[i] <= Len(made')
        /\ Increasing(p) => Increasing(q)
    BY <1>6, <2>2 DEF Increasing
  <2> QED BY <1>3, <1>7, <1>13, <2>1, <2>2, <2>3 DEF OrderInv
<1> QED BY <1>1, <1>8, <1>9, <1>10, <1>11, <1>12, <1>13 DEF Flows

\* Positions in a sequence are counted.
LEMMA PositionsCounted ==
    ASSUME NEW s \in Seq(Nat), NEW m
    PROVE  IsFiniteSet(Positions(s, m)) /\ Cardinality(Positions(s, m)) \in Nat
<1>1. Len(s) \in Nat /\ Positions(s, m) \subseteq 1 .. Len(s)
  BY LenProperties DEF Positions
<1>2. IsFiniteSet(1 .. Len(s))
  BY <1>1, FS_Interval
<1> QED BY <1>1, <1>2, FS_Subset, FS_CardinalityType

LEMMA OneMore ==
    ASSUME NEW s \in Seq(Nat), NEW x \in Nat, NEW m
    PROVE  Cardinality(Positions(Append(s, x), m)) =
               Cardinality(Positions(s, m)) + IF x = m THEN 1 ELSE 0
<1>1. /\ DOMAIN Append(s, x) = 1 .. Len(s) + 1 /\ Append(s, x)[Len(s) + 1] = x
      /\ \A i \in DOMAIN s : Append(s, x)[i] = s[i]
      /\ DOMAIN s = 1 .. Len(s) /\ Len(s) \in Nat
  BY Appended
<1>2. Len(s) + 1 \notin Positions(s, m)
  BY <1>1 DEF Positions
<1>3. CASE x = m
  <2>1. Positions(Append(s, x), m) = Positions(s, m) \union {Len(s) + 1}
    BY <1>1, <1>3 DEF Positions
  <2>2. Cardinality(Positions(s, m) \union {Len(s) + 1}) = Cardinality(Positions(s, m)) + 1
    BY <1>2, PositionsCounted, FS_AddElement
  <2> QED BY <1>3, <2>1, <2>2
<1>4. CASE x # m
  <2>1. Positions(Append(s, x), m) = Positions(s, m)
    BY <1>1, <1>4 DEF Positions
  <2>2. Cardinality(Positions(s, m)) \in Nat
    BY PositionsCounted
  <2> QED BY <1>4, <2>1, <2>2
<1> QED BY <1>3, <1>4

LEMMA RepeatsStep ==
    ASSUME TimersInv, QueuesInv, OrderInv, RepeatsInv, [Next]_vars
    PROVE  RepeatsInv'
<1>0. /\ Held \in Seq(Nat) /\ Passed \in Seq(Nat) /\ connects \in Nat
      /\ takenHere \in Nat /\ (connects = 0 => Passed = << >> /\ takenHere = 0)
  BY ConcatProperties DEF TimersInv, QueuesInv, Held, Passed
<1>1. Flows
  BY QueuesStep
<1> SUFFICES ASSUME connects' > 0, NEW m \in Nat
             PROVE  Cardinality(Positions(Passed', m))
                       <= IF Awaited(m)' THEN connects' - 1 ELSE connects'
  BY DEF RepeatsInv
<1>2. PICK h \in Seq(Nat), p \in Seq(Nat), k \in Nat, c \in Nat :
         h = Held /\ p = Passed /\ k = takenHere /\ c = Cardinality(Positions(p, m))
  BY <1>0, PositionsCounted
<1>3. /\ connects > 0 => c <= IF Awaited(m) THEN connects - 1 ELSE connects
      /\ Awaited(m) <=> \E j \in DOMAIN h : k < j /\ h[j] = m
  BY <1>2 DEF RepeatsInv, Awaited
<1>4. CASE Still /\ connects' = connects
  BY <1>0, <1>2, <1>3, <1>4 DEF Still, Awaited
<1>5. CASE Resends
  <2>1. c <= connects
    <3>1. connects = 0 => Positions(p, m) = {}
      BY <1>0, <1>2 DEF Positions
    <3>2. connects = 0 => c = 0
      BY <1>2, <3>1, FS_EmptySet
    <3>3. connects > 0 => c <= connects
      BY <1>0, <1>2, <1>3
    <3> QED BY <1>0, <3>2, <3>3
  <2> QED BY <1>0, <1>2, <1>5, <2>1 DEF Resends
<1>6. CASE Makes /\ Tick /\ connects' = connects
  <2>1. CASE Awaited(m)' => Awaited(m)
    BY <1>0, <1>2, <1>3, <1>6, <2>1 DEF Makes
  <2>2. CASE Awaited(m)' /\ ~Awaited(m)
    <3>1. Held' = Append(h, Len(made')) /\ takenHere' = k /\ Passed' = p
      BY <1>2, <1>6 DEF Makes
    <3>2. Len(made') = Len(made) + 1 /\ Len(made) \in Nat
      BY <1>6, Appended DEF Tick, TimersInv
    <3>3. m = Len(made) + 1
      <4>0. PICK n \in Nat : n = Len(made) + 1
        BY <3>2
      <4>1. PICK g : g = Append(h, n) /\ Held' = g
        BY <3>1, <3>2, <4>0
      <4>2. PICK j \in DOMAIN g : k < j /\ g[j] = m
        BY <2>2, <3>1, <4>1 DEF Awaited
      <4>3. j \in DOMAIN h => g[j] = h[j]
        BY <1>2, <4>1, Appended
      <4>4. j \notin DOMAIN h
        BY <1>3, <2>2, <4>2, <4>3
      <4>5. j = Len(h) + 1 /\ g[Len(h) + 1] = n
        <5>1. /\ DOMAIN g = 1 .. Len(h) + 1 /\ DOMAIN h = 1 .. Len(h) /\ Len(h) \in Nat
              /\ g[Len(h) + 1] = n
          BY <1>2, <4>1, Appended
        <5> QED BY <4>2, <4>4, <5>1
      <4> QED BY <4>0, <4>2, <4>5
    <3>4. Positions(p, m) = {}
      BY <1>2, <3>2, <3>3 DEF OrderInv, Positions
    <3>5. c = 0
      BY <1>2, <3>4, FS_EmptySet
    <3> QED BY <1>0, <1>2, <1>6, <2>2, <3>1, <3>5
  <2> QED BY <2>1, <2>2
<1>7. CASE Forgets /\ connects' = connects
  <2>1. Awaited(m)' => Awaited(m)
    <3> SUFFICES ASSUME Awaited(m)' PROVE Awaited(m)
      OBVIOUS
    <3>1. PICK g : g = Tail(h) /\ Held' = g /\ takenHere' = k - 1 /\ h # << >>
      BY <1>2, <1>7 DEF Forgets
    <3>2. PICK j \in DOMAIN g : k - 1 < j /\ g[j] = m
      BY <3>1 DEF Awaited
    <3>3. /\ Len(g) \in Nat /\ Len(h) = Len(g) + 1 /\ DOMAIN g = 1 .. Len(g)
          /\ \A i \in 1 .. Len(g) : g[i] = h[i + 1]
      BY <1>2, <3>1, TailOf, LenProperties
    <3>4. j + 1 \in DOMAIN h /\ k < j + 1 /\ h[j + 1] = m
      <4>1. DOMAIN h = 1 .. Len(h)
        BY <1>2, LenProperties
      <4> QED BY <1>2, <3>2, <3>3, <4>1
    <3> QED BY <1>3, <3>4
  <2> QED BY <1>0, <1>2, <1>3, <1>7, <2>1 DEF Forgets
<1>8. CASE Takes /\ connects' = connects
  <2>1. /\ k + 1 \in DOMAIN h /\ Held' = h /\ takenHere' = k + 1
        /\ Passed' = p \/ Passed' = Append(p, h[k + 1])
    BY <1>2, <1>8 DEF Takes
  <2>2. Awaited(m)' => Awaited(m)
    BY <1>2, <1>3, <2>1, LenProperties DEF Awaited
  <2>3. CASE Passed' = p
    BY <1>0, <1>2, <1>3, <1>8, <2>2, <2>3
  <2>4. CASE Passed' = Append(p, h[k + 1])
    <3>1. h[k + 1] \in Nat
      BY <1>2, <2>1, LenProperties, ElementOfSeq
    <3>2. Cardinality(Positions(Passed', m)) = c + IF h[k + 1] = m THEN 1 ELSE 0
      BY <1>2, <2>4, <3>1, OneMore
    <3>3. CASE h[k + 1] # m
      BY <1>0, <1>2, <1>3, <1>8, <2>2, <3>2, <3>3
    <3>4. CASE h[k + 1] = m
      <4>1. Awaited(m)
        BY <1>2, <1>3, <2>1, <3>4
      <4>2. ~Awaited(m)'
        <5> SUFFICES ASSUME Awaited(m)' PROVE FALSE
          OBVIOUS
        <5>1. PICK j \in DOMAIN h : k + 1 < j /\ h[j] = m
          BY <2>1 DEF Awaited
        <5>2. h[k + 1] < h[j]
          BY <1>2, <2>1, <5>1 DEF OrderInv, Increasing
        <5> QED BY <3>4, <5>1, <5>2
      <4> QED BY <1>0, <1>2, <1>3, <1>8, <3>2, <3>4, <4>1, <4>2
    <3> QED BY <3>3, <3>4
  <2> QED BY <2>1, <2>3, <2>4
<1>9. CASE Drops /\ connects' = connects
  <2>1. PICK q : q = Passed'
    OBVIOUS
  <2>2. Positions(q, m) \subseteq Positions(p, m)
    BY <1>2, <1>9, <2>1 DEF Drops, Positions
  <2>3. Cardinality(Positions(q, m)) <= c /\ Cardinality(Positions(q, m)) \in Nat
    BY <1>2, <2>2, PositionsCounted, FS_Subset, FS_CardinalityType
  <2>4. Awaited(m)' <=> Awaited(m)
    BY <1>9 DEF Drops, Awaited
  <2> QED BY <1>0, <1>2, <1>3, <1>9, <2>1, <2>3, <2>4
<1> QED BY <1>1, <1>4, <1>5, <1>6, <1>7, <1>8, <1>9 DEF Flows

-----------------------------------------------------------------------------
(* The theorems.                                                           *)

LEMMA InvInit == Init => IInv
<1> SUFFICES ASSUME Init PROVE IInv
  OBVIOUS
<1>1. << >> \in Seq(Nat) /\ Len(<< >>) = 0 /\ DOMAIN << >> = {}
  OBVIOUS
<1>2. Held = << >> /\ Passed = << >>
  BY <1>1, ConcatEmptySeq DEF Init, Held, Passed
<1>3. TimersInv
  BY <1>1 DEF Init, TimersInv
<1>4. PaceInv
  BY <1>1 DEF Init, PaceInv
<1>5. QueuesInv
  BY <1>1, <1>2 DEF Init, QueuesInv
<1>6. OrderInv
  BY <1>1, <1>2 DEF Init, OrderInv, Increasing
<1>7. RepeatsInv
  BY DEF Init, RepeatsInv
<1> QED BY <1>3, <1>4, <1>5, <1>6, <1>7 DEF IInv

LEMMA Inductive == Spec => []IInv
<1>1. IInv /\ [Next]_vars => IInv'
  BY TimersStep, PaceStep, QueuesStep, OrderStep, RepeatsStep DEF IInv
<1> QED BY <1>1, InvInit, PTL DEF Spec

\* The simulator's timers: until its connection is lost a device reports at most
\* once in an interval and not at all after shutdown, for any number of readings;
\* with every reconnect one reading more.
THEOREM TimersLeft == Spec => []OneTimerUntilReconnect
<1>1. ASSUME IInv PROVE OneTimerUntilReconnect
  BY <1>1 DEF IInv, TimersInv, PaceInv, OneTimerUntilReconnect
<1> QED BY <1>1, Inductive, PTL

\* What reaches handleMessage: on the simulator's first connection every reading
\* at most once and in order, whatever happens to the subscriber's; later, at
\* most once for each connection, for any number of readings and connections.
THEOREM ArrivesInOrder == Spec => []RepeatsOnlyByResending
<1>1. ASSUME IInv PROVE RepeatsOnlyByResending
  <2>0. /\ arrived \in Seq(Nat) /\ outbound \in Seq(Nat) /\ connects \in Nat
        /\ Passed \in Seq(Nat) /\ (connects = 0 => Passed = << >>)
    BY <1>1, ConcatProperties DEF IInv, QueuesInv, TimersInv, Passed
  <2>1. /\ DOMAIN arrived \subseteq DOMAIN Passed
        /\ \A i \in DOMAIN arrived : Passed[i] = arrived[i]
    <3>1. /\ DOMAIN Passed = 1 .. Len(arrived) + Len(outbound) /\ Len(arrived) \in Nat
          /\ Len(outbound) \in Nat /\ DOMAIN arrived = 1 .. Len(arrived)
          /\ \A i \in 1 .. Len(arrived) : Passed[i] = arrived[i]
      BY <2>0, ConcatOf, LenProperties DEF Passed
    <3> QED BY <3>1
  <2>2. connects <= 1 => \A i, j \in DOMAIN arrived : i < j => arrived[i] < arrived[j]
    BY <1>1, <2>1 DEF IInv, OrderInv, Increasing
  <2>3. ASSUME NEW m \in DOMAIN made
        PROVE  Cardinality({i \in DOMAIN arrived : arrived[i] = m}) <= connects
    <3>1. m \in Nat
      BY <1>1, LenProperties DEF IInv, TimersInv
    <3>2. Positions(arrived, m) \subseteq Positions(Passed, m)
      BY <2>1 DEF Positions
    <3>3. /\ Cardinality(Positions(arrived, m)) \in Nat
          /\ Cardinality(Positions(Passed, m)) \in Nat
          /\ Cardinality(Positions(arrived, m)) <= Cardinality(Positions(Passed, m))
      BY <2>0, <3>2, PositionsCounted, FS_Subset
    <3>4. Cardinality(Positions(Passed, m)) <= connects
      <4>1. CASE connects > 0
        BY <1>1, <2>0, <3>1, <3>3, <4>1 DEF IInv, RepeatsInv
      <4>2. CASE connects = 0
        <5>1. Positions(Passed, m) = {}
          BY <2>0, <4>2 DEF Positions
        <5> QED BY <4>2, <5>1, FS_EmptySet
      <4> QED BY <2>0, <4>1, <4>2
    <3> QED BY <2>0, <3>3, <3>4 DEF Positions
  <2> QED BY <2>2, <2>3 DEF RepeatsOnlyByResending
<1> QED BY <1>1, Inductive, PTL

=============================================================================
