------------------------- MODULE NotificationProofs -------------------------
(***************************************************************************)
(* The notification service for every number of alerts, failures, outages  *)
(* and crashes.  It is a consumer of its queue in the sense of             *)
(* RabbitMqConsumer, one whose handlers are never late; what is proved of  *)
(* the queue there then holds here, and with it that no alert is lost and  *)
(* that rows repeat only after a loss.                                     *)
(***************************************************************************)
EXTENDS Notification, TLAPS

QueueProofs == INSTANCE RabbitMqConsumerProofs

-----------------------------------------------------------------------------
(* The service implements its queue.                                       *)

\* A step of the service is one of the queue, or leaves the queue alone.
LEMMA StepOfQueue == [Next]_vars => [Queue!Next]_Queue!vars
<1> SUFFICES ASSUME [Next]_vars PROVE [Queue!Next]_Queue!vars
  OBVIOUS
<1> USE DEF Queue!Next
<1>1. ASSUME UNCHANGED queueVars PROVE UNCHANGED Queue!vars
  BY <1>1 DEF queueVars, Queue!vars, Queue!brokerVars, Queue!serviceVars,
     Queue!boundVars
<1>2. ASSUME NEW h \in handlers, HandlerStep(h)
      PROVE  Queue!HandlerEnds \/ UNCHANGED queueVars
  BY <1>2 DEF HandlerStep, Insert, Notify, InsertFails, Ends, Caught, Queue!HandlerEnds
<1>3. ASSUME NEW h \in posting, WebhookAnswers(h) PROVE UNCHANGED queueVars
  BY <1>3 DEF WebhookAnswers
<1>4. CASE Publish \/ Deliver \/ Connectivity \/ Crash \/ Rest
  BY <1>4 DEF Publish, Deliver, Connectivity, Crash, Rest
<1>5. CASE UNCHANGED vars
  BY <1>1, <1>5 DEF vars
<1> QED BY <1>1, <1>2, <1>3, <1>4, <1>5 DEF Next

\* The notification service consumes its queue as RabbitMqConsumer has it: a
\* handler settles its message once, after its work, whatever fails in it.
THEOREM ConsumesItsQueue == Spec => Queue!Spec
<1>1. Init => Queue!Init
  BY DEF Init
<1> QED BY <1>1, StepOfQueue, PTL DEF Spec, Queue!Spec

\* Handlers being over within the backoff, none is late.
LEMMA NeverLate == Spec => []~late
<1>1. Init => ~late
  BY DEF Init, Queue!Init
<1>2. ASSUME ~late, [Next]_vars PROVE ~late'
  <2>1. CASE Connectivity
    <3>1. CASE Queue!Reconnect /\ BackoffOutlastsHandlers
      BY <1>2, <3>1, Zenon DEF Queue!Reconnect, BackoffOutlastsHandlers
    <3> QED
      BY <1>2, <2>1, <3>1 DEF Connectivity, Queue!ConnectionLost, Queue!HandleClose
  <2>2. CASE UNCHANGED late
    BY <1>2, <2>2
  <2> QED
    BY <1>2, <2>1, <2>2
       DEF Next, Publish, Deliver, Crash, Rest, HandlerStep, Insert, Notify,
           InsertFails, Ends, WebhookAnswers, vars, queueVars, Queue!Publish,
           Queue!Deliver, Queue!Crash, Queue!Settle
<1> QED BY <1>1, <1>2, PTL DEF Spec

\* What RabbitMqConsumerProofs shows of a queue holds of this one.
QueueInv == QueueProofs!TypeOK /\ QueueProofs!SafeInv

LEMMA QueueIsSafe == Spec => []QueueInv
<1>1. Queue!Init <=> QueueProofs!Init
  BY DEF Queue!Init, QueueProofs!Init
<1>2. [Queue!Next]_Queue!vars <=> [QueueProofs!Next]_QueueProofs!vars
  BY Zenon
     DEF Queue!brokerVars, QueueProofs!brokerVars, Queue!serviceVars,
         QueueProofs!serviceVars, Queue!boundVars,
         QueueProofs!boundVars, Queue!vars, QueueProofs!vars,
         Queue!Messages, QueueProofs!Messages, Queue!Publish,
         QueueProofs!Publish, Queue!PrefetchAllows,
         QueueProofs!PrefetchAllows, Queue!AtHead, QueueProofs!AtHead,
         Queue!Deliver, QueueProofs!Deliver, Queue!UnsettledMessages,
         QueueProofs!UnsettledMessages, Queue!Requeue,
         QueueProofs!Requeue, Queue!ConnectionLost,
         QueueProofs!ConnectionLost, Queue!HandleClose,
         QueueProofs!HandleClose, Queue!Reconnect,
         QueueProofs!Reconnect, Queue!Settles, QueueProofs!Settles,
         Queue!SettlementLost, QueueProofs!SettlementLost,
         Queue!SettlementTaken, QueueProofs!SettlementTaken,
         Queue!SettlementRefused, QueueProofs!SettlementRefused,
         Queue!Settle, QueueProofs!Settle, Queue!HandlerEnds,
         QueueProofs!HandlerEnds, Queue!Crash, QueueProofs!Crash,
         Queue!Quiescent, QueueProofs!Quiescent, Queue!Rest,
         QueueProofs!Rest, Queue!Next, QueueProofs!Next
<1>3. QueueProofs!Spec
        => [](QueueProofs!TypeOK /\ (~late => QueueProofs!SafeInv))
  BY NotificationAssumption, QueueProofs!SafeInvariant
<1> QED
  BY <1>1, <1>2, <1>3, ConsumesItsQueue, NeverLate, PTL
     DEF Queue!Spec, QueueProofs!Spec, QueueInv

-----------------------------------------------------------------------------
(* The table.                                                              *)

\* Beside the types: a handler past its INSERT, and one that has completed, has
\* left a row.
RowsInv ==
    /\ DOMAIN step = handlers /\ rows \in Seq(1 .. published)
    /\ \A h \in handlers :
          /\ step[h] \in {"out", "executed"} /\ h.msg \in 1 .. published
          /\ step[h] = "executed" => h.msg \in Stored
    /\ handled \subseteq Stored
    /\ posting \subseteq Queue!HandlerRuns
    /\ posted \subseteq Stored /\ \A h \in posting : h.msg \in Stored
    /\ failures \in 0 .. MaxFailures

\* A row more.
LEMMA RowAdded ==
    ASSUME NEW S, rows \in Seq(S), NEW m \in S, rows' = Append(rows, m)
    PROVE  /\ rows' \in Seq(S) /\ Stored' = Stored \union {m}
           /\ DOMAIN rows = 1 .. Len(rows) /\ Len(rows) \in Nat
           /\ DOMAIN rows' = 1 .. (Len(rows) + 1)
           /\ rows'[Len(rows) + 1] = m
           /\ \A i \in DOMAIN rows : rows'[i] = rows[i]
<1>1. /\ rows' \in Seq(S) /\ Len(rows') = Len(rows) + 1 /\ Len(rows) \in Nat
      /\ DOMAIN rows = 1 .. Len(rows) /\ DOMAIN rows' = 1 .. (Len(rows) + 1)
      /\ rows'[Len(rows) + 1] = m
      /\ \A i \in DOMAIN rows : rows'[i] = rows[i]
  OBVIOUS
<1>2. Stored' = Stored \union {m}
  <2>1. \A i \in DOMAIN rows' : i \in DOMAIN rows \/ i = Len(rows) + 1
    BY <1>1
  <2>2. \A i \in DOMAIN rows : i \in DOMAIN rows'
    BY <1>1
  <2>3. Len(rows) + 1 \in DOMAIN rows'
    BY <1>1
  <2> QED BY <1>1, <2>1, <2>2, <2>3 DEF Stored
<1> QED BY <1>1, <1>2

LEMMA RowsAreOf ==
    ASSUME NEW S, rows \in Seq(S) PROVE Stored \subseteq S
BY DEF Stored

\* A row number stays one when alerts are published.
LEMMA MoreAlerts ==
    ASSUME rows \in Seq(1 .. published), published \in Nat, rows' = rows,
           published' = published + 1
    PROVE  rows' \in Seq(1 .. published') /\ Stored' = Stored
<1>1. 1 .. published \subseteq 1 .. published'
  OBVIOUS
<1> QED BY <1>1 DEF Stored

\* What every handler step does to the queue: a message handed out is settled.
LEMMA EndsStep ==
    ASSUME NEW h \in handlers, NEW ok \in BOOLEAN, Ends(h, ok), DOMAIN step = handlers
    PROVE  /\ handlers' = handlers \ {h} /\ DOMAIN step' = handlers'
           /\ \A g \in handlers' : step'[g] = step[g]
           /\ handled' = IF ok THEN handled \union {h.msg} ELSE handled
           /\ published' = published
BY DEF Ends, Queue!Settle, Queue!SettlementLost, Queue!SettlementTaken,
       Queue!SettlementRefused, Queue!Requeue, Queue!brokerVars

LEMMA RowsStep ==
    ASSUME QueueInv, RowsInv, [Next]_vars PROVE RowsInv'
<1> USE DEF RowsInv
<1>1. /\ published \in Nat /\ ready \subseteq 1 .. published
      /\ handlers \subseteq Queue!HandlerRuns /\ rows \in Seq(1 .. published)
      /\ MaxFailures \in Nat
  BY NotificationAssumption
     DEF QueueInv, QueueProofs!TypeOK, QueueProofs!SafeInv,
         QueueProofs!HeldArePublished, QueueProofs!HandlerRuns, Queue!HandlerRuns,
         QueueProofs!Messages, Queue!Messages
<1>2. CASE Publish
  <2>1. /\ published' = published + 1 /\ handlers' = handlers /\ step' = step
        /\ handled' = handled /\ rows' = rows /\ posting' = posting
        /\ posted' = posted /\ failures' = failures
    BY <1>2 DEF Publish, Queue!Publish, Queue!serviceVars
  <2> QED BY <1>1, <2>1, MoreAlerts
<1>3. CASE Deliver
  <2>1. PICK m \in ready : handlers' = handlers \union
                 {[gen |-> link, tag |-> lastTag + 1, msg |-> m]}
    BY <1>3 DEF Deliver, Queue!Deliver
  <2>2. /\ published' = published /\ handled' = handled /\ rows' = rows
        /\ posting' = posting /\ posted' = posted /\ failures' = failures
        /\ step' = [h \in handlers' |-> IF h \in handlers THEN step[h] ELSE "out"]
    BY <1>3 DEF Deliver, Queue!Deliver, Queue!boundVars
  <2>3. Stored' = Stored
    BY <2>2 DEF Stored
  <2>4. \A h \in handlers' : h \notin handlers => h.msg = m
    BY <2>1
  <2> QED BY <1>1, <2>1, <2>2, <2>3, <2>4
<1>4. CASE Connectivity
  <2>1. /\ published' = published /\ handlers' = handlers /\ handled' = handled
        /\ step' = step /\ rows' = rows /\ posting' = posting
        /\ posted' = posted /\ failures' = failures
    BY <1>4 DEF Connectivity, Queue!ConnectionLost, Queue!HandleClose,
       Queue!Reconnect, Queue!brokerVars, Queue!serviceVars
  <2> QED BY <1>1, <2>1 DEF Stored
<1>5. CASE Crash
  <2>1. /\ published' = published /\ handlers' = {} /\ handled' = handled
        /\ step' = << >> /\ rows' = rows /\ posting' = {}
        /\ posted' = posted /\ failures' = failures
    BY <1>5 DEF Crash, Queue!Crash
  <2> QED BY <1>1, <2>1 DEF Stored
<1>6. ASSUME NEW h \in handlers, Insert(h) PROVE RowsInv'
  <2>1. /\ published' = published /\ handlers' = handlers /\ handled' = handled
        /\ step' = [step EXCEPT ![h] = "executed"] /\ posting' = posting
        /\ posted' = posted /\ failures' = failures /\ rows' = Append(rows, h.msg)
    BY <1>6 DEF Insert, queueVars
  <2>2. rows' \in Seq(1 .. published) /\ Stored' = Stored \union {h.msg}
    BY <1>1, <2>1, RowAdded
  <2> QED BY <1>1, <2>1, <2>2
<1>7. ASSUME NEW h \in handlers, Notify(h) PROVE RowsInv'
  <2>1. /\ posting' = posting \union {h} /\ Ends(h, TRUE) /\ step[h] = "executed"
        /\ rows' = rows /\ posted' = posted /\ failures' = failures
    BY <1>7 DEF Notify, Answered
  <2>2. /\ handlers' = handlers \ {h} /\ DOMAIN step' = handlers'
        /\ \A g \in handlers' : step'[g] = step[g]
        /\ handled' = handled \union {h.msg} /\ published' = published
    BY <2>1, EndsStep
  <2> QED BY <1>1, <2>1, <2>2 DEF Stored
<1>8. ASSUME NEW h \in handlers, InsertFails(h) PROVE RowsInv'
  <2>1. /\ failures < MaxFailures /\ failures' = failures + 1 /\ Ends(h, FALSE)
        /\ rows' = rows /\ posting' = posting /\ posted' = posted
    BY <1>8 DEF InsertFails, Caught
  <2>2. /\ handlers' = handlers \ {h} /\ DOMAIN step' = handlers'
        /\ \A g \in handlers' : step'[g] = step[g]
        /\ handled' = handled /\ published' = published
    BY <2>1, EndsStep
  <2> QED BY <1>1, <2>1, <2>2 DEF Stored
<1>9. ASSUME NEW h \in posting, WebhookAnswers(h) PROVE RowsInv'
  <2>1. /\ posting' = posting \ {h} /\ posted' \subseteq posted \union {h.msg}
        /\ \/ failures' = failures
           \/ failures < MaxFailures /\ failures' = failures + 1
        /\ published' = published /\ handlers' = handlers /\ handled' = handled
        /\ step' = step /\ rows' = rows
    BY <1>9 DEF WebhookAnswers, queueVars
  <2> QED BY <1>1, <2>1 DEF Stored
<1>10. CASE UNCHANGED vars
  <2>1. /\ published' = published /\ handlers' = handlers /\ handled' = handled
        /\ step' = step /\ rows' = rows /\ posting' = posting
        /\ posted' = posted /\ failures' = failures
    BY <1>10 DEF vars, queueVars
  <2> QED BY <1>1, <2>1 DEF Stored
<1> QED
  BY <1>2, <1>3, <1>4, <1>5, <1>6, <1>7, <1>8, <1>9, <1>10
     DEF Next, HandlerStep, Rest

LEMMA RowsInvariant == Spec => [](QueueInv /\ RowsInv)
<1>1. Init => RowsInv
  BY NotificationAssumption DEF Init, Queue!Init, RowsInv, Stored
<1>2. QueueInv /\ RowsInv /\ [Next]_vars => RowsInv'
  BY RowsStep
<1> QED BY <1>1, <1>2, QueueIsSafe, PTL DEF Spec

\* Types, for every bound: a handler past its INSERT has its row.
THEOREM TypeCorrect == Spec => []TypeOK
<1>1. QueueInv /\ RowsInv => TypeOK
  <2> SUFFICES ASSUME QueueInv, RowsInv PROVE TypeOK
    OBVIOUS
  <2>1. Queue!TypeOK
    BY Zenon
       DEF QueueInv, QueueProofs!TypeOK, Queue!TypeOK, QueueProofs!Messages,
           Queue!Messages, QueueProofs!Deliveries, Queue!Deliveries,
           QueueProofs!HandlerRuns, Queue!HandlerRuns
  <2>2. Stored \subseteq 1 .. published
    BY RowsAreOf DEF RowsInv
  <2> QED BY <2>1, <2>2 DEF TypeOK, RowsInv
<1> QED BY <1>1, RowsInvariant, PTL

\* For every number of outages, crashes and failures: an alert that is not in
\* the table is in the queue, in the dead-letter queue, or with a handler, as long
\* as handlers end within the reconnect backoff.
THEOREM AlertsAreKept == Spec => []NoAlertIsLost
<1>1. QueueInv /\ RowsInv => NoAlertIsLost
  BY DEF QueueInv, QueueProofs!SafeInv, QueueProofs!MessagesAreKept, RowsInv,
     NoAlertIsLost, QueueProofs!UnsettledMessages, Queue!UnsettledMessages
<1> QED BY <1>1, RowsInvariant, PTL

-----------------------------------------------------------------------------
(* Rows, as long as no connection is lost and the process does not crash.  *)

\* What is settled lies before what is handed out, and that before what is
\* ready; a row is of a message settled, or of a handler past its INSERT.
OrderInv ==
    /\ link # 0
    /\ \A m \in handled \union dlq :
          /\ m \in 1 .. published
          /\ \A n \in ready : m < n
          /\ \A h \in handlers : m < h.msg
    /\ \A h \in handlers : \A n \in ready : h.msg < n
    /\ \A i \in DOMAIN rows :
          \/ rows[i] \in handled \union dlq
          \/ \E h \in handlers : step[h] = "executed" /\ rows[i] = h.msg
    /\ \A i, j \in DOMAIN rows : i < j => rows[i] < rows[j]

\* The one handler settles its own message.
LEMMA SettlesItsOwn ==
    ASSUME QueueInv, link # 0, NEW h \in handlers, NEW ok \in BOOLEAN, Queue!Settle(h, ok)
    PROVE  /\ handlers' = {} /\ handlers = {h}
           /\ link' = link /\ ready' = ready /\ published' = published
           /\ handled' \union dlq' = handled \union dlq \union {h.msg}
<1>1. QueueProofs!Settle(h, ok)
  BY Zenon
     DEF Queue!Settle, QueueProofs!Settle, Queue!Settles, QueueProofs!Settles,
         Queue!SettlementLost, QueueProofs!SettlementLost, Queue!SettlementTaken,
         QueueProofs!SettlementTaken, Queue!SettlementRefused,
         QueueProofs!SettlementRefused, Queue!Requeue, QueueProofs!Requeue,
         Queue!UnsettledMessages, QueueProofs!UnsettledMessages, Queue!brokerVars,
         QueueProofs!brokerVars, Queue!boundVars, QueueProofs!boundVars
<1> QED BY <1>1, NotificationAssumption, QueueProofs!OwnSettlement DEF QueueInv

LEMMA OrderStep ==
    ASSUME QueueInv, RowsInv, OrderInv, [Next]_vars,
           outages' = outages, crashes' = crashes
    PROVE  OrderInv'
<1> USE DEF OrderInv
<1>1. /\ published \in Nat /\ ready \subseteq 1 .. published
      /\ rows \in Seq(1 .. published) /\ dlq \subseteq Nat /\ handled \subseteq Nat
      /\ DOMAIN step = handlers
      /\ \A h \in handlers : h.msg \in 1 .. published
      /\ outages \in Nat /\ crashes \in Nat
  BY NotificationAssumption
     DEF QueueInv, QueueProofs!TypeOK, QueueProofs!SafeInv, RowsInv,
         QueueProofs!HeldArePublished, QueueProofs!Messages
<1>2. CASE Publish
  <2>1. /\ published' = published + 1 /\ ready' = ready \union {published + 1}
        /\ handlers' = handlers /\ step' = step /\ handled' = handled
        /\ dlq' = dlq /\ rows' = rows /\ link' = link
    BY <1>2 DEF Publish, Queue!Publish, Queue!serviceVars
  <2>2. \A n \in ready' : n \in ready \/ n = published + 1
    BY <2>1
  <2>3. \A m \in handled \union dlq :
            m \in 1 .. published' /\ \A n \in ready' : m < n
    BY <1>1, <2>1, <2>2
  <2>4. ASSUME NEW h \in handlers, NEW n \in ready' PROVE h.msg < n
    <3>1. CASE n \in ready
      BY <3>1
    <3>2. CASE n = published + 1
      <4> HIDE DEF OrderInv
      <4> QED BY <1>1, <3>2
    <3> QED BY <2>2, <3>1, <3>2
  <2> QED BY <2>1, <2>3, <2>4
<1>3. CASE Deliver
  <2>1. PICK m \in ready :
            /\ Queue!AtHead(m) /\ ready' = ready \ {m}
            /\ handlers' = handlers \union
                   {[gen |-> link, tag |-> lastTag + 1, msg |-> m]}
    BY <1>3 DEF Deliver, Queue!Deliver
  <2>2. /\ published' = published /\ handled' = handled /\ dlq' = dlq
        /\ rows' = rows /\ link' = link
        /\ step' = [h \in handlers' |-> IF h \in handlers THEN step[h] ELSE "out"]
    BY <1>3 DEF Deliver, Queue!Deliver, Queue!boundVars
  <2>3. \A h \in handlers' : h \in handlers \/ h.msg = m
    BY <2>1
  <2>4. \A n \in ready' : m < n
    BY <1>1, <2>1 DEF Queue!AtHead
  <2>5. \A h \in handlers : h \in handlers' /\ step'[h] = step[h]
    BY <2>1, <2>2
  <2> QED BY <1>1, <2>1, <2>2, <2>3, <2>4, <2>5
<1>4. CASE Connectivity
  <2>1. FALSE
    <3>1. ~Queue!ConnectionLost
      BY <1>1 DEF Queue!ConnectionLost
    <3>2. link # 0
      OBVIOUS
    <3> QED
      BY <1>4, <3>1, <3>2 DEF Connectivity, Queue!HandleClose, Queue!Reconnect
  <2> QED BY <2>1
<1>5. CASE Crash
  BY <1>1, <1>5 DEF Crash, Queue!Crash
<1>6. ASSUME NEW h \in handlers, Insert(h) PROVE OrderInv'
  <2>1. /\ published' = published /\ handlers' = handlers /\ handled' = handled
        /\ dlq' = dlq /\ ready' = ready /\ link' = link /\ step[h] = "out"
        /\ step' = [step EXCEPT ![h] = "executed"] /\ rows' = Append(rows, h.msg)
    BY <1>6 DEF Insert, queueVars
  <2>2. /\ DOMAIN rows = 1 .. Len(rows) /\ Len(rows) \in Nat
        /\ DOMAIN rows' = 1 .. (Len(rows) + 1)
        /\ rows'[Len(rows) + 1] = h.msg
        /\ \A i \in DOMAIN rows : rows'[i] = rows[i] /\ rows[i] \in 1 .. published
    BY <1>1, <2>1, RowAdded
  <2>3. handlers = {h}
    BY DEF QueueInv, QueueProofs!SafeInv, QueueProofs!OneHandler
  <2>4. \A i \in DOMAIN rows : rows[i] \in handled \union dlq /\ rows[i] < h.msg
    BY <2>1, <2>3
  <2>5. ASSUME NEW i \in DOMAIN rows', NEW j \in DOMAIN rows', i < j
        PROVE  rows'[i] < rows'[j]
    <3>1. i \in DOMAIN rows /\ rows'[i] = rows[i] /\ rows[i] < h.msg
      BY <2>2, <2>4, <2>5
    <3>2. CASE j \in DOMAIN rows
      BY <2>2, <2>5, <3>1, <3>2
    <3>3. CASE j = Len(rows) + 1
      BY <2>2, <3>1, <3>3
    <3> QED BY <2>2, <3>2, <3>3
  <2>6. \A i \in DOMAIN rows' :
            \/ rows'[i] \in handled \union dlq
            \/ step'[h] = "executed" /\ rows'[i] = h.msg
    BY <1>1, <2>1, <2>2, <2>4
  <2> QED BY <2>1, <2>3, <2>5, <2>6
<1>7. ASSUME NEW h \in handlers, NEW ok \in BOOLEAN, Ends(h, ok), rows' = rows
      PROVE  OrderInv'
  <2>1. /\ handlers' = {} /\ handlers = {h} /\ link' = link /\ ready' = ready
        /\ published' = published
        /\ handled' \union dlq' = handled \union dlq \union {h.msg}
    BY <1>7, SettlesItsOwn DEF Ends
  <2>2. \A m : m \in handled' \union dlq' <=> m \in handled \union dlq \/ m = h.msg
    BY <2>1
  <2>3. ASSUME NEW m \in handled' \union dlq'
        PROVE  m \in 1 .. published /\ \A n \in ready : m < n
    <3>1. CASE m \in handled \union dlq
      BY <3>1
    <3>2. CASE m = h.msg
      BY <1>1, <3>2
    <3> QED BY <2>2, <3>1, <3>2
  <2>4. \A i \in DOMAIN rows : rows[i] \in handled' \union dlq'
    BY <2>1, <2>2
  <2> QED BY <1>7, <2>1, <2>3, <2>4
<1>8. CASE UNCHANGED <<published, ready, dlq, link, handlers, handled, step, rows>>
  BY <1>8
<1>9. ASSUME NEW h \in handlers, HandlerStep(h) PROVE OrderInv'
  <2>1. Insert(h) \/ \E ok \in BOOLEAN : Ends(h, ok) /\ rows' = rows
    BY <1>9 DEF HandlerStep, Notify, InsertFails, Caught
  <2> QED BY <1>6, <1>7, <2>1
<1>10. ASSUME NEW h \in posting, WebhookAnswers(h) PROVE OrderInv'
  BY <1>8, <1>10 DEF WebhookAnswers, queueVars
<1>11. CASE UNCHANGED vars
  BY <1>8, <1>11 DEF vars, queueVars
<1> QED
  BY <1>2, <1>3, <1>4, <1>5, <1>9, <1>10, <1>11 DEF Next, Rest

\* Rows repeat only after a connection is lost or the process crashes, and only
\* then are they out of order, whatever inserts fail.
THEOREM OneRowUntilALoss == Spec => []RowsRepeatOnlyAfterLoss
<1> DEFINE NoLoss == outages = 0 /\ crashes = 0
<1>1. Init => OrderInv
  BY DEF Init, Queue!Init, OrderInv
<1>2. QueueInv /\ RowsInv /\ (NoLoss => OrderInv) /\ [Next]_vars
        => (NoLoss' => OrderInv')
  <2>1. ASSUME QueueInv, [Next]_vars, NoLoss' PROVE NoLoss
    <3>1. outages \in Nat /\ crashes \in Nat
      BY <2>1 DEF QueueInv, QueueProofs!TypeOK
    <3>2. outages' \in {outages, outages + 1} /\ crashes' \in {crashes, crashes + 1}
      BY <2>1
         DEF Next, Publish, Deliver, Connectivity, Crash, Rest, HandlerStep, Insert,
             Notify, InsertFails, Ends, WebhookAnswers, vars, queueVars, Queue!Publish,
             Queue!Deliver, Queue!ConnectionLost, Queue!HandleClose, Queue!Reconnect,
             Queue!Crash, Queue!Settle, Queue!boundVars
    <3> QED BY <2>1, <3>1, <3>2
  <2> QED BY <2>1, OrderStep
<1>3. (NoLoss => OrderInv) => RowsRepeatOnlyAfterLoss
  BY DEF OrderInv, RowsRepeatOnlyAfterLoss
<1> QED BY <1>1, <1>2, <1>3, RowsInvariant, PTL DEF Spec

=============================================================================
