---------------------------- MODULE Notification ----------------------------
(***************************************************************************)
(* The notification service on top of its queue: each alert taken from     *)
(* notification.alerts is inserted into the alerts table, then sent to the *)
(* webhook without waiting for it, and acknowledged.  Message m of the     *)
(* queue is alert m.                                                       *)
(***************************************************************************)
EXTENDS Integers, Sequences

CONSTANTS
    MaxFailures,    \* bound: inserts and webhook calls that fail
    MaxMessages, MaxOutages, MaxCrashes

ASSUME NotificationAssumption ==
    {MaxFailures, MaxMessages, MaxOutages, MaxCrashes} \subseteq Nat

VARIABLES
    published, ready, unacked, dlq, link, lastTag, epoch, channel, handlers,
    handled, late, outages, crashes,      \* as in RabbitMqConsumer
    step,       \* of each handler: its INSERT is "out", or "executed"
    rows,       \* the alerts table, in order of insertion
    posting,    \* handlers that sent a webhook call not answered yet
    posted,     \* alerts the webhook took
    failures

Queue == INSTANCE RabbitMqConsumer

queueVars ==
    <<published, ready, unacked, dlq, link, lastTag, epoch, channel, handlers,
      handled, late, outages, crashes>>
vars == <<queueVars, step, rows, posting, posted, failures>>

Stored == {rows[i] : i \in DOMAIN rows}

Init ==
    /\ Queue!Init
    /\ step = << >> /\ rows = << >>
    /\ posting = {} /\ posted = {}
    /\ failures = 0

-----------------------------------------------------------------------------
(* The queue.                                                              *)

\* The rule engine publishes alert.triggered.
Publish ==
    /\ Queue!Publish
    /\ UNCHANGED <<step, rows, posting, posted, failures>>

\* handleAlert starts with its INSERT.
Deliver ==
    /\ Queue!Deliver
    /\ step' = [h \in handlers' |-> IF h \in handlers THEN step[h] ELSE "out"]
    /\ UNCHANGED <<rows, posting, posted, failures>>

\* Handlers end within the reconnect backoff: here none is late.
BackoffOutlastsHandlers == handlers = {}
Connectivity ==
    /\ \/ Queue!ConnectionLost \/ Queue!HandleClose
       \/ Queue!Reconnect /\ BackoffOutlastsHandlers
    /\ UNCHANGED <<step, rows, posting, posted, failures>>

Crash ==
    /\ Queue!Crash
    /\ step' = << >> /\ posting' = {}
    /\ UNCHANGED <<rows, posted, failures>>

Ends(h, ok) ==
    /\ Queue!Settle(h, ok)
    /\ step' = [g \in handlers' |-> step[g]]

-----------------------------------------------------------------------------
(* handleAlert and deliverWebhook.                                         *)

\* The database executes the INSERT: a row of its own for each.
Insert(h) ==
    /\ step[h] = "out"
    /\ rows' = Append(rows, h.msg)
    /\ step' = [step EXCEPT ![h] = "executed"]
    /\ UNCHANGED <<queueVars, posting, posted, failures>>

\* Variant: the INSERT is not awaited.
AnsweredOrNot(h) == TRUE

Answered(h) == step[h] = "executed"

\* The INSERT is answered: the webhook call goes out, the alert is acknowledged.
Notify(h) ==
    /\ Answered(h)
    /\ posting' = posting \union {h}
    /\ Ends(h, TRUE)
    /\ UNCHANGED <<rows, posted, failures>>

\* Variant: a failed INSERT is caught and logged.
CaughtAndLogged == TRUE

\* handleAlert catches nothing: its promise is rejected with the INSERT.
Caught == FALSE

\* The INSERT is rejected, executed or not.
InsertFails(h) ==
    /\ failures < MaxFailures /\ failures' = failures + 1
    /\ Ends(h, Caught)
    /\ UNCHANGED <<rows, posting, posted>>

\* The webhook answers; a failed call is only logged.
WebhookAnswers(h) ==
    /\ posting' = posting \ {h}
    /\ \/ posted' = posted \union {h.msg} /\ UNCHANGED failures
       \/ /\ failures < MaxFailures /\ failures' = failures + 1
          /\ UNCHANGED posted
    /\ UNCHANGED <<queueVars, step, rows>>

HandlerStep(h) == Insert(h) \/ Notify(h) \/ InsertFails(h)

Rest == Queue!Rest /\ posting = {} /\ UNCHANGED vars

Next ==
    \/ Publish \/ Deliver \/ Connectivity \/ Crash
    \/ \E h \in handlers : HandlerStep(h)
    \/ \E h \in posting : WebhookAnswers(h)
    \/ Rest

Spec == Init /\ [][Next]_vars

\* As in RabbitMqConsumer; the database and the webhook answer.
FairSpec ==
    /\ Spec
    /\ WF_vars(Deliver) /\ WF_vars(Connectivity)
    /\ WF_vars(\E h \in handlers : HandlerStep(h))
    /\ WF_vars(\E h \in posting : WebhookAnswers(h))

-----------------------------------------------------------------------------
(* Properties.                                                             *)

\* Types: those of the queue, every handler has its step, and what was posted
\* is in the table.
TypeOK ==
    /\ Queue!TypeOK
    /\ DOMAIN step = handlers
    /\ \A h \in handlers : step[h] \in {"out", "executed"}
    /\ posting \subseteq Queue!HandlerRuns
    /\ posted \union {h.msg : h \in posting} \subseteq Stored
    /\ Stored \subseteq 1 .. published
    /\ failures \in 0 .. MaxFailures

\* No alert is lost: through outages, crashes and failing inserts it is in the
\* table or the dead-letter queue, still queued or unsettled, or in the hands of
\* a handler, as long as handlers end within the reconnect backoff.
NoAlertIsLost ==
    \A m \in 1 .. published :
        \/ m \in Stored \union dlq \union ready \union Queue!UnsettledMessages
        \/ \E h \in handlers : h.msg = m

\* An alert has one row, and rows are in the order of the alerts, as long as no
\* connection is lost and the process does not crash: a failed insert, executed
\* or not, is not tried again.
RowsRepeatOnlyAfterLoss ==
    outages = 0 /\ crashes = 0 =>
        \A i, j \in DOMAIN rows : i < j => rows[i] < rows[j]

\* Every alert reaches the table or the dead-letter queue in the end (handlers
\* ending within the reconnect backoff).
EveryAlertIsStored ==
    \A m \in 1 .. MaxMessages : published >= m ~> m \in Stored \union dlq

=============================================================================
