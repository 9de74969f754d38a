------------------------- MODULE RabbitMqConnection -------------------------
(***************************************************************************)
(* How RabbitMqService gets a connection, keeps consumers on it, gets a    *)
(* new one when it closes and stops at shutdown.  One action per stretch   *)
(* of code between two awaits; the requests an await covers with no other  *)
(* effect between them are one step.  A connection is named by its         *)
(* generation; this.connection and this.channel change together, so the    *)
(* channel stands for both.                                                *)
(***************************************************************************)
EXTENDS Integers, FiniteSets

CONSTANTS
    Consumers,  \* consumers the modules register as the process starts
    MaxOutages  \* bound: connections closed by the broker or the network

BASE_RECONNECT_DELAY_MS == 2000
MAX_RECONNECT_DELAY_MS == 30000

ASSUME ConnectionAssumption == Consumers \in Nat /\ MaxOutages \in Nat

VARIABLES
    live,         \* connections open, by generation
    epoch,        \* connections made so far
    subscribed,   \* consumers active at the broker: <<generation, consumer, tag>>
    channel,      \* this.channel and this.connection, 0: undefined
    registered,   \* this.consumers: 1 .. registered
    reconnecting, closing, reconnectDelayMs,
    timers,       \* reconnects waiting in setTimeout
    attempts,     \* calls of establish in progress: [origin, at, gen, replied]
    booting,      \* generation on which consume() awaits its setup, 0: none
    raced,        \* history: has 'close' ever come between a reply and the code
                  \* that awaits it?
    outages

vars == <<live, epoch, subscribed, channel, registered, reconnecting, closing,
          reconnectDelayMs, timers, attempts, booting, raced, outages>>

\* at: the await establish is in, a consumer number standing for its setup.
CONNECTING == -1
DECLARING == 0
Attempt(origin) == [origin |-> origin, at |-> CONNECTING, gen |-> 0, replied |-> FALSE]

\* onModuleInit starts the first attempt.
Init ==
    /\ live = {} /\ epoch = 0 /\ subscribed = {}
    /\ channel = 0 /\ registered = 0
    /\ reconnecting = FALSE /\ closing = FALSE
    /\ reconnectDelayMs = BASE_RECONNECT_DELAY_MS
    /\ timers = 0 /\ attempts = {Attempt("init")} /\ booting = 0
    /\ raced = FALSE /\ outages = 0

\* What runs after an await comes before the next event of the loop.
LoopIsFree == \A a \in attempts : ~a.replied
Booted == registered = Consumers /\ booting = 0

\* The broker activates consumer i on connection g, under a tag of its own.
Activated(g, i) ==
    subscribed \union {<<g, i, Cardinality({s \in subscribed : s[1] = g})>>}

-----------------------------------------------------------------------------
(* Shared parts of the handlers.                                           *)

\* Variant: every closed connection starts a chain of its own.
MayScheduleAgain == ~closing

MaySchedule == ~closing /\ ~reconnecting

Smaller(x, y) == IF x < y THEN x ELSE y

\* Variant: no upper limit.
DoubledForEver(delay) == 2 * delay

Doubled(delay) == Smaller(2 * delay, MAX_RECONNECT_DELAY_MS)

\* Variant: a reconnect that fails is only logged.
FailForGood(a, delay) ==
    /\ reconnectDelayMs' = Doubled(delay)
    /\ UNCHANGED <<timers, reconnecting>>

\* The catch blocks of onModuleInit and of reconnect, the delay being what
\* establish left.
Fail(a, delay) ==
    IF a.origin = "init"
    THEN /\ reconnecting' = (reconnecting \/ MaySchedule)
         /\ timers' = IF MaySchedule THEN timers + 1 ELSE timers
         /\ reconnectDelayMs' = delay
    ELSE /\ timers' = timers + 1
         /\ reconnectDelayMs' = Doubled(delay)
         /\ UNCHANGED reconnecting

\* Variant: the flag stays set.
SucceedSilently(a, delay) ==
    /\ reconnectDelayMs' = delay
    /\ UNCHANGED <<timers, reconnecting>>

\* establish has returned; reconnect clears its flag.
Succeed(a, delay) ==
    /\ reconnecting' = IF a.origin = "reconnect" THEN FALSE ELSE reconnecting
    /\ reconnectDelayMs' = delay
    /\ UNCHANGED timers

-----------------------------------------------------------------------------
(* establish.                                                              *)

ConnectFails(a) ==
    /\ LoopIsFree /\ a.at = CONNECTING
    /\ attempts' = attempts \ {a}
    /\ Fail(a, reconnectDelayMs)
    /\ UNCHANGED <<live, epoch, subscribed, channel, registered, closing,
                   booting, raced, outages>>

ConnectSucceeds(a) ==
    /\ LoopIsFree /\ a.at = CONNECTING
    /\ epoch' = epoch + 1
    /\ live' = live \union {epoch'}
    /\ attempts' = (attempts \ {a}) \union
                       {[a EXCEPT !.at = DECLARING, !.gen = epoch']}
    /\ UNCHANGED <<subscribed, channel, registered, reconnecting, closing,
                   reconnectDelayMs, timers, booting, raced, outages>>

\* The broker answers what the attempt awaits.
Reply(a) ==
    /\ LoopIsFree
    /\ a.at # CONNECTING /\ a.gen \in live
    /\ attempts' = (attempts \ {a}) \union {[a EXCEPT !.replied = TRUE]}
    /\ subscribed' = IF a.at = DECLARING THEN subscribed ELSE Activated(a.gen, a.at)
    /\ UNCHANGED <<live, epoch, channel, registered, reconnecting, closing,
                   reconnectDelayMs, timers, booting, raced, outages>>

\* establish runs on to its next consumer, on whatever channel there is then:
\* setupConsumer returns at once without one, and throws on a closed one.
Continue(a) ==
    /\ a.replied
    /\ channel' = IF a.at = DECLARING THEN a.gen ELSE channel
    /\ LET next  == a.at + 1
           delay == IF a.at = DECLARING THEN BASE_RECONNECT_DELAY_MS
                                        ELSE reconnectDelayMs
           waits == [a EXCEPT !.at = next, !.gen = channel', !.replied = FALSE]
       IN  \/ /\ next > registered \/ channel' = 0
              /\ attempts' = attempts \ {a}
              /\ Succeed(a, delay)
           \/ /\ next <= registered /\ channel' # 0 /\ channel' \notin live
              /\ attempts' = attempts \ {a}
              /\ Fail(a, delay)
           \/ /\ next <= registered /\ channel' \in live
              /\ attempts' = (attempts \ {a}) \union {waits}
              /\ reconnectDelayMs' = delay
              /\ UNCHANGED <<reconnecting, timers>>
    /\ UNCHANGED <<live, epoch, subscribed, registered, closing, booting, raced, outages>>

-----------------------------------------------------------------------------
(* The end of a connection, and of the process.                            *)

\* What is awaited on the connection is rejected.
Rejected(g) == {a \in attempts : a.gen = g /\ ~a.replied}
Retried(g) == {a \in Rejected(g) : a.origin = "reconnect"}

\* Connection g closes: handleClose, then the catch block of an attempt that
\* awaits a reply on it.  (In onModuleInit's, scheduleReconnect finds the work
\* done by handleClose.)
Closed(g, schedules) ==
    /\ live' = live \ {g}
    /\ subscribed' = {s \in subscribed : s[1] # g}
    /\ channel' = 0
    /\ reconnecting' = (reconnecting \/ schedules)
    /\ timers' = timers + Cardinality(Retried(g)) + (IF schedules THEN 1 ELSE 0)
    /\ attempts' = attempts \ Rejected(g)
    /\ reconnectDelayMs' = IF Retried(g) = {} THEN reconnectDelayMs
                           ELSE Doubled(reconnectDelayMs)

\* One read of the socket may carry a reply and the end of the connection:
\* 'close' is then emitted before the code that awaits the reply runs on.
RacesReply(g) == \E a \in attempts : a.replied /\ a.gen = g

ConnectionLost(g) ==
    /\ outages < MaxOutages
    /\ outages' = outages + 1
    /\ LoopIsFree \/ RacesReply(g)
    /\ raced' = (raced \/ RacesReply(g))
    /\ booting # g
    /\ Closed(g, MaySchedule)
    /\ UNCHANGED <<epoch, registered, closing, booting>>

\* The setup that consume() awaits is rejected, or throws on a channel already
\* closed: the module does not start, and the process exits and is started again.
BootFails ==
    /\ booting # 0
    /\ \/ booting \notin live /\ UNCHANGED outages
       \/ booting \in live /\ outages < MaxOutages /\ outages' = outages + 1
    /\ live' = {} /\ subscribed' = {}
    /\ channel' = 0 /\ registered' = 0 /\ booting' = 0
    /\ reconnecting' = FALSE /\ timers' = 0 /\ attempts' = {Attempt("init")}
    /\ reconnectDelayMs' = BASE_RECONNECT_DELAY_MS
    /\ UNCHANGED <<epoch, closing, raced>>

\* onApplicationShutdown closes the connection there is at that moment.
Shutdown ==
    /\ ~closing /\ LoopIsFree /\ Booted
    /\ closing' = TRUE
    /\ IF channel # 0
       THEN Closed(channel, FALSE)
       ELSE UNCHANGED <<live, subscribed, channel, reconnecting, timers,
                        attempts, reconnectDelayMs>>
    /\ UNCHANGED <<epoch, registered, booting, raced, outages>>

-----------------------------------------------------------------------------
(* The reconnect timer, and the consumers registered as the modules start. *)

\* Variant: reconnect does not look at closing.
TimerFiresRegardless ==
    /\ timers > 0 /\ LoopIsFree /\ Booted
    /\ timers' = timers - 1
    /\ attempts' = attempts \union {Attempt("reconnect")}
    /\ UNCHANGED <<live, epoch, subscribed, channel, registered, reconnecting,
                   closing, reconnectDelayMs, booting, raced, outages>>

\* The backoff is longer than the start of the modules.
TimerFires ==
    /\ timers > 0 /\ LoopIsFree /\ Booted
    /\ timers' = timers - 1
    /\ IF closing
       THEN reconnecting' = FALSE /\ UNCHANGED attempts
       ELSE attempts' = attempts \union {Attempt("reconnect")} /\ UNCHANGED reconnecting
    /\ UNCHANGED <<live, epoch, subscribed, channel, registered, closing,
                   reconnectDelayMs, booting, raced, outages>>

\* onModuleInit of RabbitMqService comes before those of its users.
Consume ==
    /\ LoopIsFree /\ registered < Consumers /\ booting = 0
    /\ \A a \in attempts : a.origin # "init"
    /\ registered' = registered + 1
    /\ booting' = channel
    /\ UNCHANGED <<live, epoch, subscribed, channel, reconnecting, closing,
                   reconnectDelayMs, timers, attempts, raced, outages>>

Consumed ==
    /\ booting \in live
    /\ subscribed' = Activated(booting, registered)
    /\ booting' = 0
    /\ UNCHANGED <<live, epoch, channel, registered, reconnecting, closing,
                   reconnectDelayMs, timers, attempts, raced, outages>>

-----------------------------------------------------------------------------

Step(a) == ConnectFails(a) \/ ConnectSucceeds(a) \/ Reply(a) \/ Continue(a)

\* Connected, or shut down: nothing to do until something closes.
Rest ==
    /\ Booted /\ attempts = {} /\ timers = 0
    /\ closing \/ channel # 0
    /\ UNCHANGED vars

Next ==
    \/ \E a \in attempts : Step(a)
    \/ \E g \in live : ConnectionLost(g)
    \/ Shutdown \/ TimerFires
    \/ Consume \/ Consumed \/ BootFails
    \/ Rest

Spec == Init /\ [][Next]_vars

\* Timers fire, awaited calls end, modules start; and a connect that is tried
\* again and again succeeds in the end, the broker being restarted.  Nothing
\* makes a connection close or the process shut down.
FairSpec ==
    /\ Spec
    /\ WF_vars(TimerFires) /\ WF_vars(Consume) /\ WF_vars(Consumed \/ BootFails)
    /\ WF_vars(\E a \in attempts : Step(a))
    /\ SF_vars(\E a \in attempts : ConnectSucceeds(a))

-----------------------------------------------------------------------------
(* Properties.                                                             *)

\* Types: generations are ones there have been, the backoff stays within its
\* two limits, and whatever is active belongs to an open connection.
TypeOK ==
    /\ epoch \in Nat /\ live \subseteq 1 .. epoch /\ channel \in 0 .. epoch
    /\ booting \in 0 .. epoch /\ registered \in 0 .. Consumers
    /\ \A s \in subscribed : s[1] \in live /\ s[2] \in 1 .. registered
    /\ attempts \subseteq
           [origin : {"init", "reconnect"}, at : -1 .. Consumers,
            gen : 0 .. epoch, replied : BOOLEAN]
    /\ {reconnecting, closing, raced} \subseteq BOOLEAN
    /\ timers \in Nat
    /\ reconnectDelayMs \in BASE_RECONNECT_DELAY_MS .. MAX_RECONNECT_DELAY_MS

\* Every consumer registered is active on the open connection.
Subscribed ==
    \A i \in 1 .. registered : \E s \in subscribed : s[1] = channel /\ s[2] = i

\* The service is never stranded: while it is up, either it is connected with
\* every consumer active, or something that is already under way (a timer, an
\* attempt, a setup at the start) will see to it.  Nothing else would.  It is
\* what handleClose says when a connection closes, "scheduling reconnect".
NeverStranded ==
    \/ closing \/ timers > 0 \/ attempts # {} \/ booting # 0
    \/ channel \in live /\ Subscribed

\* In whatever await a connection closes, only a close in the same read as a
\* reply can strand the service.
StrandedOnlyByRace == raced \/ NeverStranded

\* One chain of reconnects: the flag says so exactly when one timer or one
\* attempt of it exists.  Two chains would make two connections; a flag left
\* set would make scheduleReconnect refuse for good.
OneReconnectChain ==
    timers + Cardinality({a \in attempts : a.origin = "reconnect"})
        = IF reconnecting THEN 1 ELSE 0

\* No consumer is active twice, on one connection or on two: a second one has
\* a prefetch of its own, and handlers would run side by side.
SubscribedOnce ==
    \A s, t \in subscribed : s[2] = t[2] => s = t

\* Outages over, the service ends up connected with its consumers active,
\* unless it is shut down or a close has raced a reply.
Connected == channel \in live /\ Subscribed /\ registered = Consumers
Recovers == <>[](closing \/ raced \/ Connected)

\* Once shutdown has begun no further attempt to connect is started, by a timer
\* already set or by one that a failing attempt still sets.
NoConnectAfterShutdown ==
    [][closing => \A a \in attempts' : a.at = CONNECTING => a \in attempts]_vars

=============================================================================
