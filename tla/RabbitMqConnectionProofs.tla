---------------------- MODULE RabbitMqConnectionProofs ----------------------
(***************************************************************************)
(* The reconnect logic for every number of consumers and of connections    *)
(* lost: there is one chain of reconnects exactly while the flag says so,  *)
(* no consumer is active twice, and only a close that races a reply        *)
(* strands the service.                                                    *)
(***************************************************************************)
EXTENDS RabbitMqConnection, FiniteSetTheorems, TLAPS

\* establish runs once at a time.
OneAttempt == \A a, b \in attempts : a = b

\* OneReconnectChain without counting.  A close may schedule a reconnect while
\* the first attempt has its reply and has yet to run on.
ChainInv ==
    /\ timers \in {0, 1}
    /\ timers = 1 => reconnecting
    /\ \A a \in attempts : a.origin = "reconnect" => reconnecting /\ timers = 0
    /\ reconnecting => timers = 1 \/ \E a \in attempts : a.origin = "reconnect"
    /\ \A a \in attempts : a.origin = "init" => a.replied \/ ~reconnecting

\* The modules register their consumers between the first attempt and the first
\* reconnect, and before shutdown.
ModulesInv ==
    /\ closing => booting = 0 /\ registered = Consumers
    /\ booting # 0 => attempts = {} /\ booting = channel /\ registered >= 1
    /\ \A a \in attempts :
          /\ a.origin = "init" => registered = 0
          /\ a.origin = "reconnect" => registered = Consumers
          /\ a.at <= registered

\* One connection is open at most: that of the channel, or of the attempt.
LinkInv ==
    /\ attempts = {} => live \subseteq {channel}
    /\ timers = 1 => live = {}
    /\ \A a \in attempts :
          /\ a.at = CONNECTING => ~a.replied /\ live = {} /\ a.gen = 0
          /\ a.at # CONNECTING => live \subseteq {a.gen} /\ a.gen # 0
          /\ a.at # CONNECTING /\ ~a.replied => a.gen \in live
          /\ a.at > DECLARING /\ a.gen \in live => channel = a.gen
          /\ a.replied /\ a.gen \notin live => raced

\* On an open connection the consumers up to some number are active.
ActiveUpTo(n) == {s[2] : s \in subscribed} = 1 .. n
SetUp(a) == IF a.at <= DECLARING THEN 0 ELSE IF a.replied THEN a.at ELSE a.at - 1
ActiveInv ==
    live # {} =>
        /\ \A a \in attempts : ActiveUpTo(SetUp(a))
        /\ attempts = {} =>
              ActiveUpTo(IF booting = 0 THEN registered ELSE registered - 1)

\* Where nothing is under way there is a connection.
ConnectedInv ==
    attempts = {} /\ booting = 0 /\ timers = 0 /\ ~closing /\ ~raced => live # {}

Inv ==
    /\ OneAttempt /\ ChainInv /\ ModulesInv /\ LinkInv
    /\ ActiveInv /\ SubscribedOnce /\ ConnectedInv

IInv == TypeOK /\ Inv

-----------------------------------------------------------------------------

\* An attempt in progress is the only one.
LEMMA TheAttempt == ASSUME OneAttempt, NEW a \in attempts PROVE attempts = {a}
BY DEF OneAttempt

\* At most one attempt is retried when a connection closes.
LEMMA RetriedCount ==
    ASSUME OneAttempt, NEW g
    PROVE  Cardinality(Retried(g)) = IF Retried(g) = {} THEN 0 ELSE 1
<1>1. CASE Retried(g) = {}
  BY <1>1, FS_EmptySet
<1>2. CASE Retried(g) # {}
  <2>1. PICK a \in attempts : Retried(g) = {a}
    BY <1>2 DEF Retried, Rejected, OneAttempt
  <2> QED BY <2>1, FS_Singleton
<1> QED BY <1>1, <1>2

\* All that is needed to know of the limits of the backoff.
LEMMA DelayLimits ==
    /\ {BASE_RECONNECT_DELAY_MS, MAX_RECONNECT_DELAY_MS} \subseteq Nat
    /\ BASE_RECONNECT_DELAY_MS <= MAX_RECONNECT_DELAY_MS
BY DEF BASE_RECONNECT_DELAY_MS, MAX_RECONNECT_DELAY_MS

\* The backoff stays within its limits.
LEMMA DoubledInRange ==
    ASSUME NEW delay \in BASE_RECONNECT_DELAY_MS .. MAX_RECONNECT_DELAY_MS
    PROVE  Doubled(delay) \in BASE_RECONNECT_DELAY_MS .. MAX_RECONNECT_DELAY_MS
BY DelayLimits DEF Doubled, Smaller

\* What an attempt is made of.
AttemptsOf(n) ==
    [origin : {"init", "reconnect"}, at : -1 .. Consumers, gen : 0 .. n,
     replied : BOOLEAN]

LEMMA AttemptFields ==
    ASSUME TypeOK, NEW a \in attempts
    PROVE  /\ a \in AttemptsOf(epoch)
           /\ a.origin \in {"init", "reconnect"} /\ a.at \in -1 .. Consumers
           /\ a.gen \in 0 .. epoch /\ a.replied \in BOOLEAN
<1>1. a \in AttemptsOf(epoch)
  BY DEF TypeOK, AttemptsOf
<1> QED BY <1>1 DEF AttemptsOf

\* An attempt changed stays a record of its type, whatever its sets are.
LEMMA Changed ==
    ASSUME NEW O, NEW A, NEW G, NEW H,
           NEW a \in [origin : O, at : A, gen : G, replied : BOOLEAN],
           NEW i \in A, NEW g \in H, NEW r \in BOOLEAN
    PROVE  LET b == [a EXCEPT !.at = i, !.gen = g, !.replied = r]
           IN  /\ b \in [origin : O, at : A, gen : H, replied : BOOLEAN]
               /\ b.origin = a.origin /\ b.at = i /\ b.gen = g /\ b.replied = r
OBVIOUS

LEMMA Moved ==
    ASSUME NEW O, NEW A, NEW G, NEW H,
           NEW a \in [origin : O, at : A, gen : G, replied : BOOLEAN],
           NEW i \in A, NEW g \in H
    PROVE  LET b == [a EXCEPT !.at = i, !.gen = g]
           IN  /\ b \in [origin : O, at : A, gen : H, replied : BOOLEAN]
               /\ b.origin = a.origin /\ b.at = i /\ b.gen = g
               /\ b.replied = a.replied
OBVIOUS

LEMMA Answered ==
    ASSUME NEW O, NEW A, NEW G,
           NEW a \in [origin : O, at : A, gen : G, replied : BOOLEAN]
    PROVE  LET b == [a EXCEPT !.replied = TRUE]
           IN  /\ b \in [origin : O, at : A, gen : G, replied : BOOLEAN]
               /\ b.origin = a.origin /\ b.at = a.at /\ b.gen = a.gen
               /\ b.replied = TRUE
OBVIOUS

\* After an attempt that fails a timer is set, but for one at shutdown.
LEMMA FailResult ==
    ASSUME TypeOK, ChainInv, NEW a, attempts = {a},
           NEW delay \in BASE_RECONNECT_DELAY_MS .. MAX_RECONNECT_DELAY_MS,
           Fail(a, delay)
    PROVE  /\ reconnecting' \in BOOLEAN /\ timers' \in {0, 1}
           /\ timers' = 1 <=> reconnecting'
           /\ timers' = 0 => closing
           /\ reconnectDelayMs' \in BASE_RECONNECT_DELAY_MS .. MAX_RECONNECT_DELAY_MS
<1>1. CASE a.origin = "init"
  <2>1. timers \in {0, 1} /\ (reconnecting <=> timers = 1)
    BY <1>1 DEF ChainInv
  <2>2. /\ reconnecting' \in BOOLEAN
        /\ reconnecting' <=> (reconnecting \/ ~closing)
    BY <1>1, Zenon DEF Fail, MaySchedule, TypeOK
  <2>3. timers' = IF closing \/ reconnecting THEN timers ELSE timers + 1
    BY <1>1 DEF Fail, MaySchedule
  <2>4. reconnectDelayMs' = delay
    BY <1>1 DEF Fail
  <2> QED BY <2>1, <2>2, <2>3, <2>4
<1>2. CASE a.origin = "reconnect"
  <2>1. timers = 0 /\ reconnecting
    BY <1>2 DEF ChainInv
  <2> QED BY <1>2, <2>1, DoubledInRange DEF Fail, TypeOK
<1> QED BY <1>1, <1>2, AttemptFields

\* A connect that fails: the chain goes on, or starts.
LEMMA ConnectFailsStep ==
    ASSUME IInv, NEW a \in attempts, ConnectFails(a) PROVE IInv'
<1> USE DEF IInv, Inv
<1>1. attempts = {a} /\ attempts' = {} /\ a.at = CONNECTING /\ ~a.replied
  BY TheAttempt DEF ConnectFails, LinkInv
<1>2. live = {} /\ subscribed = {} /\ booting = 0
  BY <1>1 DEF LinkInv, ModulesInv, TypeOK
<1>3. /\ live' = live /\ epoch' = epoch /\ subscribed' = subscribed
      /\ channel' = channel /\ registered' = registered /\ closing' = closing
      /\ booting' = booting /\ raced' = raced
  BY DEF ConnectFails
<1>4. /\ reconnecting' \in BOOLEAN /\ timers' \in {0, 1}
      /\ timers' = 1 <=> reconnecting'
      /\ timers' = 0 => closing
      /\ reconnectDelayMs' \in BASE_RECONNECT_DELAY_MS .. MAX_RECONNECT_DELAY_MS
  BY <1>1, FailResult DEF ConnectFails, TypeOK
<1>5. TypeOK'
  BY <1>1, <1>3, <1>4 DEF TypeOK
<1>6. OneAttempt' /\ ChainInv' /\ ModulesInv'
  BY <1>1, <1>2, <1>3, <1>4 DEF OneAttempt, ChainInv, ModulesInv
<1>7. LinkInv' /\ ActiveInv' /\ SubscribedOnce' /\ ConnectedInv'
  BY <1>1, <1>2, <1>3, <1>4 DEF LinkInv, ActiveInv, SubscribedOnce, ConnectedInv
<1> QED BY <1>5, <1>6, <1>7

\* A connect that succeeds: the new connection is the attempt's, and the only one.
LEMMA ConnectSucceedsStep ==
    ASSUME IInv, NEW a \in attempts, ConnectSucceeds(a) PROVE IInv'
<1> USE DEF IInv, Inv, CONNECTING, DECLARING
<1> DEFINE b == [a EXCEPT !.at = DECLARING, !.gen = epoch']
<1>1. attempts = {a} /\ attempts' = {b} /\ a.at = CONNECTING /\ ~a.replied
  BY TheAttempt DEF ConnectSucceeds, LinkInv
<1>2. live = {} /\ subscribed = {} /\ booting = 0 /\ timers = 0
  BY <1>1 DEF LinkInv, ModulesInv, TypeOK, ChainInv
<1>3. epoch' = epoch + 1 /\ epoch \in Nat /\ live' = {epoch + 1}
  BY <1>2 DEF ConnectSucceeds, TypeOK
<1>4. /\ b.origin = a.origin /\ b.at = DECLARING /\ b.gen = epoch + 1
      /\ b.replied = FALSE /\ b \in AttemptsOf(epoch')
  <2>1. a.replied = FALSE
    BY <1>1, AttemptFields
  <2>2. 0 \in -1 .. Consumers /\ epoch + 1 \in 0 .. epoch'
    BY <1>3, ConnectionAssumption
  <2>3. a \in AttemptsOf(epoch)
    BY AttemptFields
  <2>4. /\ b \in AttemptsOf(epoch') /\ b.origin = a.origin /\ b.at = 0
        /\ b.gen = epoch' /\ b.replied = a.replied
    BY <1>3, <2>2, <2>3, Moved, Zenon DEF AttemptsOf
  <2> QED BY <1>3, <2>1, <2>4
<1>5. /\ subscribed' = subscribed /\ channel' = channel
      /\ registered' = registered /\ reconnecting' = reconnecting
      /\ closing' = closing /\ reconnectDelayMs' = reconnectDelayMs
      /\ timers' = timers /\ booting' = booting /\ raced' = raced
  BY DEF ConnectSucceeds
<1>6. TypeOK'
  BY <1>1, <1>2, <1>3, <1>4, <1>5 DEF TypeOK, AttemptsOf
<1>7. OneAttempt' /\ ChainInv' /\ ModulesInv'
  BY <1>1, <1>2, <1>4, <1>5 DEF OneAttempt, ChainInv, ModulesInv, TypeOK
<1>8. LinkInv' /\ SubscribedOnce' /\ ConnectedInv'
  BY <1>1, <1>2, <1>3, <1>4, <1>5 DEF LinkInv, SubscribedOnce, ConnectedInv
<1>9. ActiveInv'
  BY <1>1, <1>2, <1>4, <1>5 DEF ActiveInv, ActiveUpTo, SetUp
<1> QED BY <1>6, <1>7, <1>8, <1>9

\* A consumer activated after those before it.
LEMMA ActivatedStep ==
    ASSUME NEW g, NEW n \in Nat \ {0}, ActiveUpTo(n - 1), SubscribedOnce,
           subscribed' = Activated(g, n)
    PROVE  ActiveUpTo(n)' /\ SubscribedOnce'
<1> DEFINE new == <<g, n, Cardinality({s \in subscribed : s[1] = g})>>
<1>1. subscribed' = subscribed \union {new} /\ new[2] = n
  BY DEF Activated
<1>2. \A s \in subscribed : s[2] \in 1 .. (n - 1)
  BY DEF ActiveUpTo
<1>3. SubscribedOnce'
  BY <1>1, <1>2 DEF SubscribedOnce
<1>4. {s[2] : s \in subscribed'} = (1 .. (n - 1)) \union {n}
  BY <1>1 DEF ActiveUpTo
<1>5. ActiveUpTo(n)'
  BY <1>4 DEF ActiveUpTo
<1> QED BY <1>3, <1>5

\* A reply, after which one more consumer may be active.
LEMMA ReplyStep ==
    ASSUME IInv, NEW a \in attempts, Reply(a) PROVE IInv'
<1> USE DEF IInv, Inv, CONNECTING, DECLARING
<1> DEFINE b == [a EXCEPT !.replied = TRUE]
<1>1. /\ attempts = {a} /\ attempts' = {b}
      /\ a.at # CONNECTING /\ ~a.replied /\ a.gen \in live
  BY TheAttempt DEF Reply, LoopIsFree
<1>2. /\ b.origin = a.origin /\ b.at = a.at /\ b.gen = a.gen /\ b.replied
      /\ b \in AttemptsOf(epoch) /\ a.at \in Int /\ a.at >= 0
  <2>1. /\ b \in AttemptsOf(epoch) /\ b.origin = a.origin /\ b.at = a.at
        /\ b.gen = a.gen /\ b.replied = TRUE
    BY AttemptFields, Answered, Zenon DEF AttemptsOf
  <2>2. a.at \in Int /\ a.at >= 0
    BY <1>1, AttemptFields, ConnectionAssumption
  <2> QED BY <2>1, <2>2
<1>3. /\ live' = live /\ epoch' = epoch /\ channel' = channel
      /\ registered' = registered /\ reconnecting' = reconnecting
      /\ closing' = closing /\ reconnectDelayMs' = reconnectDelayMs
      /\ timers' = timers /\ booting' = booting /\ raced' = raced
  BY DEF Reply
<1>4. booting = 0
  BY <1>1 DEF ModulesInv
<1>5. ActiveInv' /\ SubscribedOnce'
  <2>1. CASE a.at = DECLARING
    <3>1. subscribed' = subscribed
      BY <2>1 DEF Reply
    <3>2. SetUp(a) = 0 /\ SetUp(b) = 0
      BY <1>2, <2>1 DEF SetUp
    <3> QED
      BY <1>1, <1>3, <3>1, <3>2 DEF ActiveInv, ActiveUpTo, SubscribedOnce, SetUp
  <2>2. CASE a.at # DECLARING
    <3>1. a.at \in Nat \ {0} /\ SetUp(a) = a.at - 1 /\ SetUp(b) = a.at
      BY <1>1, <1>2, <2>2 DEF SetUp
    <3>2. ActiveUpTo(a.at - 1)
      BY <1>1, <3>1 DEF ActiveInv
    <3>3. subscribed' = Activated(a.gen, a.at)
      BY <2>2 DEF Reply
    <3>4. ActiveUpTo(a.at)' /\ SubscribedOnce'
      BY <3>1, <3>2, <3>3, ActivatedStep
    <3> QED
      BY <1>1, <1>3, <3>1, <3>4 DEF ActiveInv, ActiveUpTo, SetUp
  <2> QED BY <2>1, <2>2
<1>6. TypeOK'
  <2>1. \A s \in subscribed' : s[1] \in live /\ s[2] \in 1 .. registered
    BY <1>1, <1>2 DEF Reply, Activated, TypeOK, ModulesInv
  <2> QED BY <1>1, <1>2, <1>3, <2>1 DEF TypeOK, AttemptsOf
<1>7. OneAttempt' /\ ChainInv' /\ ModulesInv'
  BY <1>1, <1>2, <1>3, <1>4 DEF OneAttempt, ChainInv, ModulesInv
<1>8. LinkInv' /\ ConnectedInv'
  BY <1>1, <1>2, <1>3 DEF LinkInv, ConnectedInv
<1> QED BY <1>5, <1>6, <1>7, <1>8

\* The code after a reply: the attempt ends, fails, or goes on.
LEMMA ContinueStep ==
    ASSUME IInv, NEW a \in attempts, Continue(a) PROVE IInv'
<1> USE DEF IInv, Inv, CONNECTING, DECLARING
<1> DEFINE delay == IF a.at = DECLARING THEN BASE_RECONNECT_DELAY_MS
                                        ELSE reconnectDelayMs
           b == [a EXCEPT !.at = a.at + 1, !.gen = channel', !.replied = FALSE]
<1>1. attempts = {a} /\ a.replied /\ a.at # CONNECTING /\ booting = 0
  BY TheAttempt DEF Continue, LinkInv, ModulesInv
<1>2. /\ live \subseteq {a.gen} /\ a.gen # 0
      /\ a.gen \in live => channel' = a.gen
      /\ a.gen \notin live => raced
      /\ channel' \in 0 .. epoch
  BY <1>1, AttemptFields DEF Continue, LinkInv, TypeOK
<1>3. /\ live' = live /\ epoch' = epoch /\ subscribed' = subscribed
      /\ registered' = registered /\ closing' = closing
      /\ booting' = booting /\ raced' = raced
  BY DEF Continue
<1>4. /\ a.at \in 0 .. registered /\ registered \in 0 .. Consumers
      /\ Consumers \in Nat /\ epoch \in Nat /\ SetUp(a) = a.at
      /\ delay \in BASE_RECONNECT_DELAY_MS .. MAX_RECONNECT_DELAY_MS
  BY <1>1, AttemptFields, DelayLimits, ConnectionAssumption DEF TypeOK, ModulesInv, SetUp
<1>5. live # {} => ActiveUpTo(a.at)' /\ channel' = a.gen
  BY <1>1, <1>2, <1>3, <1>4 DEF ActiveInv, ActiveUpTo
<1>6. SubscribedOnce'
  BY <1>3 DEF SubscribedOnce
<1>7. CASE /\ a.at + 1 > registered \/ channel' = 0
           /\ attempts' = {} /\ Succeed(a, delay)
  <2>1. timers' = timers /\ reconnectDelayMs' = delay
    BY <1>7 DEF Succeed
  <2>2. /\ reconnecting' \in BOOLEAN
        /\ reconnecting' <=> reconnecting /\ a.origin # "reconnect"
    BY <1>7, Zenon DEF Succeed, TypeOK
  <2>3. TypeOK'
    BY <1>1, <1>2, <1>3, <1>4, <1>7, <2>1, <2>2 DEF TypeOK
  <2>4. OneAttempt' /\ ChainInv' /\ ModulesInv'
    BY <1>1, <1>3, <1>7, <2>1, <2>2, AttemptFields DEF OneAttempt, ChainInv, ModulesInv
  <2>5. LinkInv' /\ ConnectedInv'
    BY <1>1, <1>2, <1>3, <1>7, <2>1 DEF LinkInv, ConnectedInv
  <2>6. ActiveInv'
    <3>1. live # {} => a.at = registered
      BY <1>2, <1>4, <1>5, <1>7
    <3> QED BY <1>1, <1>3, <1>5, <1>7, <3>1 DEF ActiveInv, ActiveUpTo
  <2> QED BY <1>6, <2>3, <2>4, <2>5, <2>6
<1>8. CASE /\ a.at + 1 <= registered /\ channel' # 0 /\ channel' \notin live
           /\ attempts' = {} /\ Fail(a, delay)
  <2>1. /\ reconnecting' \in BOOLEAN /\ timers' \in {0, 1}
        /\ timers' = 1 <=> reconnecting'
        /\ reconnectDelayMs' \in BASE_RECONNECT_DELAY_MS .. MAX_RECONNECT_DELAY_MS
    BY <1>1, <1>4, <1>8, FailResult
  <2>2. live = {} /\ raced
    BY <1>2, <1>8
  <2>3. TypeOK'
    BY <1>1, <1>2, <1>3, <1>4, <1>8, <2>1, <2>2 DEF TypeOK
  <2>4. OneAttempt' /\ ChainInv' /\ ModulesInv'
    BY <1>1, <1>3, <1>8, <2>1 DEF OneAttempt, ChainInv, ModulesInv
  <2>5. LinkInv' /\ ConnectedInv' /\ ActiveInv'
    BY <1>3, <1>8, <2>1, <2>2 DEF LinkInv, ConnectedInv, ActiveInv
  <2> QED BY <1>6, <2>3, <2>4, <2>5
<1>9. CASE /\ a.at + 1 <= registered /\ channel' \in live
           /\ attempts' = {b} /\ reconnectDelayMs' = delay
           /\ reconnecting' = reconnecting /\ timers' = timers
  <2>1. /\ b \in AttemptsOf(epoch) /\ b.origin = a.origin /\ b.at = a.at + 1
        /\ b.gen = channel' /\ b.replied = FALSE
    <3>1. a.at + 1 \in -1 .. Consumers
      BY <1>4, <1>9
    <3>2. a \in AttemptsOf(epoch) /\ FALSE \in BOOLEAN
      BY AttemptFields
    <3> QED BY <1>2, <3>1, <3>2, Changed, Zenon DEF AttemptsOf
  <2>2. live = {a.gen} /\ channel' = a.gen
    BY <1>2, <1>9
  <2>3. a.origin = "reconnect" /\ reconnecting /\ timers = 0 /\ registered = Consumers
    BY <1>1, <1>4, <1>9, AttemptFields DEF ModulesInv, ChainInv
  <2> HIDE DEF b, delay
  <2>4. TypeOK'
    BY <1>1, <1>2, <1>3, <1>4, <1>9, <2>1, <2>2 DEF TypeOK, AttemptsOf
  <2>5. OneAttempt' /\ ChainInv' /\ ModulesInv'
    BY <1>1, <1>3, <1>9, <2>1, <2>3 DEF OneAttempt, ChainInv, ModulesInv
  <2>6. LinkInv' /\ ConnectedInv'
    BY <1>3, <1>4, <1>9, <2>1, <2>2, <2>3 DEF LinkInv, ConnectedInv
  <2>7. ActiveInv'
    <3>1. SetUp(b) = a.at
      BY <1>4, <2>1 DEF SetUp
    <3> QED BY <1>3, <1>5, <1>9, <2>2, <3>1 DEF ActiveInv, ActiveUpTo, SetUp
  <2> QED BY <1>6, <2>4, <2>5, <2>6, <2>7
<1> QED BY <1>1, <1>7, <1>8, <1>9 DEF Continue

\* The only connection closes: an attempt that awaits a reply on it ends.
LEMMA ClosedResult ==
    ASSUME IInv, NEW g \in live, NEW schedules \in BOOLEAN, Closed(g, schedules)
    PROVE  /\ live = {g} /\ live' = {} /\ subscribed' = {} /\ channel' = 0
           /\ attempts' = {a \in attempts : a.replied}
           /\ \A a \in attempts : a.at # CONNECTING /\ a.gen = g
           /\ timers = 0
           /\ timers' = (IF Retried(g) = {} THEN 0 ELSE 1)
                         + (IF schedules THEN 1 ELSE 0)
           /\ Retried(g) = {a \in attempts : ~a.replied /\ a.origin = "reconnect"}
           /\ reconnecting' \in BOOLEAN
           /\ reconnecting' <=> (reconnecting \/ schedules)
           /\ reconnectDelayMs' \in BASE_RECONNECT_DELAY_MS .. MAX_RECONNECT_DELAY_MS
<1> USE DEF IInv, Inv
<1>1. live = {g} /\ timers = 0 /\ \A a \in attempts : a.at # CONNECTING /\ a.gen = g
  BY DEF LinkInv, ChainInv
<1>2. live' = {} /\ subscribed' = {} /\ channel' = 0
  BY <1>1 DEF Closed, TypeOK
<1>3. attempts' = {a \in attempts : a.replied}
  BY <1>1 DEF Closed, Rejected
<1>4. Retried(g) = {a \in attempts : ~a.replied /\ a.origin = "reconnect"}
  BY <1>1 DEF Retried, Rejected
<1>5. timers' = (IF Retried(g) = {} THEN 0 ELSE 1) + (IF schedules THEN 1 ELSE 0)
  BY <1>1, RetriedCount DEF Closed
<1>6. reconnecting' \in BOOLEAN /\ (reconnecting' <=> (reconnecting \/ schedules))
  BY Zenon DEF Closed, TypeOK
<1>7. reconnectDelayMs' \in BASE_RECONNECT_DELAY_MS .. MAX_RECONNECT_DELAY_MS
  BY DoubledInRange DEF Closed, TypeOK
<1> QED BY <1>1, <1>2, <1>3, <1>4, <1>5, <1>6, <1>7

\* A connection is lost: a chain starts, or the one there is goes on.
LEMMA ConnectionLostStep ==
    ASSUME IInv, NEW g \in live, ConnectionLost(g) PROVE IInv'
<1> USE DEF IInv, Inv
<1>1. MaySchedule \in BOOLEAN /\ Closed(g, MaySchedule)
  BY DEF ConnectionLost, MaySchedule
<1>2. /\ live = {g} /\ live' = {} /\ subscribed' = {} /\ channel' = 0
      /\ attempts' = {a \in attempts : a.replied}
      /\ \A a \in attempts : a.at # CONNECTING /\ a.gen = g
      /\ timers = 0
      /\ timers' = (IF Retried(g) = {} THEN 0 ELSE 1) + (IF MaySchedule THEN 1 ELSE 0)
      /\ Retried(g) = {a \in attempts : ~a.replied /\ a.origin = "reconnect"}
      /\ reconnecting' \in BOOLEAN
      /\ reconnecting' <=> (reconnecting \/ MaySchedule)
      /\ reconnectDelayMs' \in BASE_RECONNECT_DELAY_MS .. MAX_RECONNECT_DELAY_MS
  BY <1>1, ClosedResult
<1>3. /\ epoch' = epoch /\ registered' = registered /\ closing' = closing
      /\ booting' = booting /\ booting # g
  BY DEF ConnectionLost
<1>4. /\ raced' \in BOOLEAN
      /\ raced' <=> (raced \/ \E a \in attempts : a.replied)
  BY <1>2, Zenon DEF ConnectionLost, RacesReply, TypeOK
<1>5. booting = 0
  BY <1>2, <1>3 DEF ModulesInv, LinkInv
<1>6. ASSUME reconnecting
      PROVE  ChainInv' /\ (attempts' = {} => timers' = 1 \/ closing)
  <2>1. ~MaySchedule /\ timers' = IF Retried(g) = {} THEN 0 ELSE 1
    BY <1>2, <1>6 DEF MaySchedule
  <2>2. PICK a \in attempts : a.origin = "reconnect" /\ attempts = {a}
    BY <1>2, <1>6, TheAttempt DEF ChainInv
  <2>3. ChainInv' /\ (attempts' = {} => timers' = 1)
    BY <1>2, <1>6, <2>1, <2>2 DEF ChainInv
  <2> QED BY <2>3
<1>7. ASSUME ~reconnecting
      PROVE  ChainInv' /\ (attempts' = {} => timers' = 1 \/ closing)
  <2>1. (MaySchedule <=> ~closing) /\ \A a \in attempts : a.origin # "reconnect"
    BY <1>7 DEF MaySchedule, ChainInv
  <2>2. Retried(g) = {}
    BY <1>2, <2>1
  <2>3. timers' = IF MaySchedule THEN 1 ELSE 0
    BY <1>2, <2>2
  <2>4. timers' \in {0, 1} /\ (timers' = 1 <=> reconnecting') /\ (timers' = 0 => closing)
    BY <1>2, <1>7, <2>1, <2>3
  <2>5. ChainInv'
    BY <1>2, <2>1, <2>4 DEF ChainInv
  <2> QED BY <2>4, <2>5
<1>8. ChainInv' /\ (attempts' = {} => timers' = 1 \/ closing)
  BY <1>6, <1>7
<1>9. TypeOK'
  BY <1>2, <1>3, <1>4, <1>5, <1>8 DEF TypeOK, ChainInv
<1>10. OneAttempt' /\ ModulesInv'
  BY <1>2, <1>3, <1>5 DEF OneAttempt, ModulesInv
<1>11. LinkInv' /\ ConnectedInv'
  BY <1>2, <1>3, <1>4, <1>8 DEF LinkInv, ConnectedInv
<1>12. ActiveInv' /\ SubscribedOnce'
  BY <1>2 DEF ActiveInv, SubscribedOnce
<1> QED BY <1>8, <1>9, <1>10, <1>11, <1>12

\* Shutdown closes the connection there is, or one that is closed already.
LEMMA ShutdownStep == ASSUME IInv, Shutdown PROVE IInv'
<1> USE DEF IInv, Inv
<1>1. /\ epoch' = epoch /\ registered' = registered /\ closing' = TRUE
      /\ booting' = booting /\ raced' = raced /\ booting = 0
      /\ registered = Consumers
      /\ \A a \in attempts : ~a.replied
  BY DEF Shutdown, Booted, LoopIsFree
<1>2. CASE channel \in live
  <2>1. Closed(channel, FALSE) /\ FALSE \in BOOLEAN
    <3>1. channel # 0
      BY <1>2 DEF TypeOK
    <3> QED BY <3>1, Zenon DEF Shutdown
  <2>2. /\ live' = {} /\ subscribed' = {} /\ channel' = 0
        /\ attempts' = {a \in attempts : a.replied}
        /\ timers = 0
        /\ timers' = (IF Retried(channel) = {} THEN 0 ELSE 1) + (IF FALSE THEN 1 ELSE 0)
        /\ Retried(channel) = {a \in attempts : ~a.replied /\ a.origin = "reconnect"}
        /\ reconnecting' \in BOOLEAN /\ (reconnecting' <=> (reconnecting \/ FALSE))
        /\ reconnectDelayMs' \in BASE_RECONNECT_DELAY_MS .. MAX_RECONNECT_DELAY_MS
    BY <1>2, <2>1, ClosedResult, Zenon
  <2>3. ChainInv'
    <3>1. attempts' = {} /\ (reconnecting' <=> reconnecting)
      BY <1>1, <2>2
    <3>2. timers' = IF \E a \in attempts : a.origin = "reconnect" THEN 1 ELSE 0
      BY <1>1, <2>2
    <3> QED BY <2>2, <3>1, <3>2 DEF ChainInv
  <2>4. TypeOK'
    BY <1>1, <2>2, <2>3 DEF TypeOK, ChainInv
  <2>5. OneAttempt' /\ ModulesInv' /\ LinkInv' /\ ConnectedInv'
    BY <1>1, <2>2 DEF OneAttempt, ModulesInv, LinkInv, ConnectedInv
  <2>6. ActiveInv' /\ SubscribedOnce'
    BY <2>2 DEF ActiveInv, SubscribedOnce
  <2> QED BY <2>3, <2>4, <2>5, <2>6
<1>3. CASE channel \notin live
  <2>1. /\ live' = live /\ subscribed' = subscribed /\ attempts' = attempts
        /\ timers' = timers /\ reconnecting' = reconnecting
        /\ reconnectDelayMs' = reconnectDelayMs /\ channel' = 0
    <3>1. CASE channel = 0
      BY <3>1 DEF Shutdown
    <3>2. CASE channel # 0
      <4>1. Closed(channel, FALSE)
        BY <3>2 DEF Shutdown
      <4>2. Rejected(channel) = {} /\ Retried(channel) = {}
        BY <1>3, <3>2 DEF Rejected, Retried, LinkInv
      <4>3. subscribed' = subscribed /\ live' = live
        BY <1>3, <4>1 DEF Closed, TypeOK
      <4>4. timers' = timers
        BY <4>1, <4>2, FS_EmptySet DEF Closed, TypeOK
      <4>5. reconnecting' = reconnecting
        BY <4>1, Zenon DEF Closed, TypeOK
      <4> QED BY <4>1, <4>2, <4>3, <4>4, <4>5 DEF Closed
    <3> QED BY <3>1, <3>2
  <2>2. TypeOK'
    BY <1>1, <2>1 DEF TypeOK
  <2>3. OneAttempt' /\ ChainInv' /\ ModulesInv' /\ SubscribedOnce'
    BY <1>1, <2>1 DEF OneAttempt, ChainInv, ModulesInv, SubscribedOnce
  <2>4. LinkInv' /\ ConnectedInv'
    BY <1>1, <1>3, <2>1 DEF LinkInv, ConnectedInv
  <2>5. ActiveInv'
    BY <1>1, <2>1 DEF ActiveInv, ActiveUpTo, SetUp
  <2> QED BY <2>2, <2>3, <2>4, <2>5
<1> QED BY <1>2, <1>3

\* A setup that fails while the modules start: the process begins anew.
LEMMA BootFailsStep == ASSUME IInv, BootFails PROVE IInv'
<1> USE DEF IInv, Inv, CONNECTING
<1> DEFINE b == Attempt("init")
<1>1. /\ b.origin = "init" /\ b.at = CONNECTING /\ b.gen = 0 /\ b.replied = FALSE
      /\ \A n \in Nat : b \in AttemptsOf(n)
  BY ConnectionAssumption DEF Attempt, AttemptsOf
<1>2. /\ live' = {} /\ subscribed' = {} /\ channel' = 0 /\ registered' = 0
      /\ booting' = 0 /\ reconnecting' = FALSE /\ timers' = 0 /\ attempts' = {b}
      /\ reconnectDelayMs' = BASE_RECONNECT_DELAY_MS
      /\ epoch' = epoch /\ closing' = closing /\ raced' = raced /\ ~closing
  BY DEF BootFails, ModulesInv
<1> HIDE DEF b
<1>3. TypeOK'
  <2>1. reconnectDelayMs' \in BASE_RECONNECT_DELAY_MS .. MAX_RECONNECT_DELAY_MS
    BY <1>2, DelayLimits
  <2>2. {reconnecting', closing', raced'} \subseteq BOOLEAN
    BY <1>2, Zenon DEF TypeOK
  <2>3. epoch \in Nat /\ attempts' \subseteq AttemptsOf(epoch)
    BY <1>1, <1>2 DEF TypeOK
  <2> QED
    BY <1>2, <2>1, <2>2, <2>3, ConnectionAssumption DEF TypeOK, AttemptsOf
<1>4. OneAttempt' /\ ChainInv' /\ ModulesInv'
  BY <1>1, <1>2 DEF OneAttempt, ChainInv, ModulesInv
<1>5. LinkInv' /\ ActiveInv' /\ SubscribedOnce' /\ ConnectedInv'
  BY <1>1, <1>2 DEF LinkInv, ActiveInv, SubscribedOnce, ConnectedInv
<1> QED BY <1>3, <1>4, <1>5

\* The timer fires: the chain goes on to an attempt, or ends at shutdown.
LEMMA TimerFiresStep == ASSUME IInv, TimerFires PROVE IInv'
<1> USE DEF IInv, Inv, CONNECTING
<1> DEFINE b == Attempt("reconnect")
<1>1. /\ b.origin = "reconnect" /\ b.at = CONNECTING /\ b.gen = 0 /\ b.replied = FALSE
      /\ b \in AttemptsOf(epoch)
  BY ConnectionAssumption DEF Attempt, AttemptsOf, TypeOK
<1>2. timers = 1 /\ reconnecting /\ attempts = {} /\ live = {} /\ timers' = 0
  BY AttemptFields DEF TimerFires, LoopIsFree, ChainInv, LinkInv
<1>3. subscribed = {} /\ booting = 0 /\ registered = Consumers
  BY <1>2 DEF TimerFires, Booted, TypeOK
<1>4. /\ live' = live /\ epoch' = epoch /\ subscribed' = subscribed
      /\ channel' = channel /\ registered' = registered /\ closing' = closing
      /\ reconnectDelayMs' = reconnectDelayMs /\ booting' = booting
      /\ raced' = raced
  BY DEF TimerFires
<1>5. CASE closing
  <2>1. reconnecting' = FALSE /\ attempts' = {}
    BY <1>2, <1>5, Zenon DEF TimerFires
  <2>2. TypeOK'
    BY <1>2, <1>3, <1>4, <2>1 DEF TypeOK
  <2>3. OneAttempt' /\ ChainInv' /\ ModulesInv'
    BY <1>2, <1>3, <1>4, <2>1 DEF OneAttempt, ChainInv, ModulesInv
  <2>4. LinkInv' /\ ActiveInv' /\ SubscribedOnce' /\ ConnectedInv'
    BY <1>2, <1>3, <1>4, <1>5, <2>1
       DEF LinkInv, ActiveInv, SubscribedOnce, ConnectedInv
  <2> QED BY <2>2, <2>3, <2>4
<1>6. CASE ~closing
  <2>1. (reconnecting' <=> reconnecting) /\ reconnecting' \in BOOLEAN
    BY <1>6, Zenon DEF TimerFires, TypeOK
  <2>2. attempts' = {b}
    BY <1>2, <1>6 DEF TimerFires
  <2> HIDE DEF b
  <2>3. TypeOK'
    BY <1>1, <1>2, <1>3, <1>4, <2>1, <2>2 DEF TypeOK, AttemptsOf
  <2>4. OneAttempt' /\ ChainInv' /\ ModulesInv'
    BY <1>1, <1>2, <1>3, <1>4, <2>1, <2>2, ConnectionAssumption
       DEF OneAttempt, ChainInv, ModulesInv
  <2>5. LinkInv' /\ ActiveInv' /\ SubscribedOnce' /\ ConnectedInv'
    BY <1>1, <1>2, <1>3, <1>4, <2>2
       DEF LinkInv, ActiveInv, SubscribedOnce, ConnectedInv
  <2> QED BY <2>3, <2>4, <2>5
<1> QED BY <1>5, <1>6

\* A module registers its consumer between the attempts.
LEMMA ConsumeStep == ASSUME IInv, Consume PROVE IInv'
<1> USE DEF IInv, Inv
<1>1. booting = 0 /\ registered < Consumers /\ attempts = {}
  BY AttemptFields DEF Consume, ModulesInv, TypeOK
<1>2. /\ registered' = registered + 1 /\ booting' = channel
      /\ live' = live /\ epoch' = epoch /\ subscribed' = subscribed
      /\ channel' = channel /\ closing' = closing /\ timers' = timers
      /\ reconnecting' = reconnecting /\ reconnectDelayMs' = reconnectDelayMs
      /\ attempts' = attempts /\ raced' = raced
  BY DEF Consume
<1>3. registered \in 0 .. Consumers /\ (live # {} => channel # 0)
  <2>1. live # {} => channel \in live
    BY <1>1 DEF LinkInv
  <2>2. registered \in 0 .. Consumers /\ epoch \in Nat /\ live \subseteq 1 .. epoch
    BY DEF TypeOK
  <2> QED BY <2>1, <2>2
<1>4. TypeOK'
  BY <1>1, <1>2, <1>3, ConnectionAssumption DEF TypeOK
<1>5. OneAttempt' /\ ChainInv' /\ ModulesInv' /\ LinkInv' /\ SubscribedOnce'
  BY <1>1, <1>2, <1>3, ConnectionAssumption
     DEF OneAttempt, ChainInv, ModulesInv, LinkInv, SubscribedOnce
<1>6. ActiveInv' /\ ConnectedInv'
  BY <1>1, <1>2, <1>3, ConnectionAssumption DEF ActiveInv, ActiveUpTo, ConnectedInv
<1> QED BY <1>4, <1>5, <1>6

\* Its setup ends: it is active after those before it.
LEMMA ConsumedStep == ASSUME IInv, Consumed PROVE IInv'
<1> USE DEF IInv, Inv
<1>1. /\ booting \in live /\ booting # 0 /\ attempts = {} /\ registered \in Nat \ {0}
      /\ registered \in 1 .. registered
  BY ConnectionAssumption DEF Consumed, TypeOK, ModulesInv
<1>2. /\ subscribed' = Activated(booting, registered) /\ booting' = 0
      /\ live' = live /\ epoch' = epoch /\ channel' = channel
      /\ registered' = registered /\ closing' = closing /\ timers' = timers
      /\ reconnecting' = reconnecting /\ reconnectDelayMs' = reconnectDelayMs
      /\ attempts' = attempts /\ raced' = raced
  BY DEF Consumed
<1>3. ActiveUpTo(registered)' /\ SubscribedOnce'
  <2>1. ActiveUpTo(registered - 1)
    BY <1>1 DEF ActiveInv
  <2>2. \A s \in subscribed : s[2] \in 1 .. (registered - 1)
    BY <2>1 DEF ActiveUpTo
  <2> DEFINE n == registered
  <2>3. n \in Nat \ {0} /\ ActiveUpTo(n - 1) /\ subscribed' = Activated(booting, n)
    BY <1>1, <1>2, <2>1
  <2>4. ActiveUpTo(n)' /\ SubscribedOnce'
    BY <1>2, <2>3, ActivatedStep
  <2> QED BY <1>2, <2>4
<1>4. TypeOK'
  <2>1. \A s \in subscribed' : s[1] \in live /\ s[2] \in 1 .. registered
    BY <1>1, <1>2 DEF Activated, TypeOK
  <2> QED BY <1>1, <1>2, <2>1 DEF TypeOK
<1>5. OneAttempt' /\ ChainInv' /\ ModulesInv' /\ LinkInv' /\ ConnectedInv'
  BY <1>1, <1>2 DEF OneAttempt, ChainInv, ModulesInv, LinkInv, ConnectedInv
<1>6. ActiveInv'
  BY <1>1, <1>2, <1>3 DEF ActiveInv
<1> QED BY <1>3, <1>4, <1>5, <1>6

-----------------------------------------------------------------------------

\* The process starts with one attempt, and nothing open.
LEMMA InitInv == Init => IInv
<1> USE DEF IInv, Inv, CONNECTING
<1> SUFFICES ASSUME Init PROVE IInv
  OBVIOUS
<1> DEFINE b == Attempt("init")
<1>1. /\ b.origin = "init" /\ b.at = CONNECTING /\ b.gen = 0 /\ b.replied = FALSE
      /\ b \in AttemptsOf(epoch)
  BY ConnectionAssumption DEF Attempt, AttemptsOf, Init
<1>2. /\ live = {} /\ epoch = 0 /\ subscribed = {} /\ channel = 0 /\ registered = 0
      /\ reconnecting = FALSE /\ closing = FALSE /\ timers = 0 /\ attempts = {b}
      /\ booting = 0 /\ raced = FALSE /\ reconnectDelayMs = BASE_RECONNECT_DELAY_MS
  BY DEF Init
<1> HIDE DEF b
<1>3. TypeOK
  <2>1. reconnectDelayMs \in BASE_RECONNECT_DELAY_MS .. MAX_RECONNECT_DELAY_MS
    BY <1>2, DelayLimits
  <2>2. {reconnecting, closing, raced} \subseteq BOOLEAN
    BY <1>2, Zenon
  <2>3. attempts \subseteq AttemptsOf(epoch)
    BY <1>1, <1>2
  <2> QED
    BY <1>2, <2>1, <2>2, <2>3, ConnectionAssumption DEF TypeOK, AttemptsOf
<1>4. OneAttempt /\ ChainInv /\ ModulesInv
  BY <1>1, <1>2 DEF OneAttempt, ChainInv, ModulesInv
<1>5. LinkInv /\ ActiveInv /\ SubscribedOnce /\ ConnectedInv
  BY <1>1, <1>2 DEF LinkInv, ActiveInv, SubscribedOnce, ConnectedInv
<1> QED BY <1>3, <1>4, <1>5

\* Every step keeps the invariant.
LEMMA StepInv == IInv /\ [Next]_vars => IInv'
<1> SUFFICES ASSUME IInv, [Next]_vars PROVE IInv'
  OBVIOUS
<1>1. ASSUME NEW a \in attempts, Step(a) PROVE IInv'
  BY <1>1, ConnectFailsStep, ConnectSucceedsStep, ReplyStep, ContinueStep DEF Step
<1>2. ASSUME NEW g \in live, ConnectionLost(g) PROVE IInv'
  BY <1>2, ConnectionLostStep
<1>3. CASE Shutdown
  BY <1>3, ShutdownStep
<1>4. CASE TimerFires
  BY <1>4, TimerFiresStep
<1>5. CASE Consume
  BY <1>5, ConsumeStep
<1>6. CASE Consumed
  BY <1>6, ConsumedStep
<1>7. CASE BootFails
  BY <1>7, BootFailsStep
<1>8. CASE UNCHANGED vars
  <2>1. TypeOK' /\ OneAttempt' /\ ChainInv' /\ ModulesInv'
    BY <1>8 DEF vars, IInv, Inv, TypeOK, OneAttempt, ChainInv, ModulesInv
  <2>2. LinkInv' /\ SubscribedOnce' /\ ConnectedInv'
    BY <1>8 DEF vars, IInv, Inv, LinkInv, SubscribedOnce, ConnectedInv
  <2>3. ActiveInv'
    BY <1>8 DEF vars, IInv, Inv, ActiveInv, ActiveUpTo, SetUp
  <2> QED BY <2>1, <2>2, <2>3 DEF IInv, Inv
<1> QED BY <1>1, <1>2, <1>3, <1>4, <1>5, <1>6, <1>7, <1>8 DEF Next, Rest

LEMMA Invariance == Spec => []IInv
<1> QED BY InitInv, StepInv, PTL DEF Spec

\* One chain: the timers and the attempts of it, counted.
LEMMA ChainCounted == IInv => OneReconnectChain
<1> SUFFICES ASSUME IInv PROVE OneReconnectChain
  OBVIOUS
<1> USE DEF IInv, Inv
<1> DEFINE R == {a \in attempts : a.origin = "reconnect"}
<1>1. CASE R = {}
  <2>1. Cardinality(R) = 0
    BY <1>1, FS_EmptySet
  <2>2. timers = IF reconnecting THEN 1 ELSE 0
    BY <1>1 DEF ChainInv
  <2> QED BY <2>1, <2>2 DEF OneReconnectChain
<1>2. CASE R # {}
  <2>1. PICK a : R = {a}
    BY <1>2 DEF OneAttempt
  <2>2. Cardinality(R) = 1
    BY <2>1, FS_Singleton
  <2>3. timers = 0 /\ reconnecting
    BY <1>2 DEF ChainInv
  <2> QED BY <2>2, <2>3 DEF OneReconnectChain
<1> QED BY <1>1, <1>2

\* Nothing under way, no race: connected, and every consumer active.
LEMMA ConnectedWhereIdle == IInv => StrandedOnlyByRace
<1> SUFFICES ASSUME IInv, ~raced, ~closing, timers = 0, attempts = {}, booting = 0
             PROVE  channel \in live /\ Subscribed
  BY DEF StrandedOnlyByRace, NeverStranded, IInv, Inv, ChainInv
<1> USE DEF IInv, Inv
<1>1. live = {channel}
  BY DEF ConnectedInv, LinkInv
<1>2. ActiveUpTo(registered)
  BY <1>1 DEF ActiveInv
<1>3. Subscribed
  BY <1>1, <1>2 DEF Subscribed, ActiveUpTo, TypeOK
<1> QED BY <1>1, <1>3

-----------------------------------------------------------------------------

\* Types hold for every number of consumers and of outages: in particular the
\* backoff of reconnect never leaves its limits.
THEOREM TypeCorrect == Spec => []TypeOK
BY Invariance, PTL DEF IInv

\* handleClose, scheduleReconnect and reconnect never run two chains, nor leave
\* the flag set without one.
THEOREM ReconnectChainIsOne == Spec => []OneReconnectChain
BY Invariance, ChainCounted, PTL

\* Whatever closes while establish goes over the consumers, setupConsumer never
\* activates one twice.
THEOREM ConsumersAreSubscribedOnce == Spec => []SubscribedOnce
<1>1. IInv => SubscribedOnce
  BY DEF IInv, Inv
<1> QED BY <1>1, Invariance, PTL

\* The service that is neither connected nor about to be has seen a close race
\* a reply: every other close is handled.
THEOREM OnlyARaceStrands == Spec => []StrandedOnlyByRace
BY Invariance, ConnectedWhereIdle, PTL

\* After shutdown has begun no step starts an attempt to connect.
THEOREM ShutdownIsFinal == Spec => NoConnectAfterShutdown
<1>1. ASSUME IInv, [Next]_vars, closing, NEW a \in attempts', a.at = CONNECTING
      PROVE  a \in attempts
  <2> USE DEF CONNECTING, DECLARING, IInv, Inv
  <2>1. ASSUME NEW b \in attempts, Step(b) PROVE a \in attempts
    <3>1. CASE ConnectFails(b)
      BY <3>1 DEF ConnectFails
    <3>2. CASE ConnectSucceeds(b)
      <4> DEFINE c == [b EXCEPT !.at = DECLARING, !.gen = epoch']
      <4>1. c.at = DECLARING /\ attempts' = (attempts \ {b}) \union {c}
        BY <3>2, AttemptFields DEF ConnectSucceeds, AttemptsOf
      <4> HIDE DEF c
      <4> QED BY <1>1, <4>1
    <3>3. CASE Reply(b)
      <4> DEFINE c == [b EXCEPT !.replied = TRUE]
      <4>1. c.at = b.at /\ b.at # CONNECTING /\ attempts' = (attempts \ {b}) \union {c}
        BY <3>3, AttemptFields DEF Reply, AttemptsOf
      <4> HIDE DEF c
      <4> QED BY <1>1, <4>1
    <3>4. CASE Continue(b)
      <4> DEFINE c == [b EXCEPT !.at = b.at + 1, !.gen = channel', !.replied = FALSE]
      <4>1. b.at \in Nat
        <5>1. b.replied
          BY <3>4 DEF Continue
        <5>2. b.at # -1
          BY <1>1, <5>1 DEF LinkInv
        <5>3. b.at \in -1 .. Consumers
          BY <1>1, AttemptFields
        <5> QED BY <5>2, <5>3, ConnectionAssumption
      <4>2. c.at = b.at + 1
        BY AttemptFields DEF AttemptsOf
      <4>3. attempts' = attempts \ {b} \/ attempts' = (attempts \ {b}) \union {c}
        BY <3>4 DEF Continue
      <4> HIDE DEF c
      <4> QED BY <1>1, <4>1, <4>2, <4>3
    <3> QED BY <2>1, <3>1, <3>2, <3>3, <3>4 DEF Step
  <2>2. ASSUME NEW g \in live, ConnectionLost(g) PROVE a \in attempts
    BY <2>2 DEF ConnectionLost, Closed
  <2>3. CASE Shutdown
    BY <1>1, <2>3 DEF Shutdown
  <2>4. CASE TimerFires
    BY <1>1, <2>4 DEF TimerFires
  <2>5. CASE Consume
    BY <2>5 DEF Consume
  <2>6. CASE Consumed
    BY <2>6 DEF Consumed
  <2>7. CASE BootFails
    BY <1>1, <2>7 DEF BootFails, ModulesInv
  <2>8. CASE UNCHANGED vars
    BY <2>8 DEF vars
  <2> QED BY <1>1, <2>1, <2>2, <2>3, <2>4, <2>5, <2>6, <2>7, <2>8 DEF Next, Rest
<1>2. IInv /\ [Next]_vars
        => [closing => \A a \in attempts' : a.at = CONNECTING => a \in attempts]_vars
  BY <1>1
<1> QED BY <1>2, Invariance, PTL DEF Spec, NoConnectAfterShutdown

=============================================================================
