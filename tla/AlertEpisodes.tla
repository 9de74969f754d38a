---------------------------- MODULE AlertEpisodes ----------------------------
(***************************************************************************)
(* What the threshold rules promise: every rule observes every reading     *)
(* once, in order, in one atomic step, and alerts at the first reading of  *)
(* an episode by which the breach has lasted for sustainSeconds.  No       *)
(* queue, no Redis, no handler.                                            *)
(***************************************************************************)
EXTENDS RuleSchema, Sequences

CONSTANTS Rules, Devices, Readings, NoState, MaxMessages

VARIABLES
    readings,   \* the readings that came, in order
    observed,   \* of each rule: how many of them it has observed
    episode,    \* of each rule and device: the open episode, or NoState
    alerts      \* alerts raised: [rule, msg]

vars == <<readings, observed, episode, alerts>>

Keys == (DOMAIN Rules) \X Devices

Init ==
    /\ readings = << >>
    /\ observed = [r \in DOMAIN Rules |-> 0]
    /\ episode = [k \in Keys |-> NoState]
    /\ alerts = << >>

Arrive ==
    /\ Len(readings) < MaxMessages
    /\ \E reading \in Readings : readings' = Append(readings, reading)
    /\ UNCHANGED <<observed, episode, alerts>>

\* The next reading for rule r.
Upcoming(r) == readings[observed[r] + 1]
Observe(r) ==
    /\ observed[r] < Len(readings)
    /\ observed' = [observed EXCEPT ![r] = @ + 1]
    /\ UNCHANGED readings

BreachingNext(r) == Breaches(Rules[r], Upcoming(r).sample[Rules[r].metric])
Key(r) == <<r, Upcoming(r).device>>
Open(r) ==
    IF episode[Key(r)] = NoState
    THEN [breachStart |-> Upcoming(r).timestamp, fired |-> FALSE]
    ELSE episode[Key(r)]
Due(r) ==
    /\ ~Open(r).fired
    /\ Upcoming(r).timestamp - Open(r).breachStart >= Rules[r].sustainSeconds

EndEpisode(r) ==
    /\ Observe(r) /\ ~BreachingNext(r)
    /\ episode' = [episode EXCEPT ![Key(r)] = NoState]
    /\ UNCHANGED alerts

ContinueEpisode(r) ==
    /\ Observe(r) /\ BreachingNext(r) /\ ~Due(r)
    /\ episode' = [episode EXCEPT ![Key(r)] = Open(r)]
    /\ UNCHANGED alerts

RaiseAlert(r) ==
    /\ Observe(r) /\ BreachingNext(r) /\ Due(r)
    /\ episode' = [episode EXCEPT ![Key(r)] = [Open(r) EXCEPT !.fired = TRUE]]
    /\ alerts' = Append(alerts, [rule |-> r, msg |-> observed'[r]])

Next ==
    \/ Arrive
    \/ \E r \in DOMAIN Rules :
          EndEpisode(r) \/ ContinueEpisode(r) \/ RaiseAlert(r)

Spec == Init /\ [][Next]_vars
FairSpec == Spec /\ \A r \in DOMAIN Rules :
    WF_vars(EndEpisode(r) \/ ContinueEpisode(r) \/ RaiseAlert(r))

=============================================================================
