-------------------------- MODULE MainCoordinator --------------------------
(***************************************************************************)
(* TraefikProxyCoordinator: the polling of Traefik's API.                  *)
(*                                                                         *)
(* A refresh is one fetch_all: requests sent together, answered one by     *)
(* one, combined when the last is in.  Two refreshes may overlap, because  *)
(* nothing locks DataUpdateCoordinator._async_refresh: the one its timer   *)
(* starts and the one async_request_refresh starts through a debouncer.    *)
(* A request fetch takes at most 10 s and the timer is armed for at least  *)
(* 15 s, so there is never more than one of each.                          *)
(*                                                                         *)
(* Traefik is its configuration (a version number) and the way it answers  *)
(* at the moment (`mode`).                                                 *)
(***************************************************************************)
EXTENDS TraefikApi

CONSTANTS
    N,              \* requests per fetch_all (six in the code)
    DownReplies,    \* replies of a Traefik that does not work
    MaxVersion      \* bound: configuration changes of a behaviour

ASSUME EndpointAssumption == N \in Nat \ {0} /\ MaxVersion \in Nat
ASSUME DownAssumption == DownReplies \subseteq ApiReplies \cup RawReplies

VARIABLES
    version,    \* Traefik's current configuration
    mode,       \* "up", "down", or "locked": the token is refused
    flight,     \* which refreshes are under way
    got,        \* the replies of each refresh so far
    seen,       \* the configuration each reply described
    data,       \* coordinator.data, one version per endpoint
    ok,         \* last_update_success
    timer,      \* the next poll is scheduled
    cooldown,   \* the debouncer's timer is armed
    atEnd,      \* a call came in during the cool-down
    reauth      \* a reauthentication flow was started

vars == <<version, mode, flight, got, seen, data, ok, timer, cooldown, atEnd, reauth>>
traefikVars == <<version, mode>>

Sources == {"timer", "request"}
Endpoints == 1..N
Unanswered == [i \in Endpoints |-> "pending"]
Answered(s) == \A i \in Endpoints : got[s][i] # "pending"

Init ==
    /\ version = 0
    /\ mode = "up"
    /\ flight = [s \in Sources |-> FALSE]
    /\ got = [s \in Sources |-> Unanswered]
    /\ seen = [s \in Sources |-> [i \in Endpoints |-> 0]]
    /\ data = [i \in Endpoints |-> 0]
    /\ ok = TRUE
    /\ timer = TRUE
    /\ cooldown = FALSE
    /\ atEnd = FALSE
    /\ reauth = FALSE

-----------------------------------------------------------------------------
\* Traefik: a new configuration, or a change in the way it answers.
ConfigChange ==
    /\ version < MaxVersion
    /\ version' = version + 1
    /\ UNCHANGED <<mode, flight, got, seen, data, ok, timer, cooldown, atEnd, reauth>>

ModeChange ==
    /\ mode' \in {"up", "down", "locked"} \ {mode}
    /\ UNCHANGED <<version, flight, got, seen, data, ok, timer, cooldown, atEnd, reauth>>

RepliesIn(m) ==
    CASE m = "up" -> {"ok"} [] m = "down" -> DownReplies [] m = "locked" -> {"401"}

\* The head of _async_refresh: the poll timer and the debouncer are cancelled,
\* then fetch_all sends its requests.
StartRefresh(s) ==
    /\ flight' = [flight EXCEPT ![s] = TRUE]
    /\ got' = [got EXCEPT ![s] = Unanswered]
    /\ timer' = FALSE
    /\ cooldown' = FALSE
    /\ atEnd' = FALSE
    /\ UNCHANGED <<traefikVars, seen, data, ok, reauth>>

\* The poll timer fires.
TimerFires ==
    /\ timer
    /\ ~flight["timer"]
    /\ StartRefresh("timer")

\* Debouncer.async_call.  During the cool-down the call is only noted, while a
\* debounced refresh runs it is dropped: in both cases it returns at once.
CallOnlyNoted == cooldown \/ flight["request"]

RequestRefresh ==
    IF CallOnlyNoted
    THEN /\ atEnd' = (atEnd \/ cooldown)
         /\ UNCHANGED <<traefikVars, flight, got, seen, data, ok, timer, cooldown, reauth>>
    ELSE StartRefresh("request")

\* The cool-down ends: a call noted meanwhile gets its refresh now.
CooldownEnds ==
    /\ cooldown
    /\ IF atEnd /\ ~flight["request"]
       THEN StartRefresh("request")
       ELSE /\ cooldown' = FALSE
            /\ atEnd' = FALSE
            /\ UNCHANGED <<traefikVars, flight, got, seen, data, ok, timer, reauth>>

\* One of the gathered requests is answered.
Respond(s, i) ==
    /\ flight[s]
    /\ got[s][i] = "pending"
    /\ \E r \in RepliesIn(mode) : got' = [got EXCEPT ![s][i] = r]
    /\ seen' = [seen EXCEPT ![s][i] = version]
    /\ UNCHANGED <<traefikVars, flight, data, ok, timer, cooldown, atEnd, reauth>>

\* Broken variants: a failed section is filled with nothing, or with what it was;
\* only a success schedules the next poll.
NewDataCleared(s) == [i \in Endpoints |-> IF got[s][i] = "ok" THEN seen[s][i] ELSE -1]
NewDataPartial(s) == [i \in Endpoints |-> IF got[s][i] = "ok" THEN seen[s][i] ELSE data[i]]
ReschedulesOnSuccess(result) == result = "data"

Result(s) == UpdateData(FetchAll(got[s]))

\* Data on success, the last good data otherwise.
NewData(s) == IF Result(s) = "data" THEN seen[s] ELSE data

\* Polling goes on unless the token was refused.
Reschedules(result) == result # "ConfigEntryAuthFailed"

\* gather() returns and _async_refresh ends.
FinishRefresh(s) ==
    LET result == Result(s)
    IN  /\ flight[s]
        /\ Answered(s)
        /\ flight' = [flight EXCEPT ![s] = FALSE]
        /\ got' = [got EXCEPT ![s] = Unanswered]
        /\ seen' = [seen EXCEPT ![s] = [i \in Endpoints |-> 0]]
        /\ data' = NewData(s)
        /\ ok' = (result = "data")
        /\ reauth' = (reauth \/ result = "ConfigEntryAuthFailed")
        /\ timer' = (timer \/ Reschedules(result))
        /\ cooldown' = (cooldown \/ s = "request")
        /\ UNCHANGED <<traefikVars, atEnd>>

\* The entry is reloaded (after a reauthentication, say) while Traefik
\* answers: a new coordinator whose first refresh succeeded.
Reload ==
    /\ mode = "up"
    /\ flight' = [s \in Sources |-> FALSE]
    /\ got' = [s \in Sources |-> Unanswered]
    /\ seen' = [s \in Sources |-> [i \in Endpoints |-> 0]]
    /\ data' = [i \in Endpoints |-> version]
    /\ ok' = TRUE
    /\ timer' = TRUE
    /\ cooldown' = FALSE
    /\ atEnd' = FALSE
    /\ reauth' = FALSE
    /\ UNCHANGED traefikVars

Refreshing ==
    \/ TimerFires \/ CooldownEnds
    \/ \E s \in Sources : FinishRefresh(s) \/ \E i \in Endpoints : Respond(s, i)

Next == ConfigChange \/ ModeChange \/ Refreshing \/ RequestRefresh \/ Reload

\* Timers fire and every request is answered, if only by its timeout; nothing
\* is assumed of Traefik or of the callers.
Fairness ==
    /\ WF_vars(TimerFires) /\ WF_vars(CooldownEnds)
    /\ \A s \in Sources : WF_vars(FinishRefresh(s))
    /\ \A s \in Sources, i \in 1..N : WF_vars(Respond(s, i))

SafeSpec == Init /\ [][Next]_vars
Spec == SafeSpec /\ Fairness
-----------------------------------------------------------------------------
\* Type invariant of the main coordinator.
TypeOK ==
    /\ version \in 0..MaxVersion
    /\ mode \in {"up", "down", "locked"}
    /\ flight \in [Sources -> BOOLEAN]
    /\ got \in [Sources -> [Endpoints -> Replies \cup {"pending"}]]
    /\ seen \in [Sources -> [Endpoints -> 0..MaxVersion]]
    /\ data \in [Endpoints -> 0..MaxVersion]
    /\ ok \in BOOLEAN /\ timer \in BOOLEAN /\ cooldown \in BOOLEAN
    /\ atEnd \in BOOLEAN /\ reauth \in BOOLEAN

\* Polling never dies silently: a poll is scheduled or a refresh is under way,
\* however refreshes overlap and whatever they end with, unless the user has
\* been asked for a new token.
PollingAlive == timer \/ (\E s \in Sources : flight[s]) \/ reauth

\* No mixed payload (coordinator.py:99): the data changes only as a whole, to
\* what one refresh obtained with every request answered well.
AllOrNothing ==
    [][data' # data =>
         \/ \E s \in Sources : /\ \A i \in Endpoints : got[s][i] = "ok"
                               /\ data' = seen[s]
         \/ data' = [i \in Endpoints |-> version]]_vars

\* A refused token leads to reauthentication whatever the other requests of the
\* refresh ended with and in whatever order (api.py:203), and nothing else does.
AuthWins ==
    [][\A s \in Sources : FinishRefresh(s) =>
         LET refused == \E i \in Endpoints : got[s][i] \in AuthReplies
         IN  /\ refused => reauth' /\ ~ok'
             /\ reauth' => reauth \/ refused]_vars

\* The coordinator converges: once Traefik stays up and no reauthentication is
\* open, the data becomes and stays Traefik's configuration.
Converges == <>[](mode = "up" /\ ~reauth) => <>[](\A i \in Endpoints : data[i] = version)
=============================================================================
