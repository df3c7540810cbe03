--------------------------- MODULE ReloadRouters ---------------------------
(***************************************************************************)
(* The service traefik_proxy.reload_routers (_async_handle_reload_routers) *)
(* and the coordinator it polls through async_request_refresh: one call of *)
(* the service runs next to the polls, to other callers of the debouncer   *)
(* and to a Traefik that changes its configuration when it likes.          *)
(*                                                                         *)
(* Times are milliseconds of the call's own clock, time.monotonic() - t0.  *)
(* What the call waits for takes a time of the set Delays; a sleep takes   *)
(* its backoff and some such time more.  The variables of MainCoordinator  *)
(* are those of the coordinator the call took at its start, which it keeps *)
(* when the entry is reloaded and another one takes over.  They rest once  *)
(* the call is over.                                                       *)
(***************************************************************************)
EXTENDS MainCoordinator

CONSTANTS
    RouterNames,    \* names of the HTTP routers in each configuration
    Delays          \* how long an awaited call may take, in ms

ASSUME DelayAssumption == Delays \subseteq Nat

VARIABLES
    pc,         \* where the handler is
    before,     \* snapshot of the router names
    current,    \* router names last read
    attempts,
    backoff,    \* backoff_ms
    elapsed,    \* ms since t0
    retired,    \* the entry was unloaded: the coordinator is shut down
    since       \* configuration at the start of the call, if it was known then

serviceVars == <<pc, before, current, attempts, backoff, elapsed, retired, since>>
allVars == <<vars, serviceVars>>

MaxAttempts == 10
MaxBudget == 5000
FirstBackoff == 200
MaxBackoff == 5000

\* Broken variant: without a successful refresh there are no routers.
CurrentRouterNamesIfOk == IF ok THEN RouterNames[data[1]] ELSE {}

\* _current_router_names: the http_routers section of coordinator.data.
CurrentRouterNames == RouterNames[data[1]]

Verified == current # before
Over == pc \in {"done", "raised"}

\* The data is Traefik's configuration and no refresh is under way that could
\* bring back an older one.
Unknown == -1
UpToDate == data[1] = version /\ \A s \in Sources : ~flight[s]

InitAll ==
    /\ Init
    /\ pc = "idle"
    /\ before = {}
    /\ current = {}
    /\ attempts = 0
    /\ backoff = FirstBackoff
    /\ elapsed = 0
    /\ retired = FALSE
    /\ since = Unknown

-----------------------------------------------------------------------------
\* The handler takes its snapshot from the coordinator and sends the POST.
Call ==
    /\ pc = "idle"
    /\ pc' = "post"
    /\ before' = CurrentRouterNames
    /\ current' = before'
    /\ since' = IF UpToDate THEN version ELSE Unknown
    /\ UNCHANGED <<vars, attempts, backoff, elapsed, retired>>

\* client.reload_routers(): 2xx goes on, anything else leaves the handler.
Post ==
    /\ pc = "post"
    /\ IF mode = "up" THEN pc' = "loop" ELSE pc' = "raised"
    /\ \E d \in Delays : elapsed' = elapsed + d
    /\ UNCHANGED <<vars, before, current, attempts, backoff, retired, since>>

\* Broken variant: no attempt whose backoff would overrun the budget.
MayTryWithinBudget == attempts < MaxAttempts /\ elapsed + backoff < MaxBudget

\* Broken variant: only the attempts are counted.
MayTryByAttempts == attempts < MaxAttempts

\* The condition of the loop.
MayTry == attempts < MaxAttempts /\ elapsed < MaxBudget

\* Broken variant: a call that was only noted is waited for as well.
TryAlwaysAwaits ==
    /\ pc = "loop"
    /\ MayTry
    /\ attempts' = attempts + 1
    /\ pc' = "await"
    /\ IF retired THEN UNCHANGED vars ELSE RequestRefresh
    /\ UNCHANGED <<before, current, backoff, elapsed, retired, since>>

\* The loop is entered: await coordinator.async_request_refresh(), which a
\* debouncer that was shut down ignores.
Try ==
    /\ pc = "loop"
    /\ MayTry
    /\ attempts' = attempts + 1
    /\ pc' = IF retired \/ CallOnlyNoted THEN "check" ELSE "await"
    /\ IF retired THEN UNCHANGED vars ELSE RequestRefresh
    /\ UNCHANGED <<before, current, backoff, elapsed, retired, since>>

\* The loop's condition fails.
GiveUp ==
    /\ pc = "loop"
    /\ ~MayTry
    /\ pc' = "done"
    /\ UNCHANGED <<vars, before, current, attempts, backoff, elapsed, retired, since>>

\* The router names are compared with the snapshot.
Check ==
    /\ pc = "check"
    /\ current' = CurrentRouterNames
    /\ pc' = IF current' # before THEN "done" ELSE "sleep"
    /\ UNCHANGED <<vars, before, attempts, backoff, elapsed, retired, since>>

\* Broken variants: the backoff is not doubled; it is doubled without its cap.
NextBackoffConstant == backoff
NextBackoffUncapped == backoff * 2

NextBackoff == IF backoff * 2 < MaxBackoff THEN backoff * 2 ELSE MaxBackoff

\* asyncio.sleep(backoff_ms / 1000), and the backoff doubles up to its cap.
Sleep ==
    /\ pc = "sleep"
    /\ \E d \in Delays : elapsed' = elapsed + backoff + d
    /\ backoff' = NextBackoff
    /\ pc' = "loop"
    /\ UNCHANGED <<vars, before, current, attempts, retired, since>>

Service == Call \/ Post \/ Try \/ GiveUp \/ Check \/ Sleep

\* The entry is unloaded (and set up again, with another coordinator): Home
\* Assistant shuts the handler's coordinator down.  Its timers and the poll in
\* progress, a task of the entry, are cancelled; the debounced refresh belongs
\* to who asked for it and goes on.
Retire ==
    /\ pc # "idle" /\ ~Over
    /\ ~retired
    /\ retired' = TRUE
    /\ flight' = [flight EXCEPT !["timer"] = FALSE]
    /\ got' = [got EXCEPT !["timer"] = Unanswered]
    /\ seen' = [seen EXCEPT !["timer"] = [i \in Endpoints |-> 0]]
    /\ timer' = FALSE /\ cooldown' = FALSE /\ atEnd' = FALSE
    /\ UNCHANGED <<traefikVars, data, ok, reauth, pc, before, current,
                   attempts, backoff, elapsed, since>>

\* What a coordinator that was shut down still does: end that refresh.  No
\* timer of it fires any more.
Ending == \E s \in Sources : FinishRefresh(s) \/ \E i \in Endpoints : Respond(s, i)

\* The coordinator and Traefik move on.  A handler that awaited the debounced one (its own task ran it) goes on with it.
Surroundings ==
    /\ \/ ConfigChange \/ ModeChange
       \/ ~Over /\ Ending
       \/ ~Over /\ ~retired /\ (TimerFires \/ CooldownEnds \/ RequestRefresh)
    /\ IF pc = "await" /\ flight["request"] /\ ~flight'["request"]
       THEN pc' = "check" /\ \E d \in Delays : elapsed' = elapsed + d
       ELSE UNCHANGED <<pc, elapsed>>
    /\ UNCHANGED <<before, current, attempts, backoff, retired, since>>

NextAll == Service \/ Surroundings \/ Retire

\* The coordinator's fairness, and the handler's task runs when it can.
SafeSpecAll == InitAll /\ [][NextAll]_allVars
SpecAll ==
    /\ SafeSpecAll
    /\ \A s \in Sources : WF_allVars(FinishRefresh(s) /\ Surroundings)
    /\ \A s \in Sources, i \in 1..N : WF_allVars(Respond(s, i) /\ Surroundings)
    /\ WF_allVars(Post \/ Try \/ GiveUp \/ Check \/ Sleep)
-----------------------------------------------------------------------------
\* Type invariant of the handler.
ServiceTypeOK ==
    /\ pc \in {"idle", "post", "loop", "await", "check", "sleep", "done", "raised"}
    /\ before \in {RouterNames[v] : v \in 0..MaxVersion} \cup {{}}
    /\ current \in {RouterNames[v] : v \in 0..MaxVersion} \cup {{}}
    /\ attempts \in 0..MaxAttempts
    /\ backoff \in FirstBackoff..MaxBackoff
    /\ elapsed \in Nat
    /\ retired \in BOOLEAN /\ since \in {Unknown} \cup 0..MaxVersion

\* The documented maximum of ten attempts is never what ends the loop: the
\* doubling backoff uses the time budget up by the fifth.
AtMostFiveAttempts == attempts <= 5

\* A call that saw no change has not stopped early: it used its budget up.
GivesUpOnlyLate == pc = "done" /\ ~Verified => elapsed >= MaxBudget

\* The budget is looked at before an attempt only, so the call overruns it, but by
\* no more than one sleep and what is waited for in one attempt; and in all it
\* sleeps 6.2 s, with eleven waits beside.
OverrunBounded ==
    \A longest \in Delays : (\A d \in Delays : d <= longest) =>
        /\ elapsed <= MaxBudget + 16 * FirstBackoff + 2 * longest
        /\ elapsed <= 31 * FirstBackoff + 11 * longest

\* A call that began with the data up to date reports a change only if Traefik
\* changed meanwhile: no failure, overlap of refreshes or reload of the entry
\* looks like one.  (Otherwise it may: the snapshot is older than the POST, and
\* a refresh that began earlier may bring an older configuration back.)
ChangeIsReal ==
    pc = "done" /\ Verified /\ since # Unknown => version # since

\* Every call ends, even if no refresh ever succeeds and even if the entry is
\* reloaded under it, so that its coordinator never refreshes again.
ServiceEnds == pc = "post" ~> Over

-----------------------------------------------------------------------------
(* What the documentation says and the code does not do. *)

\* __init__.py:92 async_request_refresh "returns once the refresh cycle
\* completes": the handler goes on to compare the names in the step in which a
\* refresh ends.
RefreshedBeforeCheck ==
    [][pc # "check" /\ pc' = "check" => \E s \in Sources : flight[s] /\ ~flight'[s]]_allVars
=============================================================================
