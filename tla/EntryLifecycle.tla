--------------------------- MODULE EntryLifecycle ---------------------------
(***************************************************************************)
(* The config entries of the integration: async_setup_entry,               *)
(* _async_options_updated and async_unload_entry, with what Home Assistant *)
(* does around them (the set-up lock, the retry timer, reloads, the        *)
(* request for reauthentication).                                          *)
(*                                                                         *)
(* An entry stores the connection the flows wrote (`data`) and the options *)
(* (the scan interval).  A set-up constructs an API client and a           *)
(* coordinator from them and suspends twice: for the coordinator's first   *)
(* refresh, then for the certificates and the platforms.  What is stored   *)
(* may change at any of these points, so what runs and what is stored are  *)
(* different variables.                                                    *)
(*                                                                         *)
(* The flows that are open are variables of this module because a flow     *)
(* waits for the reload it asks for, and an open one suppresses another    *)
(* request; module ConfigFlow moves them.  verify_ssl is left out: every   *)
(* Traefik answers with or without it.  An unload and the set-up that      *)
(* follows it in a reload are one step, and so are several reloads         *)
(* scheduled while the lock is taken.                                      *)
(***************************************************************************)
EXTENDS TraefikApi, FiniteSets

CONSTANTS
    Entries,        \* slots for config entries
    Stored,         \* the entries there are when Home Assistant starts
    StoredData,     \* and their connections
    Dialogs,        \* slots for dialogs a user opens
    Urls, Tokens,   \* what a user may enter
    Malformed,      \* the URLs that are not http(s)://host
    HostOf,         \* the host of a URL: the unique id made of it
    Intervals,      \* scan intervals a user may enter
    None,
    Failures,       \* how a request may fail, but for the token
    FirstGood,      \* the token each Traefik accepts at the start
    MaxEvents       \* bound: what people do (Outside) in a behaviour

MinScanInterval == 15
MaxScanInterval == 300
DefaultScanInterval == 15

Hosts == {HostOf[u] : u \in Urls}
Connection == [url : Urls, token : Tokens]
ScanIntervals == MinScanInterval..MaxScanInterval

ASSUME StoredAssumption ==
    Stored \subseteq Entries /\ StoredData \subseteq [url : Urls \ Malformed, token : Tokens]
ASSUME UrlAssumption == Malformed \subseteq Urls /\ DOMAIN HostOf = Urls
ASSUME NoneAssumption == None \notin Entries \cup Urls \cup Tokens \cup Hosts \cup Connection
ASSUME TraefikAssumption == FirstGood \in [Urls \ Malformed -> Tokens]
ASSUME FailureAssumption == Failures \subseteq ApiReplies \cup RawReplies
ASSUME IntervalAssumption == Intervals \subseteq Int
ASSUME BoundAssumption == MaxEvents \in Nat

VARIABLES
    good,       \* the token each Traefik accepts
    events,     \* how many of them there were
    uid,        \* unique id of each entry, None for an empty slot
    data,       \* entry.data: the connection
    options,    \* entry.options: the scan interval
    state,      \* where the entry is
    client,     \* the connection of the client constructed last
    interval,   \* update_interval of its coordinator
    polling,    \* that coordinator's timer runs
    listening,  \* _async_options_updated is registered
    scheduled,  \* a reload waits for the set-up lock
    late,       \* the options last changed while the set-up was under way
    reauth,     \* the reauthentication flow of each entry
    dialogs     \* the dialogs a user opened

worldVars == <<good, events>>
storedVars == <<uid, data, options>>
runVars == <<state, client, interval, polling, listening, scheduled, late>>
flowVars == <<reauth, dialogs>>
entryVars == <<worldVars, storedVars, runVars, flowVars>>

Present == {e \in Entries : uid[e] # None}
SettingUp == {"refreshing", "platforms"}
HasRuntimeData == {"platforms", "loaded"}

NoReauth == [pc |-> "none", url |-> None, token |-> None]
ReauthForm == [NoReauth EXCEPT !.pc = "form"]
NoDialog == [kind |-> "none", entry |-> None, pc |-> "form", url |-> None, token |-> None]

\* Home Assistant starts: the set-up of the entries stored earlier has begun.
\* The unique id of one that was reconfigured is not the host of its URL.
Init ==
    /\ good = FirstGood
    /\ events = 0
    /\ uid \in [Entries -> Hosts \cup {None}] /\ Present = Stored
    /\ \A e, f \in Stored : uid[e] = uid[f] => e = f
    /\ data \in [Entries -> StoredData \cup {None}]
    /\ \A e \in Entries : data[e] = None <=> e \notin Stored
    /\ options = [e \in Entries |-> DefaultScanInterval]
    /\ state = [e \in Entries |-> IF e \in Stored THEN "refreshing" ELSE "absent"]
    /\ client = data
    /\ interval = [e \in Entries |-> DefaultScanInterval]
    /\ polling = [e \in Entries |-> e \in Stored]
    /\ listening = [e \in Entries |-> FALSE]
    /\ scheduled = [e \in Entries |-> FALSE]
    /\ late = [e \in Entries |-> FALSE]
    /\ reauth = [e \in Entries |-> NoReauth]
    /\ dialogs = [d \in Dialogs |-> NoDialog]

-----------------------------------------------------------------------------
(* What comes from outside at any time: dialogs, option changes, requests to *)
(* reload or restart, new tokens. *)
Outside ==
    /\ events < MaxEvents
    /\ events' = events + 1

(* The Traefiks. *)

\* How a request over a connection may be answered now: it can always fail.
Answers(c) ==
    Failures \cup IF good[c.url] = c.token THEN {"ok"} ELSE {"401"}

\* The owner of a Traefik replaces its token.
Rotate ==
    /\ Outside
    /\ \E u \in Urls \ Malformed, t \in Tokens : good[u] # t /\ good' = [good EXCEPT ![u] = t]
    /\ UNCHANGED <<storedVars, runVars, flowVars>>

-----------------------------------------------------------------------------
(* Set-up. *)

\* A reload of e waits for the lock: a scheduled one, or a flow's own.
ReloadDue(e) == scheduled[e] \/ reauth[e].pc = "waiting"

\* The head of async_setup_entry for the entries E: clients and coordinators
\* are constructed from what is stored, then the first refresh is awaited.
BeginSetup(E) ==
    /\ state' = [e \in Entries |-> IF e \in E THEN "refreshing" ELSE state[e]]
    /\ client' = [e \in Entries |-> IF e \in E THEN data'[e] ELSE client[e]]
    /\ interval' = [e \in Entries |-> IF e \in E THEN options'[e] ELSE interval[e]]
    /\ polling' = [e \in Entries |-> IF e \in E THEN TRUE ELSE polling[e]]
    /\ late' = [e \in Entries |-> IF e \in E THEN FALSE ELSE late[e]]

\* async_start_reauth: nothing when a flow for the entry is open already.
ActiveFlow(e) ==
    \/ reauth[e].pc # "none"
    \/ \E d \in Dialogs : dialogs[d].kind = "reconfigure" /\ dialogs[d].entry = e
StartReauth(e) == IF ActiveFlow(e) THEN reauth[e] ELSE ReauthForm

\* Broken variant: the flow goes on only when the entry is loaded.
ReloadedLoaded(e, flow) ==
    IF flow.pc = "reloading" /\ state'[e] = "loaded" THEN NoReauth ELSE flow

\* A reauthentication flow that awaited this set-up as a part of its reload
\* goes on now, and ends.
Reloaded(e, flow) == IF flow.pc = "reloading" THEN NoReauth ELSE flow

\* The first refresh ends.
FirstRefreshOk(e) ==
    /\ state[e] = "refreshing"
    /\ "ok" \in Answers(client[e])
    /\ state' = [state EXCEPT ![e] = "platforms"]
    /\ UNCHANGED <<worldVars, storedVars, client, interval, polling, listening,
                   scheduled, late, flowVars>>

\* ConfigEntryNotReady: Home Assistant arms a timer to try again.
FirstRefreshNotReady(e) ==
    /\ state[e] = "refreshing"
    /\ \E r \in Answers(client[e]) : UpdateData(Get(r)) = "UpdateFailed"
    /\ state' = [state EXCEPT ![e] = "retry"]
    /\ reauth' = [reauth EXCEPT ![e] = Reloaded(e, reauth[e])]
    /\ UNCHANGED <<worldVars, storedVars, client, interval, polling, listening,
                   scheduled, late, dialogs>>

\* ConfigEntryAuthFailed: Home Assistant gives up and asks for a new token.
FirstRefreshRefused(e) ==
    /\ state[e] = "refreshing"
    /\ \E r \in Answers(client[e]) : UpdateData(Get(r)) = "ConfigEntryAuthFailed"
    /\ state' = [state EXCEPT ![e] = "error"]
    /\ reauth' = [reauth EXCEPT ![e] = Reloaded(e, StartReauth(e))]
    /\ UNCHANGED <<worldVars, storedVars, client, interval, polling, listening,
                   scheduled, late, dialogs>>

FirstRefreshEnds(e) ==
    FirstRefreshOk(e) \/ FirstRefreshNotReady(e) \/ FirstRefreshRefused(e)

\* Broken variant: a failure of the certificates is one of the entry.
EndSetupOfCerts(e) ==
    /\ state[e] = "platforms"
    /\ \E certs \in {"ok", "raised"} :
         /\ state' = [state EXCEPT ![e] = IF certs = "ok" THEN "loaded" ELSE "retry"]
         /\ listening' = [listening EXCEPT ![e] = @ \/ certs = "ok"]
    /\ reauth' = [reauth EXCEPT ![e] = Reloaded(e, reauth[e])]
    /\ UNCHANGED <<worldVars, storedVars, client, interval, polling,
                   scheduled, late, dialogs>>

\* The first refresh of the certificates ended, well or not, and the platforms
\* are set up: the listener is registered and the entry is loaded.
EndSetup(e) ==
    /\ state[e] = "platforms"
    /\ state' = [state EXCEPT ![e] = "loaded"]
    /\ listening' = [listening EXCEPT ![e] = TRUE]
    /\ reauth' = [reauth EXCEPT ![e] = Reloaded(e, reauth[e])]
    /\ UNCHANGED <<worldVars, storedVars, client, interval, polling,
                   scheduled, late, dialogs>>

\* The timer of a set-up that was not ready.  A reload cancels it.
Retry(e) ==
    /\ state[e] = "retry"
    /\ ~ReloadDue(e)
    /\ UNCHANGED <<worldVars, storedVars, listening, scheduled, flowVars>>
    /\ BeginSetup({e})

\* async_reload gets the lock: async_unload_entry, then a set-up.  Nobody
\* removes the listener.
ScheduledReload(e) ==
    /\ scheduled[e]
    /\ state[e] \notin SettingUp
    /\ scheduled' = [scheduled EXCEPT ![e] = FALSE]
    /\ UNCHANGED <<worldVars, storedVars, listening, flowVars>>
    /\ BeginSetup({e})

ReauthReload(e) ==
    /\ reauth[e].pc = "waiting"
    /\ state[e] \notin SettingUp
    /\ reauth' = [reauth EXCEPT ![e].pc = "reloading"]
    /\ UNCHANGED <<worldVars, storedVars, listening, scheduled, dialogs>>
    /\ BeginSetup({e})

\* A user asks Home Assistant to reload the entry.
RequestReload(e) ==
    /\ e \in Present
    /\ Outside
    /\ scheduled' = [scheduled EXCEPT ![e] = TRUE]
    /\ UNCHANGED <<good, storedVars, state, client, interval, polling,
                   listening, late, flowVars>>

\* Home Assistant restarts: only what is stored survives.
Restart ==
    /\ Outside
    /\ listening' = [e \in Entries |-> FALSE]
    /\ scheduled' = [e \in Entries |-> FALSE]
    /\ reauth' = [e \in Entries |-> NoReauth]
    /\ dialogs' = [d \in Dialogs |-> NoDialog]
    /\ UNCHANGED <<good, storedVars>>
    /\ BeginSetup(Present)

-----------------------------------------------------------------------------
(* A loaded entry. *)

\* A refresh, by the timer or on request.  A refused token stops the timer.
Poll(e) ==
    /\ state[e] = "loaded"
    /\ \E r \in Answers(client[e]) :
         LET refused == UpdateData(Get(r)) = "ConfigEntryAuthFailed"
         IN  /\ polling' = [polling EXCEPT ![e] = ~refused]
             /\ reauth' = [reauth EXCEPT ![e] = IF refused THEN StartReauth(e) ELSE reauth[e]]
    /\ UNCHANGED <<worldVars, storedVars, state, client, interval, listening,
                   scheduled, late, dialogs>>

\* Broken variant: the options are stored and left at that.
PushedNever(e) == interval[e]

\* _async_options_updated, called when options or data change.  Without
\* runtime_data it raises.
Pushed(e) ==
    IF listening[e] /\ state[e] \in HasRuntimeData THEN options'[e] ELSE interval[e]

\* Broken variant: the upper end of the range is one too far.
ValidIntervalLoose(v) == v \in MinScanInterval..(MaxScanInterval + 1)

\* STEP_OPTIONS_SCHEMA.
ValidInterval(v) == v \in MinScanInterval..MaxScanInterval

\* The options flow: an interval out of range is not stored.
SetOptions(e, v) ==
    /\ e \in Present
    /\ Outside
    /\ ValidInterval(v)
    /\ options[e] # v
    /\ options' = [options EXCEPT ![e] = v]
    /\ interval' = [interval EXCEPT ![e] = Pushed(e)]
    /\ late' = [late EXCEPT ![e] = state[e] \in SettingUp]
    /\ UNCHANGED <<good, uid, data, state, client, polling, listening,
                   scheduled, flowVars>>

EntryStep(e) ==
    \/ FirstRefreshEnds(e) \/ EndSetup(e) \/ Retry(e)
    \/ RequestReload(e) \/ ScheduledReload(e) \/ ReauthReload(e) \/ Poll(e)
    \/ \E v \in Intervals : SetOptions(e, v)

LifecycleStep == Rotate \/ Restart \/ \E e \in Entries : EntryStep(e)
=============================================================================
