----------------------------- MODULE ConfigFlow -----------------------------
(***************************************************************************)
(* TraefikProxyConfigFlow: the dialogs that add an entry (`user`) or change *)
(* its connection (`reconfigure`), and the flow Home Assistant opens for a *)
(* token that was refused (reauthentication), next to the entries they     *)
(* change and to each other.                                               *)
(*                                                                         *)
(* Every flow suspends while _validate_input asks Traefik, and goes on with *)
(* whatever the entries are by then; what follows the answer is one step.  *)
(* Errors only bring the form back.  The yaml step is left out: nothing    *)
(* starts it.                                                              *)
(***************************************************************************)
EXTENDS EntryLifecycle

vars == entryVars

ReauthFlows ==
    [pc : {"none", "form", "probing", "waiting", "reloading"},
     url : Urls \cup {None}, token : Tokens \cup {None}]
DialogFlows ==
    [kind : {"none", "user", "reconfigure"}, entry : Entries \cup {None},
     pc : {"form", "probing"}, url : Urls \cup {None}, token : Tokens \cup {None}]

-----------------------------------------------------------------------------
\* _check_url_shape.
CheckUrlShape(url) == url \notin Malformed

\* What _validate_input does with the answer to GET /api/overview.  The client
\* has translated the errors of aiohttp, a 404 and a malformed URL included, so
\* the clauses for those are never taken; what it lets through, nobody catches.
ValidateInput(reply) ==
    CASE Get(reply) = "ok"   -> "valid"
      [] Get(reply) = "auth" -> "invalid_auth"
      [] Get(reply) = "api"  -> "cannot_connect"
      [] OTHER               -> "raised"

Validated(url, token) ==
    \E r \in Answers([url |-> url, token |-> token]) : ValidateInput(r) = "valid"
Rejected(url, token) ==
    \E r \in Answers([url |-> url, token |-> token]) : ValidateInput(r) # "valid"

\* Broken variant: an entry is looked for by its URL.
ConfiguredByUrl(host) == \E e \in Present : HostOf[data[e].url] = host

\* _abort_if_unique_id_configured, the flow's own entry included; and
\* async_set_unique_id, which finds the reauthentication flows by their id.
Configured(host) == \E e \in Present : uid[e] = host

\* A user opens a dialog.
Open(d, dialog) ==
    /\ Outside
    /\ \E c \in Dialogs : dialogs[c] = NoDialog
    /\ d = CHOOSE c \in Dialogs : dialogs[c] = NoDialog
    /\ dialogs' = [dialogs EXCEPT ![d] = dialog]
    /\ UNCHANGED <<good, storedVars, runVars, reauth>>

OpenUser(d) == Open(d, [NoDialog EXCEPT !.kind = "user"])
OpenReconfigure(d, e) ==
    e \in Present /\ Open(d, [NoDialog EXCEPT !.kind = "reconfigure", !.entry = e])

\* ... and closes it.
Close(d) ==
    /\ dialogs[d].kind # "none" /\ dialogs[d].pc = "form"
    /\ dialogs' = [dialogs EXCEPT ![d] = NoDialog]
    /\ UNCHANGED <<worldVars, storedVars, runVars, reauth>>

\* The form comes back: a malformed URL is sent to nobody.
Submit(d, url, token) ==
    /\ dialogs[d].kind # "none" /\ dialogs[d].pc = "form"
    /\ CheckUrlShape(url)
    /\ dialogs' = [dialogs EXCEPT ![d].pc = "probing", ![d].url = url, ![d].token = token]
    /\ UNCHANGED <<worldVars, storedVars, runVars, reauth>>

\* Traefik rejects what was entered, or does not answer.
DialogRejected(d) ==
    /\ dialogs[d].pc = "probing"
    /\ Rejected(dialogs[d].url, dialogs[d].token)
    /\ dialogs' = [dialogs EXCEPT ![d].pc = "form", ![d].url = None, ![d].token = None]
    /\ UNCHANGED <<worldVars, storedVars, runVars, reauth>>

DialogAccepted(d, kind) ==
    /\ dialogs[d].kind = kind /\ dialogs[d].pc = "probing"
    /\ Validated(dialogs[d].url, dialogs[d].token)
    /\ dialogs' = [dialogs EXCEPT ![d] = NoDialog]
    /\ UNCHANGED <<worldVars, reauth>>

\* Both dialogs abort when the host is an entry's unique id.
AbortConfigured(d, kind) ==
    /\ DialogAccepted(d, kind)
    /\ Configured(HostOf[dialogs[d].url])
    /\ UNCHANGED <<storedVars, runVars>>

\* The slot async_create_entry uses: Home Assistant replaces an entry with the
\* same unique id.
SlotFor(host) ==
    IF \E e \in Present : uid[e] = host THEN CHOOSE e \in Present : uid[e] = host
    ELSE CHOOSE e \in Entries : e \notin Present

\* async_step_user ends: the entry is created and set up.
CreateEntry(d) ==
    LET host == HostOf[dialogs[d].url]
        e == SlotFor(host)
    IN  /\ DialogAccepted(d, "user")
        /\ ~Configured(host)
        /\ Present # Entries
        /\ uid' = [uid EXCEPT ![e] = host]
        /\ data' = [data EXCEPT ![e] = [url |-> dialogs[d].url, token |-> dialogs[d].token]]
        /\ options' = [options EXCEPT ![e] = DefaultScanInterval]
        /\ UNCHANGED <<listening, scheduled>>
        /\ BeginSetup({e})

\* async_update_entry with other data calls the listener.
WriteData(e, connection) ==
    /\ data' = [data EXCEPT ![e] = connection]
    /\ UNCHANGED <<uid, options>>
    /\ interval' = [interval EXCEPT ![e] = IF connection # data[e] THEN Pushed(e) ELSE interval[e]]

\* async_step_reconfigure ends: the connection is replaced, the unique id is
\* not, and a reload is scheduled.
Reconfigure(d) ==
    LET e == dialogs[d].entry
    IN  /\ DialogAccepted(d, "reconfigure")
        /\ ~Configured(HostOf[dialogs[d].url])
        /\ WriteData(e, [url |-> dialogs[d].url, token |-> dialogs[d].token])
        /\ scheduled' = [scheduled EXCEPT ![e] = TRUE]
        /\ UNCHANGED <<state, client, polling, listening, late>>

-----------------------------------------------------------------------------
\* async_step_reauth_confirm: the new token is tried on the URL of the entry.
SubmitToken(e, token) ==
    /\ reauth[e].pc = "form"
    /\ reauth' = [reauth EXCEPT ![e] =
                    [pc |-> "probing", url |-> data[e].url, token |-> token]]
    /\ UNCHANGED <<worldVars, storedVars, runVars, dialogs>>

TokenRejected(e) ==
    /\ reauth[e].pc = "probing"
    /\ Rejected(reauth[e].url, reauth[e].token)
    /\ reauth' = [reauth EXCEPT ![e] = ReauthForm]
    /\ UNCHANGED <<worldVars, storedVars, runVars, dialogs>>

\* Broken variants: probe_data is stored; the reload is forgotten.
WithTokenProbed(e) == [url |-> reauth[e].url, token |-> reauth[e].token]
AfterTokenDone(e) == NoReauth

\* {**entry.data, CONF_API_KEY: new_api_key}
WithToken(e) == [data[e] EXCEPT !.token = reauth[e].token]

\* The flow awaits async_reload.
AfterToken(e) == [NoReauth EXCEPT !.pc = "waiting"]

TokenAccepted(e) ==
    /\ reauth[e].pc = "probing"
    /\ Validated(reauth[e].url, reauth[e].token)
    /\ WriteData(e, WithToken(e))
    /\ reauth' = [reauth EXCEPT ![e] = AfterToken(e)]
    /\ UNCHANGED <<worldVars, state, client, polling, listening, scheduled,
                   late, dialogs>>

-----------------------------------------------------------------------------
DialogStep(d) ==
    \/ OpenUser(d) \/ Close(d) \/ DialogRejected(d)
    \/ AbortConfigured(d, "user") \/ AbortConfigured(d, "reconfigure")
    \/ CreateEntry(d) \/ Reconfigure(d)
    \/ \E e \in Entries : OpenReconfigure(d, e)
    \/ \E url \in Urls, token \in Tokens : Submit(d, url, token)

ReauthStep(e) ==
    \/ TokenRejected(e) \/ TokenAccepted(e)
    \/ \E token \in Tokens : SubmitToken(e, token)

Next ==
    \/ LifecycleStep
    \/ \E d \in Dialogs : DialogStep(d)
    \/ \E e \in Entries : ReauthStep(e)

\* The event loop ends what was awaited and fires the retry timer; nothing is
\* assumed of users, of Traefik, or of polls.
Fairness ==
    \A e \in Entries :
        /\ WF_vars(FirstRefreshEnds(e))
        /\ SF_vars((FirstRefreshOk(e) \/ FirstRefreshRefused(e)))
        /\ WF_vars(EndSetup(e))
        /\ WF_vars(Retry(e))
        /\ WF_vars(ScheduledReload(e))
        /\ WF_vars(ReauthReload(e))

SafeSpec == Init /\ [][Next]_vars
Spec == SafeSpec /\ Fairness
-----------------------------------------------------------------------------
\* Type invariant of entries and flows; an interval that is stored or in use is
\* one the schema allows.
TypeOK ==
    /\ good \in [Urls \ Malformed -> Tokens] /\ events \in 0..MaxEvents
    /\ uid \in [Entries -> Hosts \cup {None}]
    /\ data \in [Entries -> Connection \cup {None}]
    /\ options \in [Entries -> ScanIntervals]
    /\ state \in [Entries -> {"absent", "refreshing", "platforms", "loaded", "retry", "error"}]
    /\ client \in [Entries -> Connection \cup {None}]
    /\ interval \in [Entries -> ScanIntervals]
    /\ polling \in [Entries -> BOOLEAN] /\ listening \in [Entries -> BOOLEAN]
    /\ scheduled \in [Entries -> BOOLEAN] /\ late \in [Entries -> BOOLEAN]
    /\ reauth \in [Entries -> ReauthFlows]
    /\ dialogs \in [Dialogs -> DialogFlows]

\* Every change of the stored connection reaches the running client: an entry
\* that is set up, or being set up, talks to the URL and with the token stored,
\* or its reload is due.  Changes come from flows and dialogs in any order,
\* while set-ups, reloads and retries of the same entry are under way.
ClientCurrent ==
    \A e \in Entries :
        state[e] \in SettingUp \cup {"loaded"} => client[e] = data[e] \/ ReloadDue(e)

\* config_flow.py:326 "URL and verify_ssl untouched": a reauthentication that
\* read the URL before it asked Traefik does not undo a reconfiguration that
\* ended meanwhile; only a reconfiguration of an entry changes its URL.
UrlOnlyReconfigured ==
    [][\A e \in Present :
         data'[e].url # data[e].url =>
             \E d \in Dialogs : /\ dialogs[d].kind = "reconfigure" /\ dialogs[d].entry = e
                               /\ dialogs[d].url = data'[e].url /\ dialogs'[d] = NoDialog]_vars

\* config_flow.py:398 "we never want to silently overwrite a different Traefik
\* entry": of two dialogs for one host, whichever ends second, and whatever was
\* reconfigured before, adding an entry leaves those that exist alone.
AddsOnly ==
    [][\A d \in Dialogs : CreateEntry(d) =>
         \A e \in Present : uid'[e] = uid[e] /\ data'[e] = data[e] /\ state'[e] = state[e]]_vars

\* config_flow.py:175 "applied live": a loaded entry polls at the interval its
\* options say, unless they changed while its set-up was under way (the
\* coordinator had read them already and the listener was not called).
IntervalLive ==
    \A e \in Entries :
        state[e] = "loaded" /\ interval[e] # options[e] => late[e]

\* Once Traefik stays up and is left alone, every set-up, retried or reloaded as
\* often as it takes, ends with the entry loaded or its token refused, whatever
\* becomes of the certificates (__init__.py:211).
SetupSettles ==
    \A e \in Entries :
        (e \in Present) ~> (state[e] \in {"loaded", "error"})

\* A reauthentication whose token was accepted ends: its reload gets the lock
\* and ends, next to retries, scheduled reloads and restarts.
ReauthEnds ==
    \A e \in Entries :
        (reauth[e].pc \in {"waiting", "reloading"}) ~>
            (reauth[e].pc \notin {"waiting", "reloading"})

-----------------------------------------------------------------------------
(* What the documentation says and the code does not do. *)

\* config_flow.py:314 "Triggered by HA when the coordinator raises
\* ConfigEntryAuthFailed": an entry given up, or one whose polling stopped,
\* because of its token has a flow open to repair it, unless a reload is due.
ReauthOffered ==
    \A e \in Entries :
        (state[e] = "error" \/ (state[e] = "loaded" /\ ~polling[e]))
            => ActiveFlow(e) \/ ReloadDue(e)
=============================================================================
