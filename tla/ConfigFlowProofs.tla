-------------------------- MODULE ConfigFlowProofs --------------------------
(***************************************************************************)
(* Entries and flows for any number of entries, dialogs, URLs, tokens and  *)
(* outside events.                                                         *)
(***************************************************************************)
EXTENDS ConfigFlow, TLAPS

\* An entry has a connection from its creation on, and what refers to an entry
\* refers to one that exists.
EntriesWhole ==
    \A e \in Entries :
        /\ uid[e] # None <=> data[e] # None
        /\ data[e] = None => state[e] = "absent" /\ reauth[e].pc = "none" /\ ~scheduled[e]
        /\ state[e] = "loaded" => listening[e]

\* A flow that asks Traefik knows what it asked with.
FlowsWhole ==
    /\ \A e \in Entries : reauth[e].pc = "probing" => reauth[e].url # None /\ reauth[e].token # None
    /\ \A d \in Dialogs :
         /\ dialogs[d].pc = "probing" => dialogs[d].url # None /\ dialogs[d].token # None
         /\ dialogs[d].kind = "reconfigure" =>
                dialogs[d].entry # None /\ data[dialogs[d].entry] # None

\* IntervalLive, during the set-up already.
IntervalKnown ==
    \A e \in Entries :
        state[e] \in SettingUp \cup {"loaded"} /\ interval[e] # options[e] => late[e]

IInv == TypeOK /\ EntriesWhole /\ FlowsWhole /\ ClientCurrent /\ IntervalKnown

LEMMA NoneNew ==
    /\ \A e \in Entries : e # None
    /\ \A u \in Urls : u # None /\ HostOf[u] # None /\ HostOf[u] \in Hosts
    /\ \A t \in Tokens : t # None
    /\ \A c \in Connection : c # None
BY NoneAssumption, UrlAssumption DEF Hosts

LEMMA InitInv == Init => IInv
<1> SUFFICES ASSUME Init PROVE IInv
  OBVIOUS
<1>1. DefaultScanInterval \in ScanIntervals
  BY DEF DefaultScanInterval, ScanIntervals, MinScanInterval, MaxScanInterval
<1>2. StoredData \subseteq Connection
  BY StoredAssumption DEF Connection
<1>3. TypeOK
  BY <1>1, <1>2, TraefikAssumption, BoundAssumption
  DEF Init, TypeOK, NoReauth, NoDialog, ReauthFlows, DialogFlows
<1>4. EntriesWhole
  BY DEF Init, EntriesWhole, NoReauth, Present
<1>5. FlowsWhole /\ ClientCurrent /\ IntervalKnown
  BY DEF Init, FlowsWhole, ClientCurrent, IntervalKnown, NoReauth, NoDialog
<1> QED BY <1>3, <1>4, <1>5 DEF IInv

\* The part of IInv a set-up has a hand in.
Running ==
    /\ state \in [Entries -> {"absent", "refreshing", "platforms", "loaded", "retry", "error"}]
    /\ client \in [Entries -> Connection \cup {None}]
    /\ interval \in [Entries -> ScanIntervals]
    /\ polling \in [Entries -> BOOLEAN] /\ late \in [Entries -> BOOLEAN]
    /\ \A e \in Entries : data[e] = None => state[e] = "absent"
    /\ \A e \in Entries : state[e] = "loaded" => listening[e]
    /\ ClientCurrent /\ IntervalKnown

-----------------------------------------------------------------------------
\* What holds after the head of a set-up of the entries E, whatever led to it:
\* clients and intervals are what is stored.
LEMMA BeginSetupInv ==
  ASSUME IInv, NEW E \in SUBSET Entries, BeginSetup(E),
         data' \in [Entries -> Connection \cup {None}],
         options' \in [Entries -> ScanIntervals],
         \A e \in E : data'[e] # None,
         \A e \in Entries \ E :
             data'[e] = data[e] /\ options'[e] = options[e] /\ listening'[e] = listening[e]
                 /\ (ReloadDue(e) => ReloadDue(e)')
  PROVE  Running'
<1>1. /\ state' \in [Entries -> {"absent", "refreshing", "platforms", "loaded", "retry", "error"}]
      /\ client' \in [Entries -> Connection \cup {None}]
      /\ interval' \in [Entries -> ScanIntervals]
      /\ polling' \in [Entries -> BOOLEAN] /\ late' \in [Entries -> BOOLEAN]
  BY DEF BeginSetup, IInv, TypeOK
<1>2. /\ \A e \in Entries : data'[e] = None => state'[e] = "absent"
      /\ \A e \in Entries : state'[e] = "loaded" => listening'[e]
  BY DEF BeginSetup, IInv, EntriesWhole
<1>3. ClientCurrent'
  BY DEF BeginSetup, IInv, ClientCurrent
<1>4. IntervalKnown'
  BY DEF BeginSetup, IInv, IntervalKnown
<1> QED BY <1>1, <1>2, <1>3, <1>4 DEF Running

-----------------------------------------------------------------------------
(* The steps that leave what is stored and what runs alone, but for `state`,   *)
(* `polling` and the flows.                                                    *)

LEMMA StartReauthType ==
  ASSUME IInv, NEW e \in Entries
  PROVE  /\ StartReauth(e) \in ReauthFlows /\ Reloaded(e, reauth[e]) \in ReauthFlows
         /\ Reloaded(e, StartReauth(e)) \in ReauthFlows
         /\ StartReauth(e).pc = "probing" => StartReauth(e) = reauth[e]
         /\ StartReauth(e).pc = "waiting" <=> reauth[e].pc = "waiting"
BY DEF StartReauth, ActiveFlow, ReauthForm, Reloaded, NoReauth, IInv, TypeOK, ReauthFlows

LEMMA OutsideInv ==
  ASSUME IInv, Rotate
  PROVE  IInv'
BY BoundAssumption DEF Rotate, Outside, IInv, TypeOK, EntriesWhole, FlowsWhole, ClientCurrent,
  IntervalKnown, ReloadDue, storedVars, runVars, flowVars

LEMMA FirstRefreshInv ==
  ASSUME IInv, NEW e \in Entries, FirstRefreshEnds(e)
  PROVE  IInv'
<1> USE DEF IInv, worldVars, storedVars
<1>1. CASE FirstRefreshOk(e)
  BY <1>1 DEF FirstRefreshOk, flowVars, TypeOK, EntriesWhole, FlowsWhole, ClientCurrent,
     IntervalKnown, ReloadDue, SettingUp
<1>2. CASE FirstRefreshNotReady(e)
  BY <1>2 DEF FirstRefreshNotReady, Reloaded, NoReauth, TypeOK, ReauthFlows, EntriesWhole,
     FlowsWhole, ClientCurrent, IntervalKnown, ReloadDue, SettingUp
<1>3. CASE FirstRefreshRefused(e)
  <2>1. reauth' = [reauth EXCEPT ![e] = Reloaded(e, StartReauth(e))]
    BY <1>3 DEF FirstRefreshRefused
  <2>2. TypeOK'
    BY <1>3, <2>1, StartReauthType DEF FirstRefreshRefused, TypeOK
  <2>3. EntriesWhole' /\ ClientCurrent' /\ IntervalKnown'
    BY <1>3, <2>1, StartReauthType DEF FirstRefreshRefused, TypeOK, EntriesWhole,
       ClientCurrent, IntervalKnown, ReloadDue, SettingUp, Reloaded, NoReauth
  <2>4. FlowsWhole'
    BY <1>3, <2>1, StartReauthType DEF FirstRefreshRefused, TypeOK, FlowsWhole, Reloaded, NoReauth
  <2> QED BY <2>2, <2>3, <2>4
<1> QED BY <1>1, <1>2, <1>3 DEF FirstRefreshEnds

LEMMA EndSetupInv ==
  ASSUME IInv, NEW e \in Entries, EndSetup(e)
  PROVE  IInv'
<1> USE DEF EndSetup, Reloaded, NoReauth, IInv, worldVars, storedVars
<1>1. TypeOK'
  BY DEF TypeOK, ReauthFlows
<1>2. EntriesWhole' /\ FlowsWhole'
  BY DEF TypeOK, EntriesWhole, FlowsWhole, ReauthFlows
<1>3. ClientCurrent'
  BY DEF TypeOK, ClientCurrent, ReloadDue, SettingUp, ReauthFlows
<1>4. IntervalKnown'
  <2>1. late' = late /\ interval' = interval /\ options' = options
    OBVIOUS
  <2> QED BY <2>1 DEF TypeOK, IntervalKnown, SettingUp
<1> QED BY <1>1, <1>2, <1>3, <1>4

LEMMA PollInv ==
  ASSUME IInv, NEW e \in Entries, Poll(e)
  PROVE  IInv'
<1>1. PICK refused \in BOOLEAN :
        /\ polling' = [polling EXCEPT ![e] = ~refused]
        /\ reauth' = [reauth EXCEPT ![e] = IF refused THEN StartReauth(e) ELSE reauth[e]]
  BY DEF Poll
<1>2. TypeOK'
  BY <1>1, StartReauthType DEF Poll, IInv, TypeOK, worldVars, storedVars
<1>3. EntriesWhole' /\ ClientCurrent' /\ IntervalKnown'
  BY <1>1, StartReauthType DEF Poll, IInv, TypeOK, EntriesWhole, ClientCurrent,
     IntervalKnown, ReloadDue, SettingUp, storedVars
<1>4. FlowsWhole'
  BY <1>1, StartReauthType DEF Poll, IInv, TypeOK, FlowsWhole, storedVars
<1> QED BY <1>2, <1>3, <1>4 DEF IInv

LEMMA SetOptionsInv ==
  ASSUME IInv, NEW e \in Entries, NEW v \in Intervals, SetOptions(e, v)
  PROVE  IInv'
<1> USE BoundAssumption DEF IInv, SetOptions, flowVars, storedVars
<1>1. TypeOK'
  BY DEF TypeOK, Outside, ValidInterval, ScanIntervals, Pushed
<1>2. EntriesWhole' /\ FlowsWhole' /\ ClientCurrent'
  BY DEF TypeOK, EntriesWhole, FlowsWhole, ClientCurrent, ReloadDue
<1>3. IntervalKnown'
  BY DEF TypeOK, EntriesWhole, IntervalKnown, Pushed, HasRuntimeData, SettingUp
<1> QED BY <1>1, <1>2, <1>3

LEMMA RequestReloadInv ==
  ASSUME IInv, NEW e \in Entries, RequestReload(e)
  PROVE  IInv'
BY BoundAssumption DEF RequestReload, Outside, Present, IInv, TypeOK, EntriesWhole, FlowsWhole,
   ClientCurrent, IntervalKnown, ReloadDue, storedVars, flowVars

-----------------------------------------------------------------------------
(* The steps that begin a set-up. *)

LEMMA RetryInv ==
  ASSUME IInv, NEW e \in Entries, Retry(e)
  PROVE  IInv'
<1> USE DEF Retry, worldVars, storedVars, flowVars
<1>1. data[e] # None
  BY DEF IInv, EntriesWhole
<1>2. \A f \in Entries : ReloadDue(f)' = ReloadDue(f)
  BY DEF ReloadDue
<1>3. Running'
  BY <1>1, <1>2, BeginSetupInv, {e} \in SUBSET Entries DEF IInv, TypeOK
<1> QED BY <1>3 DEF Running, IInv, TypeOK, EntriesWhole, FlowsWhole

LEMMA ScheduledReloadInv ==
  ASSUME IInv, NEW e \in Entries, ScheduledReload(e)
  PROVE  IInv'
<1> USE DEF ScheduledReload, worldVars, storedVars, flowVars
<1>1. data[e] # None /\ scheduled' \in [Entries -> BOOLEAN]
  BY DEF IInv, TypeOK, EntriesWhole
<1>2. \A f \in Entries \ {e} : ReloadDue(f)' = ReloadDue(f)
  BY DEF ReloadDue
<1>3. Running'
  BY <1>1, <1>2, BeginSetupInv, {e} \in SUBSET Entries DEF IInv, TypeOK
<1> QED BY <1>1, <1>3 DEF Running, IInv, TypeOK, EntriesWhole, FlowsWhole

LEMMA ReauthReloadInv ==
  ASSUME IInv, NEW e \in Entries, ReauthReload(e)
  PROVE  IInv'
<1> USE DEF ReauthReload, worldVars, storedVars
<1>1. data[e] # None
  BY DEF IInv, EntriesWhole
<1>2. /\ reauth' \in [Entries -> ReauthFlows]
      /\ \A f \in Entries : reauth'[f].pc = "probing" => reauth'[f] = reauth[f]
      /\ \A f \in Entries \ {e} : reauth'[f] = reauth[f]
  BY DEF IInv, TypeOK, ReauthFlows
<1>3. \A f \in Entries \ {e} : ReloadDue(f)' = ReloadDue(f)
  BY <1>2 DEF ReloadDue
<1>4. Running'
  BY <1>1, <1>3, BeginSetupInv, {e} \in SUBSET Entries DEF IInv, TypeOK
<1> QED BY <1>1, <1>2, <1>4 DEF Running, IInv, TypeOK, EntriesWhole, FlowsWhole

LEMMA RestartInv == ASSUME IInv, Restart PROVE IInv'
<1> USE DEF Restart, storedVars
<1>1. Present \subseteq Entries /\ \A e \in Present : data[e] # None
  BY DEF Present, IInv, EntriesWhole
<1>2. \A e \in Entries \ Present : data[e] = None /\ state[e] = "absent"
  BY DEF Present, IInv, EntriesWhole
<1>3. Running'
  <2>1. /\ state' \in [Entries -> {"absent", "refreshing", "platforms", "loaded", "retry", "error"}]
        /\ client' \in [Entries -> Connection \cup {None}]
        /\ interval' \in [Entries -> ScanIntervals]
        /\ polling' \in [Entries -> BOOLEAN] /\ late' \in [Entries -> BOOLEAN]
    BY <1>1 DEF BeginSetup, IInv, TypeOK
  <2>2. \A e \in Entries : state'[e] = IF e \in Present THEN "refreshing" ELSE "absent"
    BY <1>2 DEF BeginSetup
  <2>3. ClientCurrent' /\ IntervalKnown'
    BY <1>1, <2>2 DEF BeginSetup, ClientCurrent, IntervalKnown, SettingUp, IInv, TypeOK
  <2> QED BY <1>1, <2>1, <2>2, <2>3 DEF Running
<1>4. /\ reauth' \in [Entries -> ReauthFlows] /\ dialogs' \in [Dialogs -> DialogFlows]
      /\ listening' \in [Entries -> BOOLEAN] /\ scheduled' \in [Entries -> BOOLEAN]
      /\ events' \in 0..MaxEvents
  BY BoundAssumption DEF Outside, NoReauth, NoDialog, ReauthFlows, DialogFlows, IInv, TypeOK
<1>5. TypeOK'
  BY <1>3, <1>4 DEF Running, IInv, TypeOK
<1>6. EntriesWhole' /\ FlowsWhole'
  BY <1>3 DEF Running, IInv, EntriesWhole, FlowsWhole, NoReauth, NoDialog
<1> QED BY <1>3, <1>5, <1>6 DEF Running, IInv

-----------------------------------------------------------------------------
(* Dialogs. *)

LEMMA OpenInv ==
  ASSUME IInv, NEW d \in Dialogs, NEW dialog \in DialogFlows, Open(d, dialog),
         dialog.pc = "form",
         dialog.kind = "reconfigure" => dialog.entry # None /\ data[dialog.entry] # None
  PROVE  IInv'
<1> USE DEF Open, storedVars, runVars
<1>1. dialogs' = [dialogs EXCEPT ![d] = dialog] /\ events' \in 0..MaxEvents
  BY BoundAssumption DEF Outside, IInv, TypeOK
<1>2. TypeOK'
  BY <1>1 DEF IInv, TypeOK
<1>3. EntriesWhole' /\ ClientCurrent' /\ IntervalKnown'
  BY DEF IInv, EntriesWhole, ClientCurrent, IntervalKnown, ReloadDue
<1>4. FlowsWhole'
  BY <1>1 DEF IInv, TypeOK, FlowsWhole
<1> QED BY <1>2, <1>3, <1>4 DEF IInv

\* A dialog moves, and nothing else does.
LEMMA DialogMoves ==
  ASSUME IInv, NEW d \in Dialogs, NEW dialog \in DialogFlows,
         dialogs' = [dialogs EXCEPT ![d] = dialog],
         UNCHANGED <<worldVars, storedVars, runVars, reauth>>,
         dialog.pc = "probing" => dialog.url # None /\ dialog.token # None,
         dialog.kind # "none" => dialog.kind = dialogs[d].kind /\ dialog.entry = dialogs[d].entry
  PROVE  IInv'
<1> USE DEF worldVars, storedVars, runVars
<1>1. TypeOK'
  BY DEF IInv, TypeOK
<1>2. EntriesWhole' /\ ClientCurrent' /\ IntervalKnown'
  BY DEF IInv, EntriesWhole, ClientCurrent, IntervalKnown, ReloadDue
<1>3. FlowsWhole'
  BY DEF IInv, TypeOK, FlowsWhole
<1> QED BY <1>1, <1>2, <1>3 DEF IInv

LEMMA NoDialogType == NoDialog \in DialogFlows /\ NoDialog.pc = "form" /\ NoDialog.kind = "none"
BY DEF NoDialog, DialogFlows

LEMMA OpensInv ==
  ASSUME IInv, NEW d \in Dialogs, OpenUser(d) \/ \E e \in Entries : OpenReconfigure(d, e)
  PROVE  IInv'
<1>1. CASE OpenUser(d)
  BY <1>1, OpenInv, NoDialogType DEF OpenUser, DialogFlows, NoDialog
<1>2. ASSUME NEW e \in Entries, OpenReconfigure(d, e) PROVE IInv'
  <2>1. e # None /\ data[e] # None
    BY <1>2, NoneNew DEF OpenReconfigure, Present, IInv, EntriesWhole
  <2> QED BY <1>2, <2>1, OpenInv DEF OpenReconfigure, DialogFlows, NoDialog
<1> QED BY <1>1, <1>2

LEMMA CloseInv == ASSUME IInv, NEW d \in Dialogs, Close(d) PROVE IInv'
BY DialogMoves, NoDialogType DEF Close

LEMMA AbortInv ==
  ASSUME IInv, NEW d \in Dialogs, NEW kind, AbortConfigured(d, kind) PROVE IInv'
BY DialogMoves, NoDialogType DEF AbortConfigured, DialogAccepted

LEMMA SubmitInv ==
  ASSUME IInv, NEW d \in Dialogs, NEW url \in Urls, NEW token \in Tokens,
         Submit(d, url, token)
  PROVE  IInv'
<1> DEFINE dialog == [dialogs[d] EXCEPT !.pc = "probing", !.url = url, !.token = token]
<1>1. dialog \in DialogFlows /\ dialogs' = [dialogs EXCEPT ![d] = dialog]
  BY DEF Submit, IInv, TypeOK, DialogFlows
<1>2. /\ dialog.url # None /\ dialog.token # None
      /\ dialog.kind = dialogs[d].kind /\ dialog.entry = dialogs[d].entry
  BY NoneNew DEF IInv, TypeOK, DialogFlows
<1> QED BY <1>1, <1>2, DialogMoves DEF Submit

LEMMA DialogRejectedInv ==
  ASSUME IInv, NEW d \in Dialogs, DialogRejected(d) PROVE IInv'
<1> DEFINE dialog == [dialogs[d] EXCEPT !.pc = "form", !.url = None, !.token = None]
<1>1. dialog \in DialogFlows
  <2>1. dialogs[d] \in DialogFlows
    BY DEF IInv, TypeOK
  <2> QED BY <2>1 DEF DialogFlows
<1>2. dialogs' = [dialogs EXCEPT ![d] = dialog]
  BY DEF DialogRejected, IInv, TypeOK, DialogFlows
<1>3. /\ dialog.pc = "form"
      /\ dialog.kind = dialogs[d].kind /\ dialog.entry = dialogs[d].entry
  BY DEF IInv, TypeOK, DialogFlows
<1> QED BY <1>1, <1>2, <1>3, DialogMoves DEF DialogRejected

\* What a dialog that was accepted had sent, and what becomes of the dialogs.
LEMMA Accepted ==
  ASSUME IInv, NEW d \in Dialogs, NEW kind \in {"user", "reconfigure"}, DialogAccepted(d, kind)
  PROVE  /\ dialogs[d].url \in Urls /\ dialogs[d].token \in Tokens
         /\ [url |-> dialogs[d].url, token |-> dialogs[d].token] \in Connection \ {None}
         /\ HostOf[dialogs[d].url] \in Hosts \ {None}
         /\ dialogs' \in [Dialogs -> DialogFlows]
         /\ \A c \in Dialogs : dialogs'[c] = dialogs[c] \/ dialogs'[c] = NoDialog
<1>1. dialogs[d].url \in Urls /\ dialogs[d].token \in Tokens
  BY DEF DialogAccepted, IInv, TypeOK, FlowsWhole, DialogFlows
<1>2. [url |-> dialogs[d].url, token |-> dialogs[d].token] \in Connection
  BY <1>1 DEF Connection
<1>3. dialogs' \in [Dialogs -> DialogFlows]
  BY NoDialogType DEF DialogAccepted, IInv, TypeOK
<1>4. \A c \in Dialogs : dialogs'[c] = dialogs[c] \/ dialogs'[c] = NoDialog
  BY DEF DialogAccepted, IInv, TypeOK
<1> QED BY <1>1, <1>2, <1>3, <1>4, NoneNew

\* The slot of a new entry is one that is free.
LEMMA SlotFree ==
  ASSUME IInv, NEW host, ~Configured(host), Present # Entries
  PROVE  /\ SlotFor(host) \in Entries /\ SlotFor(host) \notin Present
         /\ data[SlotFor(host)] = None
<1>1. PICK e \in Entries : e \notin Present
  BY DEF Present
<1>2. SlotFor(host) = CHOOSE f \in Entries : f \notin Present
  BY DEF SlotFor, Configured
<1>3. SlotFor(host) \in Entries /\ SlotFor(host) \notin Present
  BY <1>1, <1>2
<1> QED BY <1>3 DEF Present, IInv, EntriesWhole

LEMMA CreateEntryInv ==
  ASSUME IInv, NEW d \in Dialogs, CreateEntry(d)
  PROVE  IInv'
<1> DEFINE host == HostOf[dialogs[d].url]
           connection == [url |-> dialogs[d].url, token |-> dialogs[d].token]
           e == SlotFor(host)
<1>1. /\ DialogAccepted(d, "user") /\ ~Configured(host) /\ Present # Entries
      /\ uid' = [uid EXCEPT ![e] = host]
      /\ data' = [data EXCEPT ![e] = connection]
      /\ options' = [options EXCEPT ![e] = DefaultScanInterval]
      /\ listening' = listening /\ scheduled' = scheduled
      /\ BeginSetup({e})
  BY DEF CreateEntry
<1>2. /\ connection \in Connection \ {None} /\ host \in Hosts \ {None}
      /\ dialogs' \in [Dialogs -> DialogFlows]
      /\ \A c \in Dialogs : dialogs'[c] = dialogs[c] \/ dialogs'[c] = NoDialog
  BY <1>1, Accepted
<1>3. e \in Entries /\ e \notin Present /\ data[e] = None
  BY <1>1, SlotFree
<1> HIDE DEF host, connection, e
<1>4. good' = good /\ events' = events /\ reauth' = reauth
  BY <1>1 DEF DialogAccepted, worldVars
<1>5. /\ uid' \in [Entries -> Hosts \cup {None}]
      /\ data' \in [Entries -> Connection \cup {None}]
      /\ options' \in [Entries -> ScanIntervals]
  BY <1>1, <1>2, <1>3
  DEF IInv, TypeOK, ScanIntervals, DefaultScanInterval, MinScanInterval, MaxScanInterval
<1>6. /\ data'[e] = connection /\ uid'[e] = host
      /\ \A f \in Entries \ {e} :
           data'[f] = data[f] /\ uid'[f] = uid[f] /\ options'[f] = options[f]
  BY <1>1, <1>3 DEF IInv, TypeOK
<1>7. \A f \in Entries : ReloadDue(f)' = ReloadDue(f)
  BY <1>1, <1>4 DEF ReloadDue
<1>8. Running'
  BY <1>1, <1>2, <1>3, <1>5, <1>6, <1>7, BeginSetupInv, {e} \in SUBSET Entries
<1>9. TypeOK'
  BY <1>1, <1>2, <1>4, <1>5, <1>8 DEF Running, IInv, TypeOK
<1>10. EntriesWhole'
  BY <1>1, <1>2, <1>3, <1>4, <1>6, <1>8 DEF Running, IInv, EntriesWhole
<1>11. FlowsWhole'
  BY <1>2, <1>4, <1>5, <1>6, NoDialogType DEF IInv, TypeOK, DialogFlows, FlowsWhole
<1> QED BY <1>8, <1>9, <1>10, <1>11 DEF Running, IInv

-----------------------------------------------------------------------------
(* The flows that change the connection of an entry. *)

\* A stored connection may change while its entry runs, when a reload is due
\* from then on.
LEMMA WriteDataInv ==
  ASSUME IInv, NEW e \in Entries, NEW connection \in Connection, data[e] # None,
         WriteData(e, connection),
         UNCHANGED <<good, events, state, client, polling, listening, late>>,
         scheduled' \in [Entries -> BOOLEAN],
         reauth' \in [Entries -> ReauthFlows],
         dialogs' \in [Dialogs -> DialogFlows],
         ReloadDue(e)',
         \A f \in Entries \ {e} : reauth'[f] = reauth[f] /\ scheduled'[f] = scheduled[f]
  PROVE  TypeOK' /\ EntriesWhole' /\ ClientCurrent' /\ IntervalKnown'
<1>1. /\ data' = [data EXCEPT ![e] = connection] /\ uid' = uid /\ options' = options
      /\ \/ interval' = interval
         \/ interval' = [interval EXCEPT ![e] = options[e]]
  BY DEF WriteData, Pushed, IInv, TypeOK
<1>2. TypeOK'
  BY <1>1 DEF IInv, TypeOK
<1>3. connection # None
  BY NoneNew
<1>4. EntriesWhole'
  BY <1>1, <1>3 DEF IInv, TypeOK, EntriesWhole
<1>5. ClientCurrent'
  BY <1>1 DEF IInv, TypeOK, ClientCurrent, ReloadDue
<1>6. IntervalKnown'
  BY <1>1 DEF IInv, TypeOK, IntervalKnown
<1> QED BY <1>2, <1>4, <1>5, <1>6

LEMMA ReconfigureInv ==
  ASSUME IInv, NEW d \in Dialogs, Reconfigure(d)
  PROVE  IInv'
<1> DEFINE connection == [url |-> dialogs[d].url, token |-> dialogs[d].token]
<1>1. PICK e \in Entries : e = dialogs[d].entry /\ data[e] # None
  BY DEF Reconfigure, DialogAccepted, IInv, TypeOK, DialogFlows, FlowsWhole
<1>2. /\ DialogAccepted(d, "reconfigure") /\ WriteData(e, connection)
      /\ scheduled' = [scheduled EXCEPT ![e] = TRUE]
      /\ UNCHANGED <<state, client, polling, listening, late>>
  BY <1>1 DEF Reconfigure
<1>3. /\ connection \in Connection \ {None}
      /\ dialogs' \in [Dialogs -> DialogFlows]
      /\ \A c \in Dialogs : dialogs'[c] = dialogs[c] \/ dialogs'[c] = NoDialog
  BY <1>2, Accepted
<1> HIDE DEF connection
<1>4. good' = good /\ events' = events /\ reauth' = reauth
  BY <1>2 DEF DialogAccepted, worldVars
<1>5. /\ scheduled' \in [Entries -> BOOLEAN] /\ reauth' \in [Entries -> ReauthFlows]
      /\ ReloadDue(e)' /\ \A f \in Entries \ {e} : scheduled'[f] = scheduled[f]
  BY <1>1, <1>2, <1>4 DEF IInv, TypeOK, ReloadDue
<1>6. TypeOK' /\ EntriesWhole' /\ ClientCurrent' /\ IntervalKnown'
  BY <1>1, <1>2, <1>3, <1>4, <1>5, WriteDataInv
<1>7. FlowsWhole'
  <2>1. \A f \in Entries : data[f] # None => data'[f] # None
    BY <1>1, <1>2, <1>3 DEF WriteData, IInv, TypeOK
  <2> QED BY <1>3, <1>4, <2>1, NoDialogType DEF IInv, TypeOK, DialogFlows, FlowsWhole
<1> QED BY <1>6, <1>7 DEF IInv

LEMMA TokenAcceptedInv ==
  ASSUME IInv, NEW e \in Entries, TokenAccepted(e)
  PROVE  IInv'
<1> DEFINE connection == [data[e] EXCEPT !.token = reauth[e].token]
<1>1. /\ reauth[e].pc = "probing" /\ WriteData(e, connection)
      /\ reauth' = [reauth EXCEPT ![e] = [NoReauth EXCEPT !.pc = "waiting"]]
      /\ UNCHANGED <<good, events, state, client, polling, listening, scheduled, late, dialogs>>
  BY DEF TokenAccepted, WithToken, AfterToken, worldVars
<1>2. data[e] \in Connection /\ data[e] # None /\ reauth[e].token \in Tokens
  BY <1>1 DEF IInv, TypeOK, EntriesWhole, FlowsWhole, ReauthFlows
<1>3. connection \in Connection
  BY <1>2 DEF Connection
<1>4. /\ [NoReauth EXCEPT !.pc = "waiting"] \in ReauthFlows
      /\ [NoReauth EXCEPT !.pc = "waiting"].pc = "waiting"
  BY DEF NoReauth, ReauthFlows
<1> HIDE DEF connection
<1>5. /\ reauth' \in [Entries -> ReauthFlows] /\ reauth'[e].pc = "waiting"
      /\ \A f \in Entries \ {e} : reauth'[f] = reauth[f]
  BY <1>1, <1>4 DEF IInv, TypeOK
<1>6. TypeOK' /\ EntriesWhole' /\ ClientCurrent' /\ IntervalKnown'
  <2>1. ReloadDue(e)'
    BY <1>5 DEF ReloadDue
  <2>2. scheduled' \in [Entries -> BOOLEAN] /\ dialogs' \in [Dialogs -> DialogFlows]
    BY <1>1 DEF IInv, TypeOK
  <2> QED BY <1>1, <1>2, <1>3, <1>5, <2>1, <2>2, WriteDataInv
<1>7. FlowsWhole'
  <2>1. \A f \in Entries : data[f] # None => data'[f] # None
    BY <1>1, <1>2, <1>3, NoneNew DEF WriteData, IInv, TypeOK
  <2>2. dialogs' = dialogs
    BY <1>1
  <2> QED BY <1>1, <1>5, <2>1, <2>2 DEF IInv, TypeOK, DialogFlows, FlowsWhole
<1> QED BY <1>6, <1>7 DEF IInv

-----------------------------------------------------------------------------
(* Reauthentication. *)

LEMMA SubmitTokenInv ==
  ASSUME IInv, NEW e \in Entries, NEW token \in Tokens, SubmitToken(e, token)
  PROVE  IInv'
<1> DEFINE flow == [pc |-> "probing", url |-> data[e].url, token |-> token]
<1>1. /\ reauth[e].pc = "form" /\ reauth' = [reauth EXCEPT ![e] = flow]
      /\ UNCHANGED <<good, events, uid, data, options, state, client, interval, polling,
                     listening, scheduled, late, dialogs>>
  BY DEF SubmitToken, worldVars, storedVars, runVars
<1>2. data[e] # None /\ data[e] \in Connection
  BY <1>1 DEF IInv, TypeOK, EntriesWhole
<1>3. /\ flow \in ReauthFlows /\ flow.pc = "probing"
      /\ flow.url # None /\ flow.token # None
  BY <1>2, NoneNew DEF Connection, ReauthFlows
<1> HIDE DEF flow
<1>4. TypeOK' /\ EntriesWhole'
  BY <1>1, <1>2, <1>3 DEF IInv, TypeOK, EntriesWhole
<1>5. ClientCurrent' /\ IntervalKnown'
  BY <1>1, <1>3 DEF IInv, TypeOK, ClientCurrent, IntervalKnown, ReloadDue
<1>6. FlowsWhole'
  BY <1>1, <1>3 DEF IInv, TypeOK, FlowsWhole
<1> QED BY <1>4, <1>5, <1>6 DEF IInv

LEMMA TokenRejectedInv ==
  ASSUME IInv, NEW e \in Entries, TokenRejected(e)
  PROVE  IInv'
<1>1. /\ reauth[e].pc = "probing" /\ reauth' = [reauth EXCEPT ![e] = ReauthForm]
      /\ UNCHANGED <<good, events, uid, data, options, state, client, interval, polling,
                     listening, scheduled, late, dialogs>>
  BY DEF TokenRejected, worldVars, storedVars, runVars
<1>2. ReauthForm \in ReauthFlows /\ ReauthForm.pc = "form"
  BY DEF ReauthForm, NoReauth, ReauthFlows
<1>3. TypeOK' /\ EntriesWhole'
  BY <1>1, <1>2 DEF IInv, TypeOK, EntriesWhole
<1>4. ClientCurrent' /\ IntervalKnown'
  BY <1>1, <1>2 DEF IInv, TypeOK, ClientCurrent, IntervalKnown, ReloadDue
<1>5. FlowsWhole'
  BY <1>1, <1>2 DEF IInv, TypeOK, FlowsWhole
<1> QED BY <1>3, <1>4, <1>5 DEF IInv

-----------------------------------------------------------------------------
LEMMA LifecycleInv == ASSUME IInv, LifecycleStep PROVE IInv'
<1>1. CASE Rotate
  BY <1>1, OutsideInv
<1>2. CASE Restart
  BY <1>2, RestartInv
<1>3. ASSUME NEW e \in Entries, EntryStep(e) PROVE IInv'
  BY <1>3, FirstRefreshInv, EndSetupInv, RetryInv, RequestReloadInv, ScheduledReloadInv,
     ReauthReloadInv, PollInv, SetOptionsInv DEF EntryStep
<1> QED BY <1>1, <1>2, <1>3 DEF LifecycleStep

LEMMA NextInv == IInv /\ [Next]_vars => IInv'
<1> SUFFICES ASSUME IInv, [Next]_vars PROVE IInv'
  OBVIOUS
<1>1. CASE LifecycleStep
  BY <1>1, LifecycleInv
<1>2. ASSUME NEW d \in Dialogs, DialogStep(d) PROVE IInv'
  BY <1>2, OpensInv, CloseInv, DialogRejectedInv, AbortInv, CreateEntryInv,
     ReconfigureInv, SubmitInv DEF DialogStep
<1>3. ASSUME NEW e \in Entries, ReauthStep(e) PROVE IInv'
  BY <1>3, TokenRejectedInv, TokenAcceptedInv, SubmitTokenInv DEF ReauthStep
<1>4. CASE UNCHANGED vars
  <2> USE <1>4 DEF vars, entryVars, worldVars, storedVars, runVars, flowVars
  <2>1. TypeOK' /\ EntriesWhole' /\ FlowsWhole'
    BY DEF IInv, TypeOK, EntriesWhole, FlowsWhole
  <2>2. ClientCurrent' /\ IntervalKnown'
    BY DEF IInv, ClientCurrent, IntervalKnown, ReloadDue
  <2> QED BY <2>1, <2>2 DEF IInv
<1> QED BY <1>1, <1>2, <1>3, <1>4 DEF Next

LEMMA Invariant == SafeSpec => []IInv
BY InitInv, NextInv, PTL DEF SafeSpec

\* Entries and flows are what TypeOK says, and no interval out of the range of
\* STEP_OPTIONS_SCHEMA is stored or polled at.
THEOREM TypeCorrect == SafeSpec => []TypeOK
<1>1. IInv => TypeOK
  BY DEF IInv
<1> QED BY <1>1, Invariant, PTL

\* However set-ups, reloads, restarts, dialogs and reauthentications interleave,
\* an entry that runs uses the connection that is stored, or is to be reloaded
\* (async_step_reauth_confirm, async_step_reconfigure, async_setup_entry).
THEOREM ClientFollowsData == SafeSpec => []ClientCurrent
<1>1. IInv => ClientCurrent
  BY DEF IInv
<1> QED BY <1>1, Invariant, PTL

\* A loaded entry polls at the interval stored, unless it changed during the
\* set-up (_async_options_updated).
THEOREM IntervalApplied == SafeSpec => []IntervalLive
<1>1. IInv => IntervalLive
  BY DEF IInv, IntervalKnown, IntervalLive
<1> QED BY <1>1, Invariant, PTL

\* Adding an entry (async_step_user) leaves the other entries as they are.
THEOREM AddingAddsOnly == SafeSpec => AddsOnly
<1>1. ASSUME IInv, NEW d \in Dialogs, CreateEntry(d)
      PROVE  \A e \in Present : uid'[e] = uid[e] /\ data'[e] = data[e] /\ state'[e] = state[e]
  <2> DEFINE s == SlotFor(HostOf[dialogs[d].url])
  <2>1. s \in Entries /\ s \notin Present
    BY <1>1, SlotFree DEF CreateEntry
  <2>2. /\ uid' = [uid EXCEPT ![s] = HostOf[dialogs[d].url]]
        /\ data' = [data EXCEPT ![s] = [url |-> dialogs[d].url, token |-> dialogs[d].token]]
        /\ state' = [e \in Entries |-> IF e \in {s} THEN "refreshing" ELSE state[e]]
    BY <1>1 DEF CreateEntry, BeginSetup
  <2> HIDE DEF s
  <2> QED BY <1>1, <2>1, <2>2 DEF IInv, TypeOK, Present
<1>2. IInv => [\A d \in Dialogs : CreateEntry(d) =>
         \A e \in Present : uid'[e] = uid[e] /\ data'[e] = data[e] /\ state'[e] = state[e]]_vars
  BY <1>1
<1> QED BY <1>2, Invariant, PTL DEF AddsOnly

\* Which steps write entry.data.
LEMMA DataWritten ==
  ASSUME [Next]_vars, data' # data
  PROVE  \/ \E d \in Dialogs : CreateEntry(d) \/ Reconfigure(d)
         \/ \E e \in Entries : TokenAccepted(e)
<1> USE DEF storedVars
<1>1. CASE UNCHANGED vars
  BY <1>1 DEF vars, entryVars
<1>2. CASE LifecycleStep
  <2>1. CASE Rotate
    BY <2>1 DEF Rotate
  <2>2. CASE Restart
    BY <2>2 DEF Restart
  <2>3. ASSUME NEW e \in Entries, EntryStep(e) PROVE data' = data
    BY <2>3 DEF EntryStep, FirstRefreshEnds, FirstRefreshOk, FirstRefreshNotReady,
       FirstRefreshRefused, EndSetup, Retry, RequestReload, ScheduledReload, ReauthReload,
       Poll, SetOptions
  <2> QED BY <1>2, <2>1, <2>2, <2>3 DEF LifecycleStep
<1>3. ASSUME NEW d \in Dialogs, DialogStep(d), ~CreateEntry(d), ~Reconfigure(d)
      PROVE  data' = data
  BY <1>3 DEF DialogStep, OpenUser, OpenReconfigure, Open, Close, DialogRejected,
     AbortConfigured, Submit
<1>4. ASSUME NEW e \in Entries, ReauthStep(e), ~TokenAccepted(e) PROVE data' = data
  BY <1>4 DEF ReauthStep, TokenRejected, SubmitToken
<1> QED BY <1>1, <1>2, <1>3, <1>4 DEF Next

\* The URL of an entry changes when a reconfiguration of it ends, and to the one
\* entered there (async_step_reconfigure; async_step_reauth_confirm leaves it).
THEOREM UrlReconfigured == SafeSpec => UrlOnlyReconfigured
<1> DEFINE Moved(e) == data'[e].url # data[e].url =>
               \E d \in Dialogs : /\ dialogs[d].kind = "reconfigure" /\ dialogs[d].entry = e
                                 /\ dialogs[d].url = data'[e].url /\ dialogs'[d] = NoDialog
<1>1. ASSUME IInv, NEW d \in Dialogs, CreateEntry(d), NEW e \in Present PROVE Moved(e)
  <2> DEFINE s == SlotFor(HostOf[dialogs[d].url])
  <2>1. s \in Entries /\ s \notin Present
    BY <1>1, SlotFree DEF CreateEntry
  <2>2. data' = [data EXCEPT ![s] = [url |-> dialogs[d].url, token |-> dialogs[d].token]]
    BY <1>1 DEF CreateEntry
  <2> HIDE DEF s
  <2> QED BY <1>1, <2>1, <2>2 DEF IInv, TypeOK, Present
<1>2. ASSUME IInv, NEW d \in Dialogs, Reconfigure(d), NEW e \in Present PROVE Moved(e)
  <2>1. data' = [data EXCEPT ![dialogs[d].entry] =
                   [url |-> dialogs[d].url, token |-> dialogs[d].token]]
    BY <1>2 DEF Reconfigure, WriteData
  <2>2. dialogs[d].kind = "reconfigure" /\ dialogs'[d] = NoDialog
    BY <1>2 DEF Reconfigure, DialogAccepted, IInv, TypeOK
  <2>3. CASE dialogs[d].entry = e
    BY <1>2, <2>1, <2>2, <2>3 DEF IInv, TypeOK, Present
  <2>4. CASE dialogs[d].entry # e
    BY <1>2, <2>1, <2>4 DEF IInv, TypeOK, Present
  <2> QED BY <2>3, <2>4
<1>3. ASSUME IInv, NEW f \in Entries, TokenAccepted(f), NEW e \in Present PROVE Moved(e)
  <2>1. data' = [data EXCEPT ![f] = [data[f] EXCEPT !.token = reauth[f].token]]
    BY <1>3 DEF TokenAccepted, WriteData, WithToken
  <2>2. e \in Entries /\ data[e] \in Connection
    BY <1>3 DEF IInv, TypeOK, EntriesWhole, Present
  <2>3. data'[e].url = data[e].url
    BY <1>3, <2>1, <2>2 DEF IInv, TypeOK, Connection
  <2> QED BY <2>3
<1>4. IInv /\ [Next]_vars => [\A e \in Present : Moved(e)]_vars
  BY <1>1, <1>2, <1>3, DataWritten
<1> QED BY <1>4, Invariant, PTL DEF SafeSpec, UrlOnlyReconfigured

-----------------------------------------------------------------------------
(* The safety half of ReauthEnds. *)

\* A reauthentication that awaits its reload is woken: the set-up it waits for
\* is still under way, whatever else reloads, retries or refuses that entry.
ReloadAwaited ==
    \A e \in Entries : reauth[e].pc = "reloading" => state[e] \in SettingUp

\* A flow that was not awaiting its reload does not begin to by itself.
LEMMA StartReauthIdle ==
  ASSUME NEW e \in Entries, StartReauth(e).pc = "reloading"
  PROVE  reauth[e].pc = "reloading"
BY DEF StartReauth, ReauthForm, NoReauth

\* The end of a set-up ends the flow that awaited it.
LEMMA ReloadedEnds ==
  ASSUME NEW e, NEW flow \in ReauthFlows
  PROVE  Reloaded(e, flow).pc # "reloading"
BY DEF Reloaded, NoReauth

LEMMA LifecycleAwaited ==
  ASSUME IInv, ReloadAwaited, LifecycleStep PROVE ReloadAwaited'
<1> USE DEF ReloadAwaited, storedVars, flowVars, runVars, worldVars
<1>1. CASE Rotate
  BY <1>1 DEF Rotate
<1>2. CASE Restart
  BY <1>2 DEF Restart, NoReauth
<1>3. ASSUME NEW e \in Entries, EntryStep(e) PROVE ReloadAwaited'
  <2>1. \A f \in Entries : reauth[f] \in ReauthFlows /\ StartReauth(f) \in ReauthFlows
    BY StartReauthType DEF IInv, TypeOK
  <2>2. CASE FirstRefreshOk(e)
    BY <2>2 DEF FirstRefreshOk, SettingUp, IInv, TypeOK
  <2>3. CASE FirstRefreshNotReady(e)
    BY <2>1, <2>3, ReloadedEnds DEF FirstRefreshNotReady, IInv, TypeOK
  <2>4. CASE FirstRefreshRefused(e)
    BY <2>1, <2>4, ReloadedEnds DEF FirstRefreshRefused, IInv, TypeOK
  <2>5. CASE EndSetup(e)
    BY <2>1, <2>5, ReloadedEnds DEF EndSetup, IInv, TypeOK
  <2>6. CASE Retry(e) \/ ScheduledReload(e)
    BY <2>6 DEF Retry, ScheduledReload, BeginSetup, SettingUp
  <2>7. CASE ReauthReload(e)
    BY <2>7 DEF ReauthReload, BeginSetup, SettingUp, IInv, TypeOK
  <2>8. CASE Poll(e)
    BY <2>8, StartReauthIdle DEF Poll, IInv, TypeOK
  <2>9. CASE RequestReload(e) \/ \E v \in Intervals : SetOptions(e, v)
    BY <2>9 DEF RequestReload, SetOptions
  <2> QED BY <1>3, <2>2, <2>3, <2>4, <2>5, <2>6, <2>7, <2>8, <2>9
          DEF EntryStep, FirstRefreshEnds
<1> QED BY <1>1, <1>2, <1>3 DEF LifecycleStep

LEMMA FlowsAwaited ==
  ASSUME IInv, ReloadAwaited,
         \/ \E d \in Dialogs : DialogStep(d)
         \/ \E e \in Entries : ReauthStep(e)
  PROVE  ReloadAwaited'
<1> USE DEF ReloadAwaited, storedVars, flowVars, runVars, worldVars
<1>1. ASSUME NEW d \in Dialogs, DialogStep(d) PROVE ReloadAwaited'
  <2>1. CASE CreateEntry(d)
    BY <2>1 DEF CreateEntry, BeginSetup, DialogAccepted, SettingUp
  <2>2. CASE ~CreateEntry(d)
    BY <1>1, <2>2 DEF DialogStep, OpenUser, OpenReconfigure, Open, Close, Submit,
       DialogRejected, DialogAccepted, AbortConfigured, Reconfigure
  <2> QED BY <2>1, <2>2
<1>2. ASSUME NEW e \in Entries, ReauthStep(e) PROVE ReloadAwaited'
  <2>1. CASE TokenAccepted(e)
    BY <2>1 DEF TokenAccepted, AfterToken, NoReauth, IInv, TypeOK
  <2>2. CASE TokenRejected(e)
    BY <2>2 DEF TokenRejected, ReauthForm, NoReauth, IInv, TypeOK
  <2>3. CASE \E token \in Tokens : SubmitToken(e, token)
    BY <2>3 DEF SubmitToken, IInv, TypeOK
  <2> QED BY <1>2, <2>1, <2>2, <2>3 DEF ReauthStep
<1> QED BY <1>1, <1>2

\* config_flow.py:355: the flow that awaits async_reload never waits for a set-up
\* that has ended already, however many other reloads, retries and restarts of its
\* entry there are; what is left of ReauthEnds is that set-ups end.
THEOREM FlowsWoken == SafeSpec => []ReloadAwaited
<1>1. Init => ReloadAwaited
  BY DEF Init, ReloadAwaited, NoReauth
<1>2. IInv /\ ReloadAwaited /\ [Next]_vars => ReloadAwaited'
  <2>1. ASSUME ReloadAwaited, UNCHANGED vars PROVE ReloadAwaited'
    BY <2>1 DEF ReloadAwaited, vars, entryVars, runVars, flowVars
  <2> QED BY <2>1, LifecycleAwaited, FlowsAwaited DEF Next
<1> QED BY <1>1, <1>2, Invariant, PTL DEF SafeSpec
=============================================================================
