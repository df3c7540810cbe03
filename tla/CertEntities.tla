---------------------------- MODULE CertEntities ----------------------------
(***************************************************************************)
(* The two entities Home Assistant shows per probed host: the timestamp    *)
(* sensor (sensor.py) and the expiry alarm (binary_sensor.py).             *)
(*                                                                         *)
(* Both READ the certificate coordinator's cache and threshold, but both   *)
(* SUBSCRIBE to the main coordinator: TraefikProxyEntity.__init__ passes   *)
(* entry.runtime_data to CoordinatorEntity.  So what the user sees         *)
(* (`stamp`, `alarm`) is what the properties returned when the main        *)
(* coordinator last notified its listeners, or when the entity was added.  *)
(* The listeners that do hang on the certificate coordinator create the    *)
(* entities of new hosts and remove those of vanished ones.                *)
(*                                                                         *)
(* The cache changes as a whole (CertCache), and a certificate cycle never *)
(* fails, so its last_update_success stays True and is left out.           *)
(***************************************************************************)
EXTENDS Integers

CONSTANTS
    Hosts,          \* host names
    Days,           \* values of days_until_expiry
    Thresholds,     \* values of the tls_warn_days option
    MaxCycles       \* bound: certificate cycles of a behaviour

ASSUME NumbersAssumption == Days \subseteq Int /\ Thresholds \subseteq Int
ASSUME CyclesAssumption == MaxCycles \in Nat

VARIABLES
    loaded,         \* the entry is set up
    options,        \* entry.options["tls_warn_days"]
    threshold,      \* cert_coordinator.threshold_days
    data,           \* cert_coordinator.data
    cycles,         \* certificate cycles so far
    mainOk,         \* main coordinator: last_update_success
    addStamp,       \* hosts of the async_add_entities task of sensor.py
    addAlarm,       \* the same of binary_sensor.py
    regStamp,       \* hosts with a tls_cert_ row in the entity registry
    regAlarm,       \* hosts with a tls_expiring_ row
    stamp,          \* state last written by the live timestamp sensor
    alarm           \* state last written by the live alarm

vars == <<loaded, options, threshold, data, cycles, mainOk, addStamp, addAlarm,
          regStamp, regAlarm, stamp, alarm>>
entityVars == <<addStamp, addAlarm, regStamp, regAlarm, stamp, alarm>>

CertInfo == [error : {FALSE}, days : Days]
CertError == [error : {TRUE}, days : {0}]
Caches == UNION {[S -> CertInfo \cup CertError] : S \in SUBSET Hosts}
InfoHosts(cache) == {h \in DOMAIN cache : ~cache[h].error}

\* sensor._cert_cache_availability
Available(h) == h \in DOMAIN data /\ ~data[h].error

\* TraefikProxyCertTimestampSensor: available, native_value.
StampView(h) == IF Available(h) THEN "shown" ELSE "unavailable"

\* Broken variants: no `available` (is_on is None for an error); `available`
\* takes an error row for a certificate.
AlarmViewUnknown(h) ==
    IF ~Available(h) THEN "unknown"
    ELSE IF data[h].days <= threshold THEN "on" ELSE "off"

AlarmViewOfErrors(h) ==
    IF h \notin DOMAIN data THEN "unavailable"
    ELSE IF data[h].days <= threshold THEN "on" ELSE "off"

\* TraefikProxyCertExpiryBinarySensor: available, is_on.
AlarmView(h) ==
    IF ~Available(h) THEN "unavailable"
    ELSE IF data[h].days <= threshold THEN "on" ELSE "off"

\* CoordinatorEntity._handle_coordinator_update of the entities alive.
Rewrite(states, views) ==
    [h \in Hosts |-> IF states[h] = "none" THEN "none" ELSE views[h]]

Init ==
    /\ loaded = FALSE
    /\ options \in Thresholds
    /\ threshold = options
    /\ data \in Caches
    /\ DOMAIN data = {}
    /\ cycles = 0
    /\ mainOk = TRUE
    /\ addStamp = {} /\ addAlarm = {}
    /\ regStamp = {} /\ regAlarm = {}
    /\ stamp = [h \in Hosts |-> "none"]
    /\ alarm = [h \in Hosts |-> "none"]

-----------------------------------------------------------------------------
\* Broken variant: alarms are created for readable certificates only.
CreatePendingOfInfo(cache) ==
    /\ addStamp' = InfoHosts(cache)
    /\ addAlarm' = InfoHosts(cache)

\* _create_pending_cert_sensor_entities, _create_pending_cert_binary_sensor_entities
CreatePending(cache) ==
    /\ addStamp' = InfoHosts(cache)
    /\ addAlarm' = DOMAIN cache

\* Broken variant: a host whose probe failed counts as vanished.
RemoveStaleByInfo(cache) ==
    /\ regStamp' = regStamp \cap InfoHosts(cache)
    /\ regAlarm' = regAlarm \cap InfoHosts(cache)
    /\ stamp' = [h \in Hosts |-> IF h \in InfoHosts(cache) THEN stamp[h] ELSE "none"]
    /\ alarm' = [h \in Hosts |-> IF h \in InfoHosts(cache) THEN alarm[h] ELSE "none"]

\* _remove_stale_cert_hosts, _remove_stale_cert_expiring
RemoveStale(cache) ==
    /\ regStamp' = regStamp \cap DOMAIN cache
    /\ regAlarm' = regAlarm \cap DOMAIN cache
    /\ stamp' = [h \in Hosts |-> IF h \in DOMAIN cache THEN stamp[h] ELSE "none"]
    /\ alarm' = [h \in Hosts |-> IF h \in DOMAIN cache THEN alarm[h] ELSE "none"]

\* async_setup_entry: both first refreshes, then the platforms.
Setup ==
    /\ ~loaded
    /\ cycles < MaxCycles
    /\ loaded' = TRUE
    /\ mainOk' = TRUE
    /\ threshold' = options
    /\ cycles' = cycles + 1
    /\ data' \in Caches
    /\ CreatePending(data')
    /\ UNCHANGED <<options, regStamp, regAlarm, stamp, alarm>>

\* A later certificate cycle ends and notifies the two listeners.  Adding
\* entities takes moments, the cycles are six hours apart.
CertCycle ==
    /\ loaded
    /\ cycles < MaxCycles
    /\ addStamp = {} /\ addAlarm = {}
    /\ cycles' = cycles + 1
    /\ data' \in Caches
    /\ CreatePending(data')
    /\ RemoveStale(data')
    /\ UNCHANGED <<loaded, options, threshold, mainOk>>

\* Home Assistant adds an entity and writes its state; one whose unique_id is
\* alive already is ignored.
AddStamp(h) ==
    /\ h \in addStamp
    /\ addStamp' = addStamp \ {h}
    /\ regStamp' = regStamp \cup {h}
    /\ stamp' = [stamp EXCEPT ![h] = IF @ = "none" THEN StampView(h) ELSE @]
    /\ UNCHANGED <<loaded, options, threshold, data, cycles, mainOk, addAlarm, regAlarm, alarm>>

AddAlarm(h) ==
    /\ h \in addAlarm
    /\ addAlarm' = addAlarm \ {h}
    /\ regAlarm' = regAlarm \cup {h}
    /\ alarm' = [alarm EXCEPT ![h] = IF @ = "none" THEN AlarmView(h) ELSE @]
    /\ UNCHANGED <<loaded, options, threshold, data, cycles, mainOk, addStamp, regStamp, stamp>>

\* Broken variant: listeners are called only when success and failure alternate.
MainCycleOnChange(ok) ==
    /\ loaded
    /\ mainOk' = ok
    /\ IF ok # mainOk
       THEN /\ stamp' = Rewrite(stamp, [h \in Hosts |-> StampView(h)])
            /\ alarm' = Rewrite(alarm, [h \in Hosts |-> AlarmView(h)])
       ELSE UNCHANGED <<stamp, alarm>>
    /\ UNCHANGED <<loaded, options, threshold, data, cycles, addStamp, addAlarm, regStamp, regAlarm>>

\* The main coordinator ends a cycle: its listeners, all entities, are called
\* unless this cycle and the one before failed.
MainCycle(ok) ==
    /\ loaded
    /\ mainOk' = ok
    /\ IF ok \/ mainOk
       THEN /\ stamp' = Rewrite(stamp, [h \in Hosts |-> StampView(h)])
            /\ alarm' = Rewrite(alarm, [h \in Hosts |-> AlarmView(h)])
       ELSE UNCHANGED <<stamp, alarm>>
    /\ UNCHANGED <<loaded, options, threshold, data, cycles, addStamp, addAlarm, regStamp, regAlarm>>

\* The options form is submitted: _async_options_updated pushes the threshold
\* into the certificate coordinator, whose listeners create and remove.
SetOptions(t) ==
    /\ options' = t
    /\ IF loaded
       THEN /\ threshold' = t
            /\ CreatePending(data)
            /\ RemoveStale(data)
       ELSE UNCHANGED <<threshold, entityVars>>
    /\ UNCHANGED <<loaded, data, cycles, mainOk>>

\* The entities go, their registry rows stay.
Unload ==
    /\ loaded
    /\ loaded' = FALSE
    /\ addStamp' = {} /\ addAlarm' = {}
    /\ stamp' = [h \in Hosts |-> "none"]
    /\ alarm' = [h \in Hosts |-> "none"]
    /\ UNCHANGED <<options, threshold, data, cycles, mainOk, regStamp, regAlarm>>

Next ==
    \/ Setup \/ CertCycle \/ Unload
    \/ \E h \in Hosts : AddStamp(h) \/ AddAlarm(h)
    \/ \E ok \in BOOLEAN : MainCycle(ok)
    \/ \E t \in Thresholds : SetOptions(t)

\* The add tasks run, and while the entry is loaded some main cycle succeeds:
\* the assumption that Traefik's API is not down for good.
Fairness ==
    /\ \A h \in Hosts : WF_vars(AddStamp(h)) /\ WF_vars(AddAlarm(h))
    /\ WF_vars(MainCycle(TRUE))

Spec == Init /\ [][Next]_vars /\ Fairness
-----------------------------------------------------------------------------
\* Type invariant of the entity state.
TypeOK ==
    /\ loaded \in BOOLEAN /\ mainOk \in BOOLEAN
    /\ options \in Thresholds /\ threshold \in Thresholds
    /\ data \in Caches
    /\ cycles \in 0..MaxCycles
    /\ addStamp \subseteq Hosts /\ addAlarm \subseteq Hosts
    /\ regStamp \subseteq Hosts /\ regAlarm \subseteq Hosts
    /\ stamp \in [Hosts -> {"none", "shown", "unavailable"}]
    /\ alarm \in [Hosts -> {"none", "on", "off", "unavailable"}]

\* Once the add tasks have run, the live alarms are those of the probed hosts,
\* every host with a certificate has its timestamp sensor, and neither platform
\* keeps an entity for a host that is no longer probed.
EntitiesMatchCache ==
    loaded /\ addStamp = {} /\ addAlarm = {} =>
        /\ {h \in Hosts : alarm[h] # "none"} = DOMAIN data
        /\ InfoHosts(data) \subseteq {h \in Hosts : stamp[h] # "none"}
        /\ {h \in Hosts : stamp[h] # "none"} \subseteq DOMAIN data

\* sensor.py:651: the timestamp sensor never shows "unavailable" while the
\* alarm of the same host still shows a stale "on".
NoStaleAlarm == \A h \in Hosts : ~(stamp[h] = "unavailable" /\ alarm[h] = "on")

\* A failed probe, a failed main cycle, an options change or an unload never
\* deletes a registry row: it goes only when its host is probed no more.
RegistrySurvivesErrors ==
    [][/\ regStamp \ regStamp' \subseteq Hosts \ DOMAIN data'
       /\ regAlarm \ regAlarm' \subseteq Hosts \ DOMAIN data']_vars

InSync(h) ==
    /\ stamp[h] \in {"none", StampView(h)}
    /\ alarm[h] \in {"none", AlarmView(h)}

\* While Traefik's API keeps answering, what is shown catches up with the
\* cache and the threshold again and again.
ViewsCatchUp == loaded ~> (~loaded \/ \A h \in Hosts : InSync(h))
=============================================================================
