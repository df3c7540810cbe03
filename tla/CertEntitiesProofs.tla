------------------------- MODULE CertEntitiesProofs -------------------------
(***************************************************************************)
(* The certificate entities for any hosts, days, thresholds and number of  *)
(* certificate cycles.                                                     *)
(***************************************************************************)
EXTENDS CertEntities, TLAPS

LiveStamps == {h \in Hosts : stamp[h] # "none"}
LiveAlarms == {h \in Hosts : alarm[h] # "none"}

\* An entry that is not set up has no entities and no task that adds one.
Idle ==
    ~loaded => /\ addStamp = {} /\ addAlarm = {}
               /\ LiveStamps = {} /\ LiveAlarms = {}

\* What is alive and what is about to be added make up the entities of the cache.
Pending ==
    loaded => /\ LiveAlarms \cup addAlarm = DOMAIN data
              /\ InfoHosts(data) \subseteq LiveStamps \cup addStamp
              /\ LiveStamps \subseteq DOMAIN data
              /\ addStamp \subseteq InfoHosts(data)

\* A stamp that went unavailable before its alarm was added did so over a row
\* that still is in the cache: the alarm will be added unavailable too.
AlarmFollows ==
    \A h \in Hosts : stamp[h] = "unavailable" /\ alarm[h] = "none" => ~Available(h)

IInv == TypeOK /\ Idle /\ Pending /\ AlarmFollows /\ NoStaleAlarm

-----------------------------------------------------------------------------
\* Facts about the rows of a cache and about what the entities show of them.

LEMMA CacheDomain ==
  ASSUME NEW cache \in Caches
  PROVE  DOMAIN cache \subseteq Hosts
BY DEF Caches

LEMMA AvailableHosts ==
  \A h : Available(h) <=> h \in InfoHosts(data)
BY DEF Available, InfoHosts

LEMMA StampViewType ==
  \A h : StampView(h) \in {"shown", "unavailable"}
BY DEF StampView

LEMMA AlarmViewType ==
  \A h : AlarmView(h) \in {"on", "off", "unavailable"}
BY DEF AlarmView

\* Written at one moment, the stamp is unavailable exactly when the alarm is.
LEMMA ViewsAgree ==
  \A h : (StampView(h) = "unavailable") <=> (AlarmView(h) = "unavailable")
BY DEF StampView, AlarmView

\* Whatever set-up and cycles do to the lists of entities to add keeps their type.
LEMMA CreatePendingType ==
  ASSUME NEW cache \in Caches, CreatePending(cache)
  PROVE  /\ addStamp' \subseteq Hosts /\ addAlarm' \subseteq Hosts
         /\ addStamp' = InfoHosts(cache) /\ addAlarm' = DOMAIN cache
         /\ addStamp' \subseteq addAlarm'
BY CacheDomain DEF CreatePending, InfoHosts

\* The removal keeps the states of the entities of cached hosts, and no others.
LEMMA RemoveStaleStates ==
  ASSUME TypeOK, NEW cache \in Caches, RemoveStale(cache)
  PROVE  /\ regStamp' \subseteq Hosts /\ regAlarm' \subseteq Hosts
         /\ stamp' \in [Hosts -> {"none", "shown", "unavailable"}]
         /\ alarm' \in [Hosts -> {"none", "on", "off", "unavailable"}]
         /\ LiveStamps' = LiveStamps \cap DOMAIN cache
         /\ LiveAlarms' = LiveAlarms \cap DOMAIN cache
         /\ \A h \in Hosts : stamp'[h] \in {stamp[h], "none"}
         /\ \A h \in Hosts : alarm'[h] = IF h \in DOMAIN cache THEN alarm[h] ELSE "none"
BY DEF RemoveStale, TypeOK, LiveStamps, LiveAlarms

-----------------------------------------------------------------------------
LEMMA InitInv == Init => IInv
<1> SUFFICES ASSUME Init PROVE IInv
  OBVIOUS
<1>1. TypeOK
  <2>1. /\ stamp \in [Hosts -> {"none", "shown", "unavailable"}]
        /\ alarm \in [Hosts -> {"none", "on", "off", "unavailable"}]
    BY DEF Init
  <2>2. cycles \in 0..MaxCycles
    BY CyclesAssumption DEF Init
  <2> QED BY <2>1, <2>2 DEF Init, TypeOK
<1>2. LiveStamps = {} /\ LiveAlarms = {}
  BY DEF Init, LiveStamps, LiveAlarms
<1> QED BY <1>1, <1>2 DEF IInv, Idle, Pending, AlarmFollows, NoStaleAlarm, Init

\* No entity is alive when the platforms are set up: the first list is complete.
LEMMA SetupInv == ASSUME IInv, Setup PROVE IInv'
<1>1. /\ data' \in Caches
      /\ CreatePending(data')
      /\ loaded' = TRUE
      /\ UNCHANGED <<options, regStamp, regAlarm, stamp, alarm>>
  BY DEF Setup
<1>2. /\ addStamp' \subseteq Hosts /\ addAlarm' \subseteq Hosts
      /\ addStamp' = InfoHosts(data') /\ addAlarm' = DOMAIN data'
  BY <1>1, CreatePendingType
<1>3. LiveStamps' = {} /\ LiveAlarms' = {}
  BY <1>1 DEF Setup, IInv, Idle, LiveStamps, LiveAlarms
<1>4. \A h \in Hosts : stamp'[h] = "none" /\ alarm'[h] = "none"
  BY <1>3 DEF LiveStamps, LiveAlarms
<1>5. TypeOK'
  BY <1>1, <1>2, CyclesAssumption DEF Setup, IInv, TypeOK
<1>6. Idle' /\ Pending'
  BY <1>1, <1>2, <1>3 DEF Idle, Pending
<1> QED BY <1>4, <1>5, <1>6 DEF IInv, AlarmFollows, NoStaleAlarm

\* Before the cycle every host of the old cache had its alarm, so an entity that
\* survives the cycle as a stamp survives it as an alarm.
LEMMA CertCycleInv == ASSUME IInv, CertCycle PROVE IInv'
<1>1. /\ loaded /\ addStamp = {} /\ addAlarm = {}
      /\ data' \in Caches
      /\ CreatePending(data') /\ RemoveStale(data')
      /\ UNCHANGED <<loaded, options, threshold, mainOk>>
  BY DEF CertCycle
<1>2. /\ addStamp' \subseteq Hosts /\ addAlarm' \subseteq Hosts
      /\ addStamp' = InfoHosts(data') /\ addAlarm' = DOMAIN data'
  BY <1>1, CreatePendingType
<1>3. /\ regStamp' \subseteq Hosts /\ regAlarm' \subseteq Hosts
      /\ stamp' \in [Hosts -> {"none", "shown", "unavailable"}]
      /\ alarm' \in [Hosts -> {"none", "on", "off", "unavailable"}]
      /\ LiveStamps' = LiveStamps \cap DOMAIN data'
      /\ LiveAlarms' = LiveAlarms \cap DOMAIN data'
      /\ \A h \in Hosts : stamp'[h] \in {stamp[h], "none"}
      /\ \A h \in Hosts : alarm'[h] = IF h \in DOMAIN data' THEN alarm[h] ELSE "none"
  BY <1>1, RemoveStaleStates DEF IInv
<1>4. LiveStamps \subseteq LiveAlarms
  BY <1>1 DEF IInv, Pending
<1>5. TypeOK'
  BY <1>1, <1>2, <1>3, CyclesAssumption DEF CertCycle, IInv, TypeOK
<1>6. Idle' /\ Pending'
  BY <1>1, <1>2, <1>3 DEF Idle, Pending
<1>7. AlarmFollows'
  <2>1. LiveStamps' \subseteq LiveAlarms'
    BY <1>3, <1>4
  <2> QED BY <2>1 DEF AlarmFollows, LiveStamps, LiveAlarms
<1>8. NoStaleAlarm'
  BY <1>3 DEF IInv, NoStaleAlarm
<1> QED BY <1>5, <1>6, <1>7, <1>8 DEF IInv

\* An alarm is added with the view of the cache from which its host was listed.
LEMMA AddStampInv == ASSUME IInv, NEW h \in Hosts, AddStamp(h) PROVE IInv'
<1>1. StampView(h) = "shown" \/ stamp[h] # "none"
  BY AvailableHosts DEF AddStamp, IInv, Idle, Pending, StampView
<1>2. \A g \in Hosts : stamp'[g] # stamp[g] => stamp'[g] = "shown"
  BY <1>1 DEF AddStamp, IInv, TypeOK
<1>3. TypeOK'
  BY StampViewType DEF AddStamp, IInv, TypeOK
<1>4. LiveStamps' = LiveStamps \cup {h}
  BY StampViewType DEF AddStamp, IInv, TypeOK, LiveStamps
<1>5. Idle' /\ Pending'
  BY <1>4 DEF AddStamp, IInv, Idle, Pending, LiveAlarms, InfoHosts
<1>6. AlarmFollows'
  BY <1>2 DEF AddStamp, IInv, AlarmFollows, Available
<1>7. NoStaleAlarm'
  BY <1>2 DEF AddStamp, IInv, NoStaleAlarm
<1> QED BY <1>3, <1>5, <1>6, <1>7 DEF IInv

LEMMA AddAlarmInv == ASSUME IInv, NEW h \in Hosts, AddAlarm(h) PROVE IInv'
<1>1. \A g \in Hosts :
        alarm'[g] # alarm[g] => g = h /\ alarm[h] = "none" /\ alarm'[h] = AlarmView(h)
  BY DEF AddAlarm, IInv, TypeOK
<1>2. TypeOK'
  BY AlarmViewType DEF AddAlarm, IInv, TypeOK
<1>3. LiveAlarms' = LiveAlarms \cup {h}
  BY AlarmViewType DEF AddAlarm, IInv, TypeOK, LiveAlarms
<1>4. Idle' /\ Pending'
  BY <1>3 DEF AddAlarm, IInv, Idle, Pending, LiveStamps, InfoHosts
<1>5. AlarmFollows'
  BY <1>1, AlarmViewType DEF AddAlarm, IInv, AlarmFollows, Available
<1>6. NoStaleAlarm'
  BY <1>1 DEF AddAlarm, IInv, NoStaleAlarm, AlarmFollows, AlarmView
<1> QED BY <1>2, <1>4, <1>5, <1>6 DEF IInv

\* All entities are written from one cache, or none.
LEMMA MainCycleInv == ASSUME IInv, NEW ok \in BOOLEAN, MainCycle(ok) PROVE IInv'
<1>1. /\ loaded /\ mainOk' = ok
      /\ UNCHANGED <<loaded, options, threshold, data, cycles,
                     addStamp, addAlarm, regStamp, regAlarm>>
  BY DEF MainCycle
<1>2. CASE UNCHANGED <<stamp, alarm>>
  BY <1>1, <1>2 DEF IInv, TypeOK, Idle, Pending, AlarmFollows, NoStaleAlarm,
                    LiveStamps, LiveAlarms, InfoHosts, Available
<1>3. CASE /\ stamp' = Rewrite(stamp, [h \in Hosts |-> StampView(h)])
           /\ alarm' = Rewrite(alarm, [h \in Hosts |-> AlarmView(h)])
  <2>1. /\ stamp' = [h \in Hosts |-> IF stamp[h] = "none" THEN "none" ELSE StampView(h)]
        /\ alarm' = [h \in Hosts |-> IF alarm[h] = "none" THEN "none" ELSE AlarmView(h)]
    BY <1>3 DEF Rewrite
  <2>2. TypeOK'
    BY <1>1, <2>1, StampViewType, AlarmViewType DEF IInv, TypeOK
  <2>3. LiveStamps' = LiveStamps /\ LiveAlarms' = LiveAlarms
    BY <2>1, StampViewType, AlarmViewType DEF LiveStamps, LiveAlarms
  <2>4. Idle' /\ Pending'
    BY <1>1, <2>3 DEF IInv, Idle, Pending, InfoHosts
  <2>5. AlarmFollows'
    BY <1>1, <2>1 DEF AlarmFollows, StampView, Available
  <2>6. NoStaleAlarm'
    BY <2>1, ViewsAgree DEF NoStaleAlarm
  <2> QED BY <2>2, <2>4, <2>5, <2>6 DEF IInv
<1> QED BY <1>2, <1>3 DEF MainCycle

\* The listeners run once more over the cache they know.
LEMMA SetOptionsInv == ASSUME IInv, NEW t \in Thresholds, SetOptions(t) PROVE IInv'
<1>1. /\ options' = t
      /\ UNCHANGED <<loaded, data, cycles, mainOk>>
      /\ data \in Caches
  BY DEF SetOptions, IInv, TypeOK
<1>2. CASE ~loaded
  BY <1>1, <1>2 DEF SetOptions, entityVars, IInv, TypeOK, Idle, Pending, AlarmFollows,
                    NoStaleAlarm, LiveStamps, LiveAlarms, InfoHosts, Available
<1>3. CASE loaded
  <2>1. threshold' = t /\ CreatePending(data) /\ RemoveStale(data)
    BY <1>3 DEF SetOptions
  <2>2. /\ addStamp' \subseteq Hosts /\ addAlarm' \subseteq Hosts
        /\ addStamp' = InfoHosts(data) /\ addAlarm' = DOMAIN data
    BY <1>1, <2>1, CreatePendingType
  <2>3. /\ regStamp' \subseteq Hosts /\ regAlarm' \subseteq Hosts
        /\ stamp' \in [Hosts -> {"none", "shown", "unavailable"}]
        /\ alarm' \in [Hosts -> {"none", "on", "off", "unavailable"}]
        /\ LiveStamps' = LiveStamps \cap DOMAIN data
        /\ LiveAlarms' = LiveAlarms \cap DOMAIN data
        /\ \A h \in Hosts : stamp'[h] \in {stamp[h], "none"}
        /\ \A h \in Hosts : alarm'[h] = IF h \in DOMAIN data THEN alarm[h] ELSE "none"
    BY <1>1, <2>1, RemoveStaleStates DEF IInv
  <2>4. LiveStamps' = LiveStamps /\ \A h \in Hosts : alarm'[h] = alarm[h]
    BY <1>3, <2>3 DEF IInv, Pending, LiveAlarms
  <2>5. TypeOK'
    BY <1>1, <2>1, <2>2, <2>3 DEF IInv, TypeOK
  <2>6. Idle' /\ Pending'
    BY <1>1, <1>3, <2>2, <2>3 DEF IInv, Idle, Pending, InfoHosts
  <2>7. AlarmFollows' /\ NoStaleAlarm'
    BY <1>1, <2>3, <2>4 DEF IInv, AlarmFollows, NoStaleAlarm, Available
  <2> QED BY <2>5, <2>6, <2>7 DEF IInv
<1> QED BY <1>2, <1>3

LEMMA UnloadInv == ASSUME IInv, Unload PROVE IInv'
<1>1. LiveStamps' = {} /\ LiveAlarms' = {}
  BY DEF Unload, LiveStamps, LiveAlarms
<1>2. TypeOK'
  BY DEF Unload, IInv, TypeOK
<1>3. Idle' /\ Pending'
  BY <1>1 DEF Unload, Idle, Pending
<1>4. AlarmFollows' /\ NoStaleAlarm'
  BY DEF Unload, AlarmFollows, NoStaleAlarm
<1> QED BY <1>2, <1>3, <1>4 DEF IInv

LEMMA StutterInv == ASSUME IInv, UNCHANGED vars PROVE IInv'
BY DEF vars, IInv, TypeOK, Idle, Pending, AlarmFollows, NoStaleAlarm,
       LiveStamps, LiveAlarms, InfoHosts, Available

LEMMA NextInv == IInv /\ [Next]_vars => IInv'
BY SetupInv, CertCycleInv, AddStampInv, AddAlarmInv, MainCycleInv, SetOptionsInv,
   UnloadInv, StutterInv DEF Next

THEOREM Invariant == Spec => []IInv
BY InitInv, NextInv, PTL DEF Spec

-----------------------------------------------------------------------------
(* What the runs check on two hosts. *)

\* The entities keep their type for any hosts, days and thresholds.
THEOREM TypeCorrect == Spec => []TypeOK
<1>1. IInv => TypeOK
  BY DEF IInv
<1> QED BY <1>1, Invariant, PTL

\* Whatever cycles, options changes and reloads come in whatever order, when the
\* add tasks have run the alarms are those of the probed hosts (binary_sensor.py)
\* and every readable certificate has its timestamp sensor (sensor.py).
THEOREM EntitiesFollowCache == Spec => []EntitiesMatchCache
<1>1. IInv => EntitiesMatchCache
  BY DEF IInv, Pending, EntitiesMatchCache, LiveStamps, LiveAlarms
<1> QED BY <1>1, Invariant, PTL

\* The timestamp sensor is never unavailable beside an alarm that is still on,
\* although the two entities of a host are added by different tasks (sensor.py:651).
THEOREM AlarmNeverStale == Spec => []NoStaleAlarm
<1>1. IInv => NoStaleAlarm
  BY DEF IInv
<1> QED BY <1>1, Invariant, PTL

\* Only the vanishing of a host from the cache deletes its registry rows: no failed
\* probe, failed poll, options change, unload or set-up does.
THEOREM RowsSurvive == Spec => RegistrySurvivesErrors
<1> DEFINE Kept == /\ regStamp \ regStamp' \subseteq Hosts \ DOMAIN data'
                   /\ regAlarm \ regAlarm' \subseteq Hosts \ DOMAIN data'
<1>1. ASSUME IInv, [Next]_vars PROVE [Kept]_vars
  <2>1. regStamp \subseteq Hosts /\ regAlarm \subseteq Hosts
    BY <1>1 DEF IInv, TypeOK
  <2>2. CASE Setup \/ Unload \/ UNCHANGED vars
    BY <2>2 DEF Setup, Unload, vars
  <2>3. CASE CertCycle
    BY <2>1, <2>3 DEF CertCycle, RemoveStale
  <2>4. ASSUME NEW h \in Hosts, AddStamp(h) \/ AddAlarm(h) PROVE Kept
    BY <2>4 DEF AddStamp, AddAlarm
  <2>5. ASSUME NEW ok \in BOOLEAN, MainCycle(ok) PROVE Kept
    BY <2>5 DEF MainCycle
  <2>6. ASSUME NEW t \in Thresholds, SetOptions(t) PROVE Kept
    BY <2>1, <2>6 DEF SetOptions, RemoveStale, entityVars
  <2> QED BY <1>1, <2>2, <2>3, <2>4, <2>5, <2>6 DEF Next
<1>2. IInv /\ [Next]_vars => [Kept]_vars
  BY <1>1
<1> QED BY <1>2, Invariant, PTL DEF Spec, RegistrySurvivesErrors

\* The safety half of ViewsCatchUp.  A notification of the main coordinator that
\* ends a cycle after or with a success brings every entity in line with the cache
\* and the threshold, and in line they stay until one of the two changes: nothing
\* else, not an addition, a failure or an unload, makes what is shown stale.
AllInSync == \A h \in Hosts : InSync(h)

THEOREM StaleOnlyAfterChange ==
  Spec => [][/\ AllInSync /\ UNCHANGED <<data, threshold>> => AllInSync'
             /\ \A ok \in BOOLEAN : MainCycle(ok) /\ (ok \/ mainOk) => AllInSync']_vars
<1> DEFINE Stays == AllInSync /\ UNCHANGED <<data, threshold>> => AllInSync'
           Renews == \A ok \in BOOLEAN : MainCycle(ok) /\ (ok \/ mainOk) => AllInSync'
<1>1. ASSUME UNCHANGED <<data, threshold>>, NEW h \in Hosts
      PROVE  StampView(h)' = StampView(h) /\ AlarmView(h)' = AlarmView(h)
  BY <1>1 DEF StampView, AlarmView, Available
<1>2. Renews
  <2> SUFFICES ASSUME NEW ok \in BOOLEAN, MainCycle(ok), ok \/ mainOk, NEW h \in Hosts
               PROVE  InSync(h)'
    BY DEF AllInSync
  <2>1. /\ stamp' = [g \in Hosts |-> IF stamp[g] = "none" THEN "none" ELSE StampView(g)]
        /\ alarm' = [g \in Hosts |-> IF alarm[g] = "none" THEN "none" ELSE AlarmView(g)]
        /\ UNCHANGED <<data, threshold>>
    BY DEF MainCycle, Rewrite
  <2> QED BY <1>1, <2>1 DEF InSync
<1>3. ASSUME IInv, [Next]_vars PROVE Stays
  <2> SUFFICES ASSUME AllInSync, UNCHANGED <<data, threshold>>, NEW h \in Hosts
               PROVE  InSync(h)'
    BY DEF AllInSync
  <2>1. stamp[h] \in {"none", StampView(h)} /\ alarm[h] \in {"none", AlarmView(h)}
    BY DEF AllInSync, InSync
  <2> DEFINE GoneOrKeptOrViewed == /\ stamp'[h] \in {"none", stamp[h], StampView(h)}
                                   /\ alarm'[h] \in {"none", alarm[h], AlarmView(h)}
  <2>2. SUFFICES GoneOrKeptOrViewed
    BY <1>1, <2>1 DEF InSync
  <2>3. CASE Setup \/ Unload \/ UNCHANGED vars
    BY <2>3 DEF Setup, Unload, vars
  <2>4. CASE CertCycle
    BY <2>4 DEF CertCycle, RemoveStale
  <2>5. ASSUME NEW g \in Hosts, AddStamp(g) PROVE GoneOrKeptOrViewed
    BY <1>3, <2>5 DEF AddStamp, IInv, TypeOK
  <2>6. ASSUME NEW g \in Hosts, AddAlarm(g) PROVE GoneOrKeptOrViewed
    BY <1>3, <2>6 DEF AddAlarm, IInv, TypeOK
  <2>7. ASSUME NEW ok \in BOOLEAN, MainCycle(ok) PROVE GoneOrKeptOrViewed
    BY <2>7 DEF MainCycle, Rewrite
  <2>8. ASSUME NEW t \in Thresholds, SetOptions(t) PROVE GoneOrKeptOrViewed
    BY <2>8 DEF SetOptions, RemoveStale, entityVars
  <2> QED BY <1>3, <2>3, <2>4, <2>5, <2>6, <2>7, <2>8 DEF Next
<1>4. IInv /\ [Next]_vars => [Stays /\ Renews]_vars
  BY <1>2, <1>3
<1> QED BY <1>4, Invariant, PTL DEF Spec
=============================================================================
