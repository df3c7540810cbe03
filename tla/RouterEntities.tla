--------------------------- MODULE RouterEntities ---------------------------
(***************************************************************************)
(* The entities made from the main coordinator's payload: one per router,  *)
(* service and entrypoint, and the aggregates (an alarm and a count per    *)
(* kind).                                                                  *)
(*                                                                         *)
(* The two kinds of entity differ.  An aggregate reads coordinator.data    *)
(* whenever it is rendered.  A per-item entity is constructed once, when   *)
(* the platform is set up, and keeps the item it was constructed with      *)
(* (`held`); only its availability follows the coordinator.  Listeners of  *)
(* the coordinator delete the registry rows of items that are gone.        *)
(*                                                                         *)
(* An item is reduced to its status; an entrypoint's address is its status *)
(* here.  The add tasks of a platform are awaited by the set-up of the     *)
(* entry, before the first poll, and are part of Setup.                    *)
(***************************************************************************)
EXTENDS Integers, FiniteSets

CONSTANTS
    Items,      \* names that occur in payloads
    KindOf,     \* the kind of each
    Internal,   \* the names with the suffix @internal
    Statuses,   \* "enabled" and others; "unknown": the item is without a status
    Payloads    \* what fetch_all may return: a status, or "absent", per item

Kinds == {"router", "service", "middleware", "entrypoint"}
Aggregated == {"router", "service", "middleware"}

ASSUME ItemsAssumption ==
    /\ IsFiniteSet(Items) /\ Internal \subseteq Items
    /\ KindOf \in [Items -> Kinds]
ASSUME PayloadAssumption ==
    /\ Statuses \cap {"absent", "none", "unavailable"} = {}
    /\ Payloads \subseteq [Items -> Statuses \cup {"absent"}]

VARIABLES
    loaded,     \* the entry is set up
    data,       \* coordinator.data: the last good payload
    ok,         \* last_update_success
    held,       \* the item each live entity was constructed with
    registry,   \* items with a row in the entity registry
    shown,      \* state last written by the live entities
    alarm,      \* the same of the any-X-failing alarms
    count,      \* the same of the count sensors
    breakdown   \* and their attribute status_breakdown

vars == <<loaded, data, ok, held, registry, shown, alarm, count, breakdown>>
aggregateVars == <<alarm, count, breakdown>>

NoPayload == [i \in Items |-> "absent"]
Present(payload) == {i \in Items : payload[i] # "absent"}
Live == {i \in Items : held[i] # "none"}

\* What the two async_setup_entry make entities of.
Created(payload) ==
    {i \in Present(payload) :
        \/ KindOf[i] = "entrypoint"
        \/ KindOf[i] \in {"router", "service"} /\ i \notin Internal}

\* Broken variants: the filter is applied to entrypoints as well; to nothing,
\* and vanished items are kept.
KeptFiltered(payload) == {i \in Present(payload) : i \notin Internal}
KeptAlways(payload) == Items

\* What the three stale-entity listeners do not delete.
Kept(payload) ==
    {i \in Present(payload) : KindOf[i] = "service" => i \notin Internal}

\* Broken variant: a router shows its status, as a service does.
StateOfText(k, status, success) == IF success THEN status ELSE "unavailable"

\* `available` and the state of an entity that holds an item: a router is on or
\* off, a service shows its status, an entrypoint its address; without a status
\* all of them are unknown.
StateOf(k, status, success) ==
    CASE ~success -> "unavailable"
      [] success /\ k = "router" /\ status # "unknown" ->
            IF status = "enabled" THEN "on" ELSE "off"
      [] OTHER -> status

\* An alarm looks at internal items too, a count does not.  An item without a
\* status is failing.
AlarmOf(k, payload, success) ==
    IF ~success THEN "unavailable"
    ELSE IF \E i \in Present(payload) : KindOf[i] = k /\ payload[i] # "enabled"
    THEN "on" ELSE "off"

\* filter_internal_items over one section of the payload.
Counted(k, payload) == {i \in Present(payload) : KindOf[i] = k /\ i \notin Internal}

CountOf(k, payload, success) == IF success THEN Cardinality(Counted(k, payload)) ELSE -1

\* _STATUS_TO_BUCKET: a status not in it, or none, is in no bucket.
Buckets == {"success", "warning", "error", "disabled"}
StatusToBucket ==
    [enabled |-> "success", warning |-> "warning", error |-> "error", disabled |-> "disabled"]

NoBreakdown == [b \in Buckets |-> 0]

\* Broken variant: the internal items are counted, too.
BucketUnfiltered(k, payload, b) ==
    {i \in Present(payload) : /\ KindOf[i] = k
                              /\ payload[i] \in DOMAIN StatusToBucket
                              /\ StatusToBucket[payload[i]] = b}

\* The items counted in a bucket.
Bucket(k, payload, b) ==
    {i \in Counted(k, payload) : /\ payload[i] \in DOMAIN StatusToBucket
                                 /\ StatusToBucket[payload[i]] = b}

\* _count_by_status.  An unavailable sensor has no attributes.
CountByStatus(k, payload, success) ==
    [b \in Buckets |-> IF success THEN Cardinality(Bucket(k, payload, b)) ELSE 0]

\* success_pct, rounded down: what is disabled counts neither way.
SuccessPct(counts) ==
    LET nonDisabled == counts["success"] + counts["warning"] + counts["error"]
    IN  IF nonDisabled > 0 THEN (counts["success"] * 100) \div nonDisabled ELSE 100

Init ==
    /\ loaded = FALSE
    /\ data = NoPayload
    /\ ok = TRUE
    /\ held = [i \in Items |-> "none"]
    /\ registry = {}
    /\ shown = [i \in Items |-> "none"]
    /\ alarm = [k \in Aggregated |-> "none"]
    /\ count = [k \in Aggregated |-> -1]
    /\ breakdown = [k \in Aggregated |-> NoBreakdown]

-----------------------------------------------------------------------------
\* Every entity alive writes the state it reads from itself and the coordinator.
Render ==
    /\ shown' = [i \in Items |->
                   IF held'[i] = "none" THEN "none"
                   ELSE StateOf(KindOf[i], held'[i], ok')]
    /\ alarm' = [k \in Aggregated |-> AlarmOf(k, data', ok')]
    /\ count' = [k \in Aggregated |-> CountOf(k, data', ok')]
    /\ breakdown' = [k \in Aggregated |-> CountByStatus(k, data', ok')]

\* Set-up after a first refresh that succeeded.
Setup(payload) ==
    /\ ~loaded
    /\ loaded' = TRUE
    /\ data' = payload
    /\ ok' = TRUE
    /\ held' = [i \in Items |-> IF i \in Created(payload) THEN payload[i] ELSE "none"]
    /\ registry' = registry \cup Created(payload)
    /\ Render

\* The listeners of a successful cycle: rows of vanished items are deleted,
\* and their entities with them; the others are rendered.
CycleOk(payload) ==
    /\ loaded
    /\ data' = payload
    /\ ok' = TRUE
    /\ held' = [i \in Items |-> IF i \in Kept(payload) THEN held[i] ELSE "none"]
    /\ registry' = registry \cap Kept(payload)
    /\ Render
    /\ UNCHANGED loaded

\* Broken variant: listeners are called after a success only.
CycleFailsSilently ==
    /\ loaded
    /\ ok' = FALSE
    /\ UNCHANGED <<loaded, data, held, registry, shown, aggregateVars>>

\* A failed cycle keeps the last good payload.  Its listeners, called for the
\* first of a row of failures, delete nothing.
CycleFails ==
    /\ loaded
    /\ ok' = FALSE
    /\ UNCHANGED <<loaded, data, held, registry>>
    /\ IF ok THEN Render ELSE UNCHANGED <<shown, aggregateVars>>

\* The entities go, their registry rows stay.
Unload ==
    /\ loaded
    /\ loaded' = FALSE
    /\ held' = [i \in Items |-> "none"]
    /\ shown' = [i \in Items |-> "none"]
    /\ alarm' = [k \in Aggregated |-> "none"]
    /\ count' = [k \in Aggregated |-> -1]
    /\ breakdown' = [k \in Aggregated |-> NoBreakdown]
    /\ UNCHANGED <<data, ok, registry>>

Next ==
    \/ \E p \in Payloads : Setup(p) \/ CycleOk(p)
    \/ CycleFails \/ Unload

Spec == Init /\ [][Next]_vars
-----------------------------------------------------------------------------
\* Type invariant of the router entities.
TypeOK ==
    /\ loaded \in BOOLEAN /\ ok \in BOOLEAN
    /\ data \in Payloads \cup {NoPayload}
    /\ held \in [Items -> Statuses \cup {"none"}]
    /\ registry \subseteq Items
    /\ shown \in [Items -> Statuses \cup {"on", "off", "none", "unavailable"}]
    /\ \A i \in Items :
           KindOf[i] = "router" => shown[i] \in {"on", "off", "unknown", "none", "unavailable"}
    /\ alarm \in [Aggregated -> {"on", "off", "none", "unavailable"}]
    /\ count \in [Aggregated -> Nat \cup {-1}]
    /\ breakdown \in [Aggregated -> [Buckets -> Nat]]

\* binary_sensor.py:93 "we don't want a transient outage to delete every
\* entity": no sequence of failures, recoveries, unloads and set-ups deletes a
\* row whose item Traefik still reports, an internal entrypoint included.
RowsGoWithTheirItem ==
    [][\A i \in registry \ registry' : loaded /\ ok' /\ data'[i] = "absent"]_vars

\* A live entity always belongs to an item of the last good payload and has its
\* row, through outages and returns of the item; so a count is never smaller
\* than the entities of its kind.
EntitiesAreItems ==
    /\ Live \subseteq Present(data) \cap registry
    /\ loaded /\ ok =>
         \A k \in {"router", "service"} :
             Cardinality({i \in Live : KindOf[i] = k}) <= count[k]

\* While Traefik's API fails, everything shown is unavailable, and nothing is
\* once it answers again.
UnavailableTogether ==
    loaded => /\ \A i \in Live : shown[i] = "unavailable" <=> ~ok
              /\ \A k \in Aggregated : alarm[k] = "unavailable" <=> ~ok

\* The three aggregates of a kind, filtered and bucketed differently, never
\* contradict each other: no bucket counts what the sensor does not, a success
\* rate below 100 % has its alarm on, and while the alarm is off every item
\* counted is a success, a status nobody knows included.
BreakdownExplained ==
    loaded /\ ok => \A k \in Aggregated :
        LET counts == breakdown[k]
        IN  /\ counts["success"] + counts["warning"] + counts["error"] + counts["disabled"]
                  <= count[k]
            /\ SuccessPct(counts) < 100 => alarm[k] = "on"
            /\ alarm[k] = "off" => counts["success"] = count[k]

-----------------------------------------------------------------------------
(* What the documentation says and the code does not do. *)

\* README.md:4 "See at a glance which routers are enabled, which are failing",
\* polled every 15 seconds: while polls succeed, a router's entity shows the
\* status the last poll reported.
RouterStatusShown ==
    loaded /\ ok => \A i \in Live :
        KindOf[i] = "router" => shown[i] = StateOf("router", data[i], TRUE)
=============================================================================
