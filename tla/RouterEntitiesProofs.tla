------------------------ MODULE RouterEntitiesProofs ------------------------
(***************************************************************************)
(* The router entities for any items, kinds, statuses and payloads.        *)
(***************************************************************************)
EXTENDS RouterEntities, TLAPS, FiniteSetTheorems

\* An entity that is alive was made by a set-up and survived every cycle since:
\* its item is in the last good payload, its row in the registry, and there is no
\* row of an internal router or service, whatever the listeners' filters let pass.
Sound ==
    /\ Live \subseteq Present(data) \cap registry
    /\ \A i \in registry : KindOf[i] \in {"router", "service"} => i \notin Internal

\* What is shown is what the entities would write now.
Rendered ==
    loaded =>
        /\ \A i \in Live : shown[i] = StateOf(KindOf[i], held[i], ok)
        /\ \A k \in Aggregated : /\ alarm[k] = AlarmOf(k, data, ok)
                                 /\ count[k] = CountOf(k, data, ok)
                                 /\ breakdown[k] = CountByStatus(k, data, ok)

IInv == TypeOK /\ Sound /\ Rendered

-----------------------------------------------------------------------------
LEMMA CountedFinite ==
  \A k, payload : /\ IsFiniteSet(Counted(k, payload))
                  /\ Cardinality(Counted(k, payload)) \in Nat
<1> TAKE k, payload
<1>1. IsFiniteSet(Counted(k, payload))
  BY ItemsAssumption, FS_Subset, Counted(k, payload) \subseteq Items DEF Counted, Present
<1> QED BY <1>1, FS_CardinalityType

LEMMA BucketCount ==
  \A k, payload, b : /\ IsFiniteSet(Bucket(k, payload, b))
                     /\ Cardinality(Bucket(k, payload, b)) \in Nat
<1> TAKE k, payload, b
<1>1. Bucket(k, payload, b) \subseteq Counted(k, payload)
  BY DEF Bucket
<1>2. IsFiniteSet(Bucket(k, payload, b))
  BY <1>1, CountedFinite, FS_Subset
<1> QED BY <1>2, FS_CardinalityType

-----------------------------------------------------------------------------
\* What entities write has the type, and is what Rendered says.
LEMMA RenderLemma ==
  ASSUME Render,
         ok' \in BOOLEAN,
         held' \in [Items -> Statuses \cup {"none"}]
  PROVE  /\ shown' \in [Items -> Statuses \cup {"on", "off", "none", "unavailable"}]
         /\ \A i \in Items : KindOf[i] = "router" =>
                shown'[i] \in {"on", "off", "unknown", "none", "unavailable"}
         /\ alarm' \in [Aggregated -> {"on", "off", "none", "unavailable"}]
         /\ count' \in [Aggregated -> Nat \cup {-1}]
         /\ breakdown' \in [Aggregated -> [Buckets -> Nat]]
         /\ Rendered'
<1>1. \A i \in Items : held'[i] # "none" =>
        /\ StateOf(KindOf[i], held'[i], ok') \in Statuses \cup {"on", "off", "unavailable"}
        /\ KindOf[i] = "router" =>
             StateOf(KindOf[i], held'[i], ok') \in {"on", "off", "unknown", "unavailable"}
  BY DEF StateOf
<1>2. \A k \in Aggregated : AlarmOf(k, data', ok') \in {"on", "off", "unavailable"}
  BY DEF AlarmOf
<1>3. \A k \in Aggregated : CountOf(k, data', ok') \in Nat \cup {-1}
  BY CountedFinite DEF CountOf
<1>4. \A k \in Aggregated : CountByStatus(k, data', ok') \in [Buckets -> Nat]
  BY BucketCount DEF CountByStatus
<1>5. Rendered'
  BY DEF Rendered, Render, Live
<1> QED BY <1>1, <1>2, <1>3, <1>4, <1>5 DEF Render

LEMMA InitInv == Init => IInv
<1> SUFFICES ASSUME Init PROVE IInv
  OBVIOUS
<1>1. Live = {}
  BY DEF Init, Live
<1>2. TypeOK
  BY DEF Init, TypeOK, NoBreakdown
<1> QED BY <1>1, <1>2 DEF IInv, Sound, Rendered, Init

LEMMA SetupInv ==
  ASSUME IInv, NEW payload \in Payloads, Setup(payload) PROVE IInv'
<1>1. payload \in [Items -> Statuses \cup {"absent"}]
  BY PayloadAssumption
<1>2. Created(payload) \subseteq Present(payload) /\ Present(payload) \subseteq Items
  BY DEF Created, Present
<1>3. \A i \in Created(payload) : payload[i] \in Statuses
  BY <1>1, <1>2 DEF Present
<1>4. held' \in [Items -> Statuses \cup {"none"}]
  BY <1>3 DEF Setup
<1>5. Live' \subseteq Created(payload)
  BY DEF Setup, Live
<1>6. Sound'
  BY <1>2, <1>5 DEF IInv, Sound, Setup, Created
<1>7. registry' \subseteq Items /\ data' \in Payloads /\ loaded' \in BOOLEAN /\ ok' \in BOOLEAN
  BY <1>2 DEF Setup, IInv, TypeOK
<1>8. Render
  BY DEF Setup
<1> QED BY <1>4, <1>6, <1>7, <1>8, RenderLemma DEF IInv, TypeOK

LEMMA CycleOkInv ==
  ASSUME IInv, NEW payload \in Payloads, CycleOk(payload) PROVE IInv'
<1>1. Kept(payload) \subseteq Present(payload)
  BY DEF Kept
<1>2. held' \in [Items -> Statuses \cup {"none"}]
  BY DEF CycleOk, IInv, TypeOK
<1>3. Live' \subseteq Live \cap Kept(payload)
  BY DEF CycleOk, Live
<1>4. Sound'
  BY <1>1, <1>3 DEF Sound, CycleOk, IInv
<1>5. registry' \subseteq Items /\ data' \in Payloads /\ loaded' \in BOOLEAN /\ ok' \in BOOLEAN
  BY DEF CycleOk, IInv, TypeOK
<1>6. Render
  BY DEF CycleOk
<1> QED BY <1>2, <1>4, <1>5, <1>6, RenderLemma DEF IInv, TypeOK

\* The second failure of a row is not rendered: everything is unavailable then.
LEMMA CycleFailsInv == ASSUME IInv, CycleFails PROVE IInv'
<1>1. UNCHANGED <<loaded, data, held, registry>> /\ ok' = FALSE
  BY DEF CycleFails
<1>2. Live' = Live /\ Sound'
  BY <1>1 DEF Live, Sound, IInv
<1>3. CASE ok
  <2>1. Render
    BY <1>3 DEF CycleFails
  <2>2. held' \in [Items -> Statuses \cup {"none"}] /\ ok' \in BOOLEAN
    BY <1>1 DEF IInv, TypeOK
  <2> QED BY <1>1, <1>2, <2>1, <2>2, RenderLemma DEF IInv, TypeOK
<1>4. CASE ~ok
  <2>1. UNCHANGED <<shown, aggregateVars>> /\ ok = FALSE
    BY <1>4 DEF CycleFails, IInv, TypeOK
  <2>2. Rendered'
    BY <1>1, <1>2, <2>1 DEF Rendered, IInv, aggregateVars
  <2> QED BY <1>1, <1>2, <2>1, <2>2 DEF IInv, TypeOK, aggregateVars
<1> QED BY <1>3, <1>4

LEMMA UnloadInv == ASSUME IInv, Unload PROVE IInv'
<1>1. Live' = {} /\ ~loaded'
  BY DEF Unload, Live
<1>2. TypeOK'
  BY DEF Unload, IInv, TypeOK, NoBreakdown
<1>3. Sound'
  BY <1>1 DEF Unload, IInv, Sound
<1> QED BY <1>1, <1>2, <1>3 DEF IInv, Rendered

LEMMA InvHolds == Spec => []IInv
<1>1. IInv /\ [Next]_vars => IInv'
  <2> SUFFICES ASSUME IInv, [Next]_vars PROVE IInv'
    OBVIOUS
  <2>1. CASE UNCHANGED vars
    BY <2>1 DEF vars, IInv, TypeOK, Sound, Rendered, Live
  <2> QED BY <2>1, SetupInv, CycleOkInv, CycleFailsInv, UnloadInv DEF Next
<1> QED BY <1>1, InitInv, PTL DEF Spec

-----------------------------------------------------------------------------
\* The state of the entities keeps its type.
THEOREM TypeCorrect == Spec => []TypeOK
BY InvHolds, PTL DEF IInv

\* No entity without its item in the last good payload and its registry row,
\* and a count is never smaller than the entities it counts.
THEOREM EntitiesSound == Spec => []EntitiesAreItems
<1>1. IInv => EntitiesAreItems
  <2> SUFFICES ASSUME IInv, loaded, ok, NEW k \in {"router", "service"}
               PROVE  Cardinality({i \in Live : KindOf[i] = k}) <= count[k]
    BY DEF IInv, Sound, EntitiesAreItems
  <2> DEFINE A == {i \in Live : KindOf[i] = k}
             B == {i \in Present(data) : KindOf[i] = k /\ i \notin Internal}
  <2>1. A \subseteq B
    BY DEF IInv, Sound
  <2>2. IsFiniteSet(B)
    BY ItemsAssumption, FS_Subset DEF Present
  <2>3. count[k] = Cardinality(B)
    BY DEF IInv, Rendered, CountOf, Counted, Aggregated
  <2> HIDE DEF A, B
  <2>4. Cardinality(A) <= Cardinality(B)
    BY <2>1, <2>2, FS_Subset
  <2> QED BY <2>3, <2>4 DEF A
<1> QED BY <1>1, InvHolds, PTL

\* Everything shown is unavailable exactly while Traefik's API fails.
THEOREM AvailabilityShared == Spec => []UnavailableTogether
<1>1. IInv => UnavailableTogether
  <2> SUFFICES ASSUME IInv, loaded PROVE UnavailableTogether
    BY DEF UnavailableTogether
  <2>1. \A i \in Live : held[i] \in Statuses
    BY DEF IInv, TypeOK, Live
  <2>2. \A i \in Live : shown[i] = StateOf(KindOf[i], held[i], ok)
    BY DEF IInv, Rendered
  <2>3. \A k \in Aggregated : alarm[k] = AlarmOf(k, data, ok)
    BY DEF IInv, Rendered
  <2>4. ok \in BOOLEAN /\ "unavailable" \notin Statuses
    BY PayloadAssumption DEF IInv, TypeOK
  <2>5. \A i \in Live : shown[i] = "unavailable" <=> ~ok
    BY <2>1, <2>2, <2>4 DEF StateOf
  <2>6. \A k \in Aggregated : alarm[k] = "unavailable" <=> ~ok
    BY <2>3, <2>4 DEF AlarmOf
  <2> QED BY <2>5, <2>6 DEF UnavailableTogether
<1> QED BY <1>1, InvHolds, PTL

\* A registry row is deleted only when a successful cycle of a loaded entry
\* reports its item no more: internal services have no row to lose.
THEOREM RowsSurvive == Spec => RowsGoWithTheirItem
<1> DEFINE Step == \A i \in registry \ registry' : loaded /\ ok' /\ data'[i] = "absent"
<1>1. ASSUME IInv, [Next]_vars PROVE Step
  <2> SUFFICES ASSUME NEW i \in registry \ registry'
               PROVE  loaded /\ ok' /\ data'[i] = "absent"
    OBVIOUS
  <2>1. PICK payload \in Payloads : CycleOk(payload)
    BY <1>1 DEF Next, Setup, CycleFails, Unload, vars
  <2>2. i \in Items /\ i \notin Kept(payload)
    BY <1>1, <2>1 DEF CycleOk, IInv, TypeOK
  <2>3. i \notin Present(payload)
    BY <1>1, <2>2 DEF Kept, IInv, Sound
  <2> QED BY <2>1, <2>2, <2>3 DEF CycleOk, Present
<1> QED BY <1>1, InvHolds, PTL DEF Spec, RowsGoWithTheirItem

-----------------------------------------------------------------------------
\* The cardinality of disjoint sets is additive.
LEMMA Disjoint ==
  ASSUME NEW S, NEW T, IsFiniteSet(S), IsFiniteSet(T), S \cap T = {}
  PROVE  /\ IsFiniteSet(S \cup T)
         /\ Cardinality(S \cup T) = Cardinality(S) + Cardinality(T)
<1>1. IsFiniteSet(S \cup T)
  BY FS_Union
<1>2. Cardinality(S \cup T) = Cardinality(S) + Cardinality(T) - Cardinality(S \cap T)
  BY FS_Union
<1>3. Cardinality(S \cap T) = 0
  BY FS_EmptySet
<1>4. Cardinality(S) \in Nat /\ Cardinality(T) \in Nat
  BY FS_CardinalityType
<1> QED BY <1>1, <1>2, <1>3, <1>4

\* An item is in one bucket at most.
LEMMA BucketSum ==
  ASSUME NEW k, NEW payload
  PROVE  Cardinality(Bucket(k, payload, "success")) + Cardinality(Bucket(k, payload, "warning"))
           + Cardinality(Bucket(k, payload, "error")) + Cardinality(Bucket(k, payload, "disabled"))
         <= Cardinality(Counted(k, payload))
<1> DEFINE S == Bucket(k, payload, "success")
           W == Bucket(k, payload, "warning")
           E == Bucket(k, payload, "error")
           D == Bucket(k, payload, "disabled")
           C == Counted(k, payload)
<1>1. /\ S \cap W = {} /\ (S \cup W) \cap E = {} /\ (S \cup W \cup E) \cap D = {}
      /\ S \cup W \cup E \cup D \subseteq C
  BY DEF Bucket
<1>2. /\ IsFiniteSet(S) /\ IsFiniteSet(W) /\ IsFiniteSet(E) /\ IsFiniteSet(D)
      /\ IsFiniteSet(C) /\ Cardinality(C) \in Nat
  BY BucketCount, CountedFinite
<1>3. /\ Cardinality(S) \in Nat /\ Cardinality(W) \in Nat
      /\ Cardinality(E) \in Nat /\ Cardinality(D) \in Nat
  BY BucketCount
<1> HIDE DEF S, W, E, D, C
<1>4. IsFiniteSet(S \cup W) /\ Cardinality(S \cup W) = Cardinality(S) + Cardinality(W)
  BY <1>1, <1>2, Disjoint
<1>5. /\ IsFiniteSet(S \cup W \cup E)
      /\ Cardinality(S \cup W \cup E) = Cardinality(S \cup W) + Cardinality(E)
  BY <1>1, <1>2, <1>4, Disjoint
<1>6. Cardinality(S \cup W \cup E \cup D) = Cardinality(S \cup W \cup E) + Cardinality(D)
  BY <1>1, <1>2, <1>5, Disjoint
<1>7. Cardinality(S \cup W \cup E \cup D) <= Cardinality(C)
  BY <1>1, <1>2, FS_Subset
<1>8. Cardinality(S) + Cardinality(W) + Cardinality(E) + Cardinality(D) <= Cardinality(C)
  BY <1>3, <1>4, <1>5, <1>6, <1>7
<1> QED BY <1>8 DEF S, W, E, D, C

\* A rate that is not full has a warning or an error in it.
LEMMA PctFull ==
  ASSUME NEW counts \in [Buckets -> Nat], counts["warning"] = 0, counts["error"] = 0
  PROVE  SuccessPct(counts) = 100
<1>1. counts["success"] \in Nat
  BY DEF Buckets
<1>2. \A n \in Nat \ {0} : (n * 100) \div n = 100
  OBVIOUS
<1> QED BY <1>1, <1>2 DEF SuccessPct

\* Count, breakdown and alarm of a kind agree (_count_by_status, success_pct and
\* is_on of the any-X-failing alarms).
THEOREM AggregatesAgree == Spec => []BreakdownExplained
<1>1. IInv => BreakdownExplained
  <2> SUFFICES ASSUME IInv, loaded, ok, NEW k \in Aggregated
               PROVE  LET counts == breakdown[k]
                      IN  /\ counts["success"] + counts["warning"] + counts["error"]
                                + counts["disabled"] <= count[k]
                          /\ SuccessPct(counts) < 100 => alarm[k] = "on"
                          /\ alarm[k] = "off" => counts["success"] = count[k]
    BY DEF BreakdownExplained
  <2> DEFINE B(b) == Bucket(k, data, b)
  <2>1. /\ breakdown[k] \in [Buckets -> Nat]
        /\ \A b \in Buckets : breakdown[k][b] = Cardinality(B(b))
        /\ count[k] = Cardinality(Counted(k, data))
        /\ alarm[k] = AlarmOf(k, data, TRUE)
    BY DEF IInv, TypeOK, Rendered, CountByStatus, CountOf
  <2>2. ASSUME alarm[k] # "on"
        PROVE  /\ B("success") = Counted(k, data)
               /\ B("warning") = {} /\ B("error") = {}
    <3>1. \A i \in Present(data) : KindOf[i] = k => data[i] = "enabled"
      BY <2>1, <2>2 DEF AlarmOf
    <3> QED BY <3>1 DEF Counted, Bucket, StatusToBucket
  <2>3. ASSUME alarm[k] # "on"
        PROVE  SuccessPct(breakdown[k]) = 100
    <3>1. breakdown[k]["warning"] = 0 /\ breakdown[k]["error"] = 0
      BY <2>1, <2>2, <2>3, FS_EmptySet DEF Buckets
    <3> QED BY <2>1, <3>1, PctFull
  <2>4. breakdown[k]["success"] + breakdown[k]["warning"] + breakdown[k]["error"]
            + breakdown[k]["disabled"] <= count[k]
    BY <2>1, BucketSum DEF Buckets
  <2>5. SuccessPct(breakdown[k]) < 100 => alarm[k] = "on"
    BY <2>3
  <2>6. alarm[k] = "off" => breakdown[k]["success"] = count[k]
    BY <2>1, <2>2 DEF Buckets
  <2> QED BY <2>4, <2>5, <2>6
<1> QED BY <1>1, InvHolds, PTL
=============================================================================
