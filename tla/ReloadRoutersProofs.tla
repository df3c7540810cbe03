------------------------ MODULE ReloadRoutersProofs ------------------------
(***************************************************************************)
(* The loop of the reload service, for every Traefik, every set of router  *)
(* names and every delay.  The invariant behind the first theorems is a    *)
(* table: what the backoff is, and how much time has passed at least, once *)
(* the handler has slept k times.  The one behind the last says what all   *)
(* the refreshes obtain while Traefik does not change.                     *)
(***************************************************************************)
EXTENDS ReloadRouters, MainCoordinatorProofs

\* After k sleeps: the next backoff, and a lower bound of the time elapsed.
Slept(k) ==
    \/ k = 0 /\ backoff = 200
    \/ k = 1 /\ backoff = 400 /\ elapsed >= 200
    \/ k = 2 /\ backoff = 800 /\ elapsed >= 600
    \/ k = 3 /\ backoff = 1600 /\ elapsed >= 1400
    \/ k = 4 /\ backoff = 3200 /\ elapsed >= 3000
    \/ k = 5 /\ backoff = 5000 /\ elapsed >= 6200

\* Between two sleeps the attempt in progress is counted already.
Clock ==
    /\ attempts \in Nat /\ elapsed \in Nat /\ backoff \in Nat
    /\ pc \in {"idle", "post", "loop"} => Slept(attempts)
    /\ pc \in {"idle", "post"} => attempts = 0
    /\ pc \in {"await", "check", "sleep"} => Slept(attempts - 1)

LInv == Clock /\ AtMostFiveAttempts /\ GivesUpOnlyLate

\* No step of the coordinator or of Traefik touches what the loop counts.
LEMMA SurroundingsLInv == ASSUME LInv, Surroundings PROVE LInv'
<1> USE DelayAssumption DEF LInv, Clock, Slept, AtMostFiveAttempts, GivesUpOnlyLate, Verified, MaxBudget
<1>1. /\ UNCHANGED <<before, current, attempts, backoff>>
      /\ \/ UNCHANGED <<pc, elapsed>>
         \/ pc = "await" /\ pc' = "check" /\ \E d \in Delays : elapsed' = elapsed + d
  BY DEF Surroundings
<1>2. CASE UNCHANGED <<pc, elapsed>>
  BY <1>1, <1>2
<1>3. CASE pc = "await" /\ pc' = "check" /\ \E d \in Delays : elapsed' = elapsed + d
  <2>1. elapsed' \in Nat /\ elapsed' >= elapsed
    BY <1>3
  <2> QED BY <1>1, <1>3, <2>1
<1> QED BY <1>1, <1>2, <1>3

\* The loop is entered before the fifth second only: after the fourth sleep at
\* the latest.
LEMMA TryLInv == ASSUME LInv, Try PROVE LInv'
<1>1. /\ attempts < 10 /\ elapsed < 5000
      /\ attempts' = attempts + 1
      /\ pc = "loop" /\ pc' \in {"check", "await"}
      /\ UNCHANGED <<before, current, backoff, elapsed>>
  BY DEF Try, MayTry, MaxAttempts, MaxBudget
<1>2. attempts \in 0..4 /\ attempts' - 1 = attempts
  BY <1>1 DEF LInv, Clock, Slept
<1> QED BY <1>1, <1>2 DEF LInv, Clock, Slept, AtMostFiveAttempts, GivesUpOnlyLate

\* A sleep moves the handler one row down the table.
LEMMA SleepLInv == ASSUME LInv, Sleep PROVE LInv'
<1>1. PICK d \in Delays : elapsed' = elapsed + backoff + d
  BY DEF Sleep
<1>2. d \in Nat
  BY DelayAssumption
<1>3. /\ pc = "sleep" /\ pc' = "loop"
      /\ backoff' = IF backoff * 2 < 5000 THEN backoff * 2 ELSE 5000
      /\ UNCHANGED <<before, current, attempts>>
  BY DEF Sleep, NextBackoff, MaxBackoff
<1>4. attempts \in 1..5
  BY <1>3 DEF LInv, Clock, Slept, AtMostFiveAttempts
<1>5. Slept(attempts)' /\ elapsed' \in Nat /\ backoff' \in Nat
  BY <1>1, <1>2, <1>3, <1>4 DEF LInv, Clock, Slept
<1> QED BY <1>3, <1>4, <1>5 DEF LInv, Clock, AtMostFiveAttempts, GivesUpOnlyLate

\* The steps that only move the handler on.
LEMMA OtherLInv == ASSUME LInv, Call \/ Post \/ GiveUp \/ Check \/ Retire PROVE LInv'
<1> USE DEF LInv, Clock, Slept, AtMostFiveAttempts, GivesUpOnlyLate, Verified
<1>1. CASE Call
  BY <1>1 DEF Call
<1>2. CASE Post
  <2>1. PICK d \in Delays : elapsed' = elapsed + d
    BY <1>2 DEF Post
  <2>2. elapsed' \in Nat /\ elapsed' >= elapsed
    BY <2>1, DelayAssumption
  <2> QED BY <1>2, <2>2 DEF Post
<1>3. CASE GiveUp
  BY <1>3 DEF GiveUp, MayTry, MaxAttempts, MaxBudget
<1>4. CASE Check
  BY <1>4 DEF Check
<1>5. CASE Retire
  BY <1>5 DEF Retire
<1> QED BY <1>1, <1>2, <1>3, <1>4, <1>5

LEMMA LInvHolds == SafeSpecAll => []LInv
<1>1. InitAll => LInv
  BY DEF InitAll, LInv, Clock, Slept, FirstBackoff, AtMostFiveAttempts, GivesUpOnlyLate
<1>2. LInv /\ [NextAll]_allVars => LInv'
  <2> SUFFICES ASSUME LInv, [NextAll]_allVars PROVE LInv'
    OBVIOUS
  <2>1. CASE Service
    BY <2>1, TryLInv, SleepLInv, OtherLInv DEF Service
  <2>2. CASE Surroundings
    BY <2>2, SurroundingsLInv
  <2>3. CASE Retire
    BY <2>3, OtherLInv
  <2>4. CASE UNCHANGED allVars
    BY <2>4 DEF allVars, serviceVars, LInv, Clock, Slept, AtMostFiveAttempts,
                GivesUpOnlyLate, Verified
  <2> QED BY <2>1, <2>2, <2>3, <2>4 DEF NextAll
<1> QED BY <1>1, <1>2, PTL DEF SafeSpecAll

\* The loop makes at most five of its ten attempts, whatever the refreshes take.
THEOREM FiveAttempts == SafeSpecAll => []AtMostFiveAttempts
BY LInvHolds, PTL DEF LInv

\* A call that reports no change has used up its budget.
THEOREM BudgetUsed == SafeSpecAll => []GivesUpOnlyLate
BY LInvHolds, PTL DEF LInv

-----------------------------------------------------------------------------
\* While Traefik keeps the configuration known at the start of the call, nothing
\* the coordinator has or awaits is of another one.
Real ==
    /\ since \in {Unknown} \cup 0..MaxVersion
    /\ since # Unknown =>
         /\ since <= version
         /\ version = since =>
              /\ data[1] = since
              /\ \A s \in Sources : flight[s] /\ got[s][1] = "ok" => seen[s][1] = since
              /\ before = RouterNames[since] /\ current = before

LEMMA FirstEndpoint == 1 \in Endpoints
BY EndpointAssumption DEF Endpoints

\* A step of the service that concerns the coordinator is one of its steps.
LEMMA ServiceStep ==
    ASSUME Service \/ Surroundings
    PROVE  [Next]_vars
<1>1. CASE Service
  BY <1>1 DEF Service, Call, Post, Try, GiveUp, Check, Sleep, Next
<1>2. CASE Surroundings
  BY <1>2 DEF Surroundings, Ending, Next, Refreshing
<1> QED BY <1>1, <1>2

LEMMA RetireType == ASSUME TypeOK, Retire PROVE TypeOK'
<1>1. Unanswered \in [Endpoints -> Replies \cup {"pending"}] /\ 0 \in 0..MaxVersion
  BY EndpointAssumption DEF Unanswered
<1> QED BY <1>1 DEF TypeOK, Retire, traefikVars

\* The steps of the coordinator and of Traefik.
LEMMA CoordinatorReal ==
    ASSUME TypeOK, Real, UNCHANGED <<before, current, since>>,
           ConfigChange \/ ModeChange \/ Refreshing \/ RequestRefresh
    PROVE  Real'
<1> USE FirstEndpoint, EndpointAssumption DEF Real, Unknown
<1>1. CASE ConfigChange
  BY <1>1 DEF ConfigChange, TypeOK
<1>2. CASE ModeChange
  BY <1>2 DEF ModeChange
<1>3. ASSUME NEW s \in Sources, StartRefresh(s) PROVE Real'
  <2>1. \A q \in Sources : flight'[q] /\ got'[q][1] = "ok" => flight[q] /\ got[q][1] = "ok"
    BY <1>3 DEF StartRefresh, TypeOK, Unanswered
  <2> QED BY <1>3, <2>1 DEF StartRefresh, traefikVars
<1>4. CASE TimerFires
  BY <1>3, <1>4 DEF TimerFires, Sources
<1>5. CASE CooldownEnds
  <2>1. CASE atEnd /\ ~flight["request"]
    BY <1>3, <1>5, <2>1 DEF CooldownEnds, Sources
  <2>2. CASE ~(atEnd /\ ~flight["request"])
    BY <1>5, <2>2 DEF CooldownEnds, traefikVars
  <2> QED BY <2>1, <2>2
<1>6. CASE RequestRefresh
  <2>1. CASE CallOnlyNoted
    BY <1>6, <2>1 DEF RequestRefresh, traefikVars
  <2>2. CASE ~CallOnlyNoted
    BY <1>3, <1>6, <2>2 DEF RequestRefresh, Sources
  <2> QED BY <2>1, <2>2
<1>7. ASSUME NEW s \in Sources, NEW i \in Endpoints, Respond(s, i) PROVE Real'
  <2>1. \A q \in Sources : q # s \/ i # 1 => got'[q][1] = got[q][1] /\ seen'[q][1] = seen[q][1]
    BY <1>7 DEF Respond, TypeOK
  <2>2. i = 1 => seen'[s][1] = version
    BY <1>7 DEF Respond, TypeOK
  <2> QED BY <1>7, <2>1, <2>2 DEF Respond, traefikVars
<1>8. ASSUME NEW s \in Sources, FinishRefresh(s) PROVE Real'
  <2>1. Result(s) = "data" => got[s][1] = "ok"
    BY <1>8, ResultOfReplies DEF FinishRefresh
  <2>2. \/ data'[1] = data[1]
        \/ flight[s] /\ got[s][1] = "ok" /\ data'[1] = seen[s][1]
    <3>1. flight[s] /\ data' = NewData(s)
      BY <1>8 DEF FinishRefresh
    <3> QED BY <2>1, <3>1 DEF NewData
  <2>3. \A q \in Sources : flight'[q] => flight[q] /\ got'[q] = got[q] /\ seen'[q] = seen[q]
    BY <1>8 DEF FinishRefresh, TypeOK
  <2> QED BY <1>8, <2>2, <2>3 DEF FinishRefresh, traefikVars
<1> QED BY <1>1, <1>2, <1>4, <1>5, <1>6, <1>7, <1>8 DEF Refreshing

\* The steps of the handler.
LEMMA HandlerReal == ASSUME TypeOK, Real, Service PROVE Real'
<1> USE DEF Real, Unknown
<1>1. CASE Call
  BY <1>1 DEF Call, UpToDate, CurrentRouterNames, vars, TypeOK, Unknown
<1>2. CASE Check
  BY <1>2 DEF Check, CurrentRouterNames, vars
<1>3. CASE Try
  <2>1. CASE UNCHANGED vars
    BY <1>3, <2>1 DEF Try, vars
  <2>2. CASE RequestRefresh
    BY <1>3, <2>2, CoordinatorReal DEF Try
  <2> QED BY <1>3, <2>1, <2>2 DEF Try
<1>4. CASE Post \/ GiveUp \/ Sleep
  BY <1>4 DEF Post, GiveUp, Sleep, vars
<1> QED BY <1>1, <1>2, <1>3, <1>4 DEF Service

LEMMA RetireReal == ASSUME TypeOK, Real, Retire PROVE Real'
<1>1. \A q \in Sources : flight'[q] => flight[q] /\ got'[q] = got[q] /\ seen'[q] = seen[q]
  BY DEF Retire, TypeOK
<1> QED BY <1>1 DEF Real, Retire, traefikVars

LEMMA RealHolds == SafeSpecAll => [](TypeOK /\ Real)
<1>1. InitAll => TypeOK /\ Real
  BY InitType DEF InitAll, Real, Unknown
<1>2. TypeOK /\ Real /\ [NextAll]_allVars => (TypeOK /\ Real)'
  <2> SUFFICES ASSUME TypeOK, Real, [NextAll]_allVars PROVE TypeOK' /\ Real'
    OBVIOUS
  <2>1. CASE Service
    BY <2>1, ServiceStep, NextType, HandlerReal
  <2>2. CASE Surroundings
    <3>1. TypeOK'
      BY <2>2, ServiceStep, NextType
    <3>2. /\ UNCHANGED <<before, current, since>>
          /\ ConfigChange \/ ModeChange \/ Refreshing \/ RequestRefresh
      BY <2>2 DEF Surroundings, Ending, Refreshing
    <3> QED BY <3>1, <3>2, CoordinatorReal
  <2>3. CASE Retire
    BY <2>3, RetireType, RetireReal
  <2>4. CASE UNCHANGED allVars
    BY <2>4, NextType DEF allVars, serviceVars, vars, Real
  <2> QED BY <2>1, <2>2, <2>3, <2>4 DEF NextAll
<1> QED BY <1>1, <1>2, PTL DEF SafeSpecAll

\* A change is reported only if Traefik changed after the start of the call, for
\* any number of requests, configurations, failures and overlapping refreshes.
THEOREM ReportedChangeReal == SafeSpecAll => []ChangeIsReal
<1>1. TypeOK /\ Real => ChangeIsReal
  BY DEF Real, ChangeIsReal, Verified
<1> QED BY <1>1, RealHolds, PTL

-----------------------------------------------------------------------------
\* The backoff doubles within its bounds.
LEMMA BackoffRange ==
    ASSUME backoff \in 200..5000, backoff' = NextBackoff
    PROVE  backoff' \in 200..5000
<1>1. backoff \in Int /\ 200 <= backoff
  OBVIOUS
<1>2. CASE backoff * 2 < 5000
  <2>1. backoff * 2 \in Int /\ 200 <= backoff * 2 /\ backoff * 2 <= 5000
    BY <1>1, <1>2
  <2> QED BY <1>2, <2>1 DEF NextBackoff, MaxBackoff
<1>3. CASE ~(backoff * 2 < 5000)
  BY <1>3 DEF NextBackoff, MaxBackoff
<1> QED BY <1>2, <1>3

LEMMA HandlerType == ASSUME TypeOK, ServiceTypeOK, Service PROVE ServiceTypeOK'
<1> USE FirstEndpoint DEF ServiceTypeOK
<1>1. CurrentRouterNames \in {RouterNames[v] : v \in 0..MaxVersion} /\ version \in 0..MaxVersion
  BY DEF CurrentRouterNames, TypeOK
<1>2. CASE Call
  BY <1>1, <1>2 DEF Call
<1>3. CASE Post
  BY <1>3, DelayAssumption DEF Post
<1>4. CASE Try
  BY <1>4 DEF Try, MayTry, MaxAttempts
<1>5. CASE GiveUp
  BY <1>5 DEF GiveUp
<1>6. CASE Check
  BY <1>1, <1>6 DEF Check
<1>7. CASE Sleep
  <2>1. PICK d \in Delays : elapsed' = elapsed + backoff + d
    BY <1>7 DEF Sleep
  <2>2. backoff \in 200..5000 /\ elapsed \in Nat /\ d \in Nat
    BY DelayAssumption DEF FirstBackoff, MaxBackoff
  <2>3. elapsed' \in Nat
    BY <2>1, <2>2
  <2>4. backoff' = NextBackoff
    BY <1>7 DEF Sleep
  <2>5. backoff' \in 200..5000
    BY <2>2, <2>4, BackoffRange
  <2> QED BY <1>7, <2>3, <2>5 DEF Sleep, FirstBackoff, MaxBackoff
<1> QED BY <1>2, <1>3, <1>4, <1>5, <1>6, <1>7 DEF Service

\* The handler's variables keep their type.
THEOREM ServiceTypeCorrect == SafeSpecAll => []ServiceTypeOK
<1>1. InitAll => ServiceTypeOK
  <2> SUFFICES ASSUME InitAll PROVE ServiceTypeOK
    OBVIOUS
  <2>1. attempts \in 0..MaxAttempts /\ backoff \in FirstBackoff..MaxBackoff /\ elapsed \in Nat
    BY DEF InitAll, MaxAttempts, FirstBackoff, MaxBackoff
  <2>2. before = {} /\ current = {} /\ pc = "idle" /\ retired = FALSE /\ since = Unknown
    BY DEF InitAll
  <2> QED BY <2>1, <2>2, Zenon DEF ServiceTypeOK
<1>2. TypeOK /\ ServiceTypeOK /\ [NextAll]_allVars => ServiceTypeOK'
  <2> SUFFICES ASSUME TypeOK, ServiceTypeOK, [NextAll]_allVars PROVE ServiceTypeOK'
    OBVIOUS
  <2>1. CASE Service
    BY <2>1, HandlerType
  <2>2. CASE Surroundings
    BY <2>2, DelayAssumption DEF Surroundings, ServiceTypeOK
  <2>3. CASE Retire
    BY <2>3 DEF Retire, ServiceTypeOK
  <2>4. CASE UNCHANGED allVars
    BY <2>4 DEF allVars, serviceVars, ServiceTypeOK
  <2> QED BY <2>1, <2>2, <2>3, <2>4 DEF NextAll
<1> QED BY <1>1, <1>2, RealHolds, PTL DEF SafeSpecAll

-----------------------------------------------------------------------------
(* How late a call can end. *)

\* After k sleeps and e more waits of at most D each: an upper bound of the time.
TookAtMost(k, e, D) ==
    \/ k = 0 /\ elapsed <= e * D
    \/ k = 1 /\ elapsed <= 200 + (2 + e) * D
    \/ k = 2 /\ elapsed <= 600 + (4 + e) * D
    \/ k = 3 /\ elapsed <= 1400 + (6 + e) * D
    \/ k = 4 /\ elapsed <= 3000 + (8 + e) * D
    \/ k = 5 /\ elapsed <= 6200 + (10 + e) * D

\* An attempt begins within the budget; its refresh and its sleep come on top.
Late(D) ==
    /\ pc \in {"idle", "post"} => elapsed = 0
    /\ pc = "loop" => TookAtMost(attempts, 1, D) /\ elapsed <= 8200 + 2 * D
    /\ pc = "await" => TookAtMost(attempts - 1, 1, D) /\ elapsed < 5000
    /\ pc \in {"check", "sleep"} => TookAtMost(attempts - 1, 2, D) /\ elapsed < 5000 + D
    /\ Over => elapsed <= 6200 + 11 * D /\ elapsed <= 8200 + 2 * D

\* One step of the call, for any bound D of the delays.
LEMMA LateStep ==
  ASSUME LInv, NEW D \in Nat, \A d \in Delays : d <= D, Late(D), [NextAll]_allVars
  PROVE  Late(D)'
<1> USE DEF Late, TookAtMost, Over
<1>0. /\ attempts \in 0..5 /\ elapsed \in Nat /\ backoff \in Nat
      /\ \A d \in Delays : d \in Nat
      /\ pc \in {"await", "check", "sleep"} => attempts \in 1..5 /\ Slept(attempts - 1)
  BY DelayAssumption DEF LInv, Clock, Slept, AtMostFiveAttempts
<1>1. CASE Call
  BY <1>1 DEF Call
<1>2. CASE Post
  <2>1. PICK d \in Delays : elapsed' = elapsed + d
    BY <1>2 DEF Post
  <2>2. elapsed' <= D /\ elapsed' \in Nat
    BY <1>0, <1>2, <2>1 DEF Post
  <2> QED BY <1>2, <2>2 DEF Post, LInv, Clock
<1>3. CASE Try
  BY <1>0, <1>3 DEF Try, MayTry, MaxAttempts, MaxBudget
<1>4. CASE GiveUp
  BY <1>0, <1>4 DEF GiveUp
<1>5. CASE Check
  BY <1>0, <1>5 DEF Check
<1>6. CASE Sleep
  <2>1. PICK d \in Delays : elapsed' = elapsed + backoff + d
    BY <1>6 DEF Sleep
  <2>2. d \in Nat /\ d <= D
    BY <1>0, <2>1
  <2>3. /\ pc = "sleep" /\ pc' = "loop" /\ attempts' = attempts
        /\ attempts \in 1..5 /\ Slept(attempts - 1) /\ backoff <= 3200
    BY <1>0, <1>6 DEF Sleep, Slept
  <2>4. elapsed' <= 8200 + 2 * D
    BY <1>0, <2>1, <2>2, <2>3
  <2>5. TookAtMost(attempts, 1, D)'
    BY <1>0, <2>1, <2>2, <2>3 DEF Slept
  <2> QED BY <2>3, <2>4, <2>5
<1>7. CASE Surroundings
  <2>1. /\ attempts' = attempts
        /\ \/ UNCHANGED <<pc, elapsed>>
           \/ pc = "await" /\ pc' = "check" /\ \E d \in Delays : elapsed' = elapsed + d
    BY <1>7 DEF Surroundings
  <2>2. CASE UNCHANGED <<pc, elapsed>>
    BY <2>1, <2>2
  <2>3. CASE pc = "await" /\ pc' = "check" /\ \E d \in Delays : elapsed' = elapsed + d
    <3>1. PICK d \in Delays : elapsed' = elapsed + d
      BY <2>3
    <3> QED BY <1>0, <2>1, <2>3, <3>1
  <2> QED BY <2>1, <2>2, <2>3
<1>8. CASE Retire \/ UNCHANGED allVars
  BY <1>8 DEF Retire, allVars, serviceVars
<1> QED BY <1>1, <1>2, <1>3, <1>4, <1>5, <1>6, <1>7, <1>8 DEF NextAll, Service

\* __init__.py:102-109: whatever bound the waits have, a call ends within 8.2 s
\* and two of them, and within 6.2 s and eleven.  The budget of 5 s is thus
\* overrun by a sleep of 3.2 s, and no attempt or refresh adds to that.
THEOREM OverrunLimited == SafeSpecAll => []OverrunBounded
<1> DEFINE AllLate == \A D \in Nat : (\A d \in Delays : d <= D) => Late(D)
<1>1. InitAll => AllLate
  BY DEF InitAll, Late, Over
<1>2. LInv /\ AllLate /\ [NextAll]_allVars => AllLate'
  BY LateStep
<1>3. ASSUME LInv, ServiceTypeOK, AllLate PROVE OverrunBounded
  <2> SUFFICES ASSUME NEW D \in Delays, \A d \in Delays : d <= D
               PROVE  elapsed <= 8200 + 2 * D /\ elapsed <= 6200 + 11 * D
    BY DEF OverrunBounded, MaxBudget, FirstBackoff
  <2>1. D \in Nat /\ elapsed \in Nat /\ attempts \in 0..5
    BY <1>3, DelayAssumption DEF LInv, Clock, Slept, AtMostFiveAttempts
  <2>2. Late(D)
    BY <1>3, <2>1
  <2>3. /\ pc \in {"idle", "post", "loop", "await", "check", "sleep", "done", "raised"}
        /\ pc \in {"await", "check", "sleep"} => attempts - 1 \in 0..4
    BY <1>3, <2>1 DEF LInv, Clock, Slept, ServiceTypeOK
  <2> QED BY <2>1, <2>2, <2>3 DEF Late, TookAtMost, Over
<1> QED BY <1>1, <1>2, <1>3, LInvHolds, ServiceTypeCorrect, PTL DEF SafeSpecAll
=============================================================================
