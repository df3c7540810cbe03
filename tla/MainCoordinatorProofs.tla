----------------------- MODULE MainCoordinatorProofs -----------------------
(***************************************************************************)
(* The main coordinator for any number of requests, any replies of a       *)
(* Traefik that does not work and any number of configurations.            *)
(***************************************************************************)
EXTENDS MainCoordinator, TLAPS, WellFoundedInduction

\* What CHOOSE picks as the first failed request is one of those that failed.
LEMMA FirstExists ==
  ASSUME NEW F \in SUBSET Endpoints, F # {}
  PROVE  (CHOOSE i \in F : \A j \in F : i <= j) \in F
<1>1. F \subseteq Nat
  BY EndpointAssumption DEF Endpoints
<1>2. PICK i \in F : \A j \in F : ~(<<j, i>> \in OpToRel(<, Nat))
  BY <1>1, WFMin, NatLessThanWellFounded, Zenon
<1>3. \A j \in F : ~(j < i)
  BY <1>1, <1>2, Zenon DEF OpToRel
<1>4. \A j \in F : i <= j
  BY <1>1, <1>3, SMT
<1> QED BY <1>4, Zenon

\* The precedence of fetch_all: a payload exactly when every request succeeded,
\* an authentication error exactly when some token was refused.
LEMMA FetchAllPrecedence ==
  ASSUME NEW replies \in [Endpoints -> Replies]
  PROVE  /\ FetchAll(replies) = "ok" <=> \A i \in Endpoints : replies[i] = "ok"
         /\ FetchAll(replies) = "auth" <=> \E i \in Endpoints : replies[i] \in AuthReplies
         /\ FetchAll(replies) \in {"ok", "auth", "api", "raw"}
<1> DEFINE Failed == {i \in Endpoints : Get(replies[i]) # "ok"}
           First == CHOOSE i \in Failed : \A j \in Failed : i <= j
<1>1. \A r \in Replies : /\ Get(r) \in {"ok", "auth", "api", "raw"}
                         /\ Get(r) = "auth" <=> r \in AuthReplies
                         /\ Get(r) = "ok" <=> r = "ok"
  BY DEF Get, Replies, AuthReplies, ApiReplies, RawReplies
<1>2. DOMAIN replies = Endpoints /\ \A i \in Endpoints : replies[i] \in Replies
  OBVIOUS
<1>3. FetchAll(replies) =
        IF \E i \in Failed : Get(replies[i]) = "auth" THEN "auth"
        ELSE IF Failed # {} THEN Get(replies[First]) ELSE "ok"
  BY <1>2 DEF FetchAll
<1>4. Failed # {} => First \in Failed
  <2> HIDE DEF Failed
  <2> SUFFICES ASSUME Failed # {} PROVE First \in Failed
    OBVIOUS
  <2>1. Failed \in SUBSET Endpoints
    BY DEF Failed
  <2> QED BY <2>1, FirstExists
<1> HIDE DEF First
<1>5. CASE \E i \in Endpoints : replies[i] \in AuthReplies
  BY <1>1, <1>2, <1>3, <1>5 DEF AuthReplies
<1>6. CASE /\ ~ \E i \in Endpoints : replies[i] \in AuthReplies
           /\ Failed # {}
  BY <1>1, <1>2, <1>3, <1>4, <1>6
<1>7. CASE Failed = {}
  BY <1>1, <1>2, <1>3, <1>7 DEF AuthReplies
<1> QED BY <1>5, <1>6, <1>7

-----------------------------------------------------------------------------
\* A coordinator that has just been made has the type.
LEMMA FreshType ==
  /\ [s \in Sources |-> Unanswered] \in [Sources -> [Endpoints -> Replies \cup {"pending"}]]
  /\ [s \in Sources |-> FALSE] \in [Sources -> BOOLEAN]
  /\ \A v \in 0..MaxVersion : [i \in Endpoints |-> v] \in [Endpoints -> 0..MaxVersion]
  /\ 0 \in 0..MaxVersion
  /\ [s \in Sources |-> [i \in Endpoints |-> 0]] \in [Sources -> [Endpoints -> 0..MaxVersion]]
<1>1. 0 \in 0..MaxVersion
  BY EndpointAssumption
<1>2. Unanswered \in [Endpoints -> Replies \cup {"pending"}]
  BY DEF Unanswered
<1> QED BY <1>1, <1>2

LEMMA InitType == Init => TypeOK
BY FreshType, Zenon DEF Init, TypeOK

\* The steps that send requests keep the type.
LEMMA StartType == ASSUME TypeOK, NEW s \in Sources, StartRefresh(s) PROVE TypeOK'
BY DEF TypeOK, StartRefresh, traefikVars, Unanswered

\* A reply is one Traefik gives in its mode.
LEMMA RespondType ==
  ASSUME TypeOK, NEW s \in Sources, NEW i \in Endpoints, Respond(s, i)
  PROVE  TypeOK'
<1>1. PICK r \in RepliesIn(mode) : got' = [got EXCEPT ![s][i] = r]
  BY DEF Respond
<1>2. r \in Replies
  BY DownAssumption DEF RepliesIn, TypeOK, Replies, AuthReplies
<1>3. got' \in [Sources -> [Endpoints -> Replies \cup {"pending"}]]
  BY <1>1, <1>2 DEF TypeOK
<1>4. seen' \in [Sources -> [Endpoints -> 0..MaxVersion]]
  BY DEF TypeOK, Respond
<1> QED BY <1>3, <1>4 DEF TypeOK, Respond, traefikVars

LEMMA FinishType == ASSUME TypeOK, NEW s \in Sources, FinishRefresh(s) PROVE TypeOK'
<1> USE EndpointAssumption DEF TypeOK
<1>1. data' \in [Endpoints -> 0..MaxVersion]
  BY DEF FinishRefresh, NewData
<1>2. /\ flight' \in [Sources -> BOOLEAN]
      /\ got' \in [Sources -> [Endpoints -> Replies \cup {"pending"}]]
      /\ seen' \in [Sources -> [Endpoints -> 0..MaxVersion]]
  BY DEF FinishRefresh, Unanswered
<1>3. ok' \in BOOLEAN /\ timer' \in BOOLEAN /\ cooldown' \in BOOLEAN /\ reauth' \in BOOLEAN
  BY DEF FinishRefresh
<1> QED BY <1>1, <1>2, <1>3 DEF FinishRefresh, traefikVars

LEMMA NextType == ASSUME TypeOK, [Next]_vars PROVE TypeOK'
<1>1. CASE ConfigChange
  BY <1>1, EndpointAssumption DEF ConfigChange, TypeOK
<1>2. CASE ModeChange
  BY <1>2 DEF ModeChange, TypeOK
<1>3. CASE TimerFires
  BY <1>3, StartType DEF TimerFires, Sources
<1>4. CASE CooldownEnds
  <2>1. CASE atEnd /\ ~flight["request"]
    BY <1>4, <2>1, StartType DEF CooldownEnds, Sources
  <2>2. CASE ~(atEnd /\ ~flight["request"])
    BY <1>4, <2>2 DEF CooldownEnds, TypeOK, traefikVars
  <2> QED BY <2>1, <2>2
<1>5. CASE RequestRefresh
  <2>1. CASE CallOnlyNoted
    BY <1>5, <2>1 DEF RequestRefresh, TypeOK, traefikVars
  <2>2. CASE ~CallOnlyNoted
    BY <1>5, <2>2, StartType DEF RequestRefresh, Sources
  <2> QED BY <2>1, <2>2
<1>6. CASE \E s \in Sources : FinishRefresh(s) \/ \E i \in Endpoints : Respond(s, i)
  BY <1>6, FinishType, RespondType
<1>7. CASE Reload
  BY <1>7, FreshType, Zenon DEF Reload, TypeOK, traefikVars
<1>8. CASE UNCHANGED vars
  BY <1>8 DEF vars, TypeOK
<1> QED BY <1>1, <1>2, <1>3, <1>4, <1>5, <1>6, <1>7, <1>8 DEF Next, Refreshing

\* The main coordinator's state keeps its type.
THEOREM TypeCorrect == SafeSpec => []TypeOK
BY InitType, NextType, PTL DEF SafeSpec

-----------------------------------------------------------------------------
\* The replies FinishRefresh combines.
LEMMA AnsweredReplies ==
  ASSUME TypeOK, NEW s \in Sources, Answered(s)
  PROVE  got[s] \in [Endpoints -> Replies]
BY DEF TypeOK, Answered

\* What a refresh does by the replies it got.
LEMMA ResultOfReplies ==
  ASSUME TypeOK, NEW s \in Sources, Answered(s)
  PROVE  /\ Result(s) = "data" <=> \A i \in Endpoints : got[s][i] = "ok"
         /\ Result(s) = "ConfigEntryAuthFailed" <=>
              \E i \in Endpoints : got[s][i] \in AuthReplies
<1>1. got[s] \in [Endpoints -> Replies]
  BY AnsweredReplies
<1>2. /\ FetchAll(got[s]) = "ok" <=> \A i \in Endpoints : got[s][i] = "ok"
      /\ FetchAll(got[s]) = "auth" <=> \E i \in Endpoints : got[s][i] \in AuthReplies
      /\ FetchAll(got[s]) \in {"ok", "auth", "api", "raw"}
  BY <1>1, FetchAllPrecedence
<1> QED BY <1>2 DEF Result, UpdateData

-----------------------------------------------------------------------------
\* Only an authentication failure ends a refresh without scheduling the next.
LEMMA PollingStep == ASSUME TypeOK, PollingAlive, [Next]_vars PROVE PollingAlive'
<1> USE DEF PollingAlive
<1>1. CASE ConfigChange \/ ModeChange
  BY <1>1 DEF ConfigChange, ModeChange
<1>2. ASSUME NEW s \in Sources, StartRefresh(s) PROVE PollingAlive'
  BY <1>2 DEF StartRefresh, TypeOK
<1>3. CASE TimerFires
  BY <1>2, <1>3 DEF TimerFires, Sources
<1>4. CASE CooldownEnds
  <2>1. CASE atEnd /\ ~flight["request"]
    BY <1>2, <1>4, <2>1 DEF CooldownEnds, Sources
  <2>2. CASE ~(atEnd /\ ~flight["request"])
    BY <1>4, <2>2 DEF CooldownEnds
  <2> QED BY <2>1, <2>2
<1>5. CASE RequestRefresh
  <2>1. CASE CallOnlyNoted
    BY <1>5, <2>1 DEF RequestRefresh
  <2>2. CASE ~CallOnlyNoted
    BY <1>2, <1>5, <2>2 DEF RequestRefresh, Sources
  <2> QED BY <2>1, <2>2
<1>6. ASSUME NEW s \in Sources, FinishRefresh(s) PROVE PollingAlive'
  BY <1>6 DEF FinishRefresh, Reschedules
<1>7. ASSUME NEW s \in Sources, NEW i \in Endpoints, Respond(s, i) PROVE PollingAlive'
  BY <1>7 DEF Respond
<1>8. CASE Reload
  BY <1>8 DEF Reload
<1>9. CASE UNCHANGED vars
  BY <1>9 DEF vars
<1> QED BY <1>1, <1>3, <1>4, <1>5, <1>6, <1>7, <1>8, <1>9 DEF Next, Refreshing

\* Polling never dies silently.
THEOREM PollingGoesOn == SafeSpec => []PollingAlive
<1>1. Init => PollingAlive
  BY DEF Init, PollingAlive
<1> QED BY <1>1, TypeCorrect, PollingStep, PTL DEF SafeSpec

-----------------------------------------------------------------------------
\* Which steps touch the data.
LEMMA DataStep ==
  ASSUME TypeOK, [Next]_vars, data' # data
  PROVE  \/ \E s \in Sources : FinishRefresh(s)
         \/ data' = [i \in Endpoints |-> version]
<1>1. CASE Reload
  BY <1>1 DEF Reload
<1>2. CASE ~Reload /\ ~(\E s \in Sources : FinishRefresh(s))
  BY <1>2 DEF Next, Refreshing, ConfigChange, ModeChange, TimerFires, CooldownEnds,
              RequestRefresh, StartRefresh, Respond, vars
<1> QED BY <1>1, <1>2

\* No mixed payload is ever published.
THEOREM DataWhole == SafeSpec => AllOrNothing
<1> DEFINE Whole == data' # data =>
              \/ \E s \in Sources : /\ \A i \in Endpoints : got[s][i] = "ok"
                                    /\ data' = seen[s]
              \/ data' = [i \in Endpoints |-> version]
<1>1. ASSUME TypeOK, [Next]_vars PROVE Whole
  <2> SUFFICES ASSUME data' # data, NEW s \in Sources, FinishRefresh(s)
               PROVE  /\ \A i \in Endpoints : got[s][i] = "ok"
                      /\ data' = seen[s]
    BY <1>1, DataStep
  <2>1. Answered(s) /\ data' = NewData(s)
    BY DEF FinishRefresh
  <2>2. Result(s) = "data" /\ data' = seen[s]
    BY <2>1 DEF NewData
  <2> QED BY <1>1, <2>1, <2>2, ResultOfReplies
<1> QED BY <1>1, TypeCorrect, PTL DEF SafeSpec, AllOrNothing

\* A refused token asks for a new one, whatever else failed, and nothing else does.
THEOREM RefusalWins == SafeSpec => AuthWins
<1> DEFINE Wins(s) == FinishRefresh(s) =>
              LET refused == \E i \in Endpoints : got[s][i] \in AuthReplies
              IN  /\ refused => reauth' /\ ~ok'
                  /\ reauth' => reauth \/ refused
<1>1. ASSUME TypeOK, NEW s \in Sources PROVE Wins(s)
  <2> SUFFICES ASSUME FinishRefresh(s) PROVE Wins(s)
    OBVIOUS
  <2>1. /\ Answered(s)
        /\ ok' = (Result(s) = "data")
        /\ reauth' = (reauth \/ Result(s) = "ConfigEntryAuthFailed")
    BY DEF FinishRefresh
  <2>2. Result(s) = "ConfigEntryAuthFailed" <=>
          \E i \in Endpoints : got[s][i] \in AuthReplies
    BY <1>1, <2>1, ResultOfReplies
  <2> QED BY <2>1, <2>2
<1>2. TypeOK => \A s \in Sources : Wins(s)
  BY <1>1
<1> QED BY <1>2, TypeCorrect, PTL DEF SafeSpec, AuthWins

-----------------------------------------------------------------------------
(* The safety half of Converges. *)

\* The good replies of a refresh describe Traefik's present configuration.
Current(s) == \A i \in Endpoints : got[s][i] = "ok" => seen[s][i] = version

UpToDateData == \A i \in Endpoints : data[i] = version

\* Nothing the coordinator has, or is about to have, is of an older configuration.
Settled == UpToDateData /\ \A s \in Sources : Current(s)

\* While Traefik keeps its configuration, a refresh that is current stays so, one
\* that ends is current from then on, and one that was current and ends well brings
\* the data up to date; when both are, the data stays up to date.
Settling ==
    version' = version =>
        /\ \A s \in Sources : Current(s) => Current(s)'
        /\ \A s \in Sources : FinishRefresh(s) => Current(s)'
        /\ \A s \in Sources : FinishRefresh(s) /\ Current(s) /\ ok' => UpToDateData'
        /\ Settled => Settled'

\* A refresh that has just started, or has ended, has no good replies.
LEMMA ClearedIsCurrent ==
  ASSUME NEW s \in Sources, got'[s] = Unanswered
  PROVE  Current(s)'
BY DEF Current, Unanswered

\* Only the answers of a refresh add to it.
LEMMA CurrentStays ==
  ASSUME TypeOK, [Next]_vars, version' = version, NEW s \in Sources, Current(s)
  PROVE  Current(s)'
<1>1. ASSUME NEW r \in Sources, StartRefresh(r) PROVE Current(s)'
  <2>1. CASE r = s
    BY <1>1, <2>1, ClearedIsCurrent DEF StartRefresh, TypeOK
  <2>2. CASE r # s
    BY <1>1, <2>2 DEF StartRefresh, TypeOK, Current
  <2> QED BY <2>1, <2>2
<1>2. CASE TimerFires
  BY <1>1, <1>2 DEF TimerFires, Sources
<1>3. CASE CooldownEnds
  <2>1. CASE atEnd /\ ~flight["request"]
    BY <1>1, <1>3, <2>1 DEF CooldownEnds, Sources
  <2>2. CASE ~(atEnd /\ ~flight["request"])
    BY <1>3, <2>2 DEF CooldownEnds, Current
  <2> QED BY <2>1, <2>2
<1>4. CASE RequestRefresh
  <2>1. CASE CallOnlyNoted
    BY <1>4, <2>1 DEF RequestRefresh, Current
  <2>2. CASE ~CallOnlyNoted
    BY <1>1, <1>4, <2>2 DEF RequestRefresh, Sources
  <2> QED BY <2>1, <2>2
<1>5. ASSUME NEW r \in Sources, FinishRefresh(r) PROVE Current(s)'
  <2>1. CASE r = s
    BY <1>5, <2>1, ClearedIsCurrent DEF FinishRefresh, TypeOK
  <2>2. CASE r # s
    BY <1>5, <2>2 DEF FinishRefresh, TypeOK, Current
  <2> QED BY <2>1, <2>2
<1>6. ASSUME NEW r \in Sources, NEW i \in Endpoints, Respond(r, i) PROVE Current(s)'
  <2>1. /\ \A q \in Sources, k \in Endpoints :
             <<q, k>> # <<r, i>> => got'[q][k] = got[q][k] /\ seen'[q][k] = seen[q][k]
        /\ seen'[r][i] = version
    BY <1>6 DEF Respond, TypeOK
  <2> QED BY <2>1 DEF Current
<1>7. CASE Reload
  BY <1>7, ClearedIsCurrent DEF Reload
<1>8. CASE ConfigChange \/ ModeChange \/ UNCHANGED vars
  BY <1>8 DEF ConfigChange, ModeChange, vars, Current
<1> QED BY <1>2, <1>3, <1>4, <1>5, <1>6, <1>7, <1>8 DEF Next, Refreshing

\* The end of a refresh: all its replies were good, and they are the data now.
LEMMA FinishData ==
  ASSUME TypeOK, NEW s \in Sources, FinishRefresh(s), Current(s)
  PROVE  IF ok' THEN UpToDateData' ELSE data' = data /\ version' = version
<1>1. /\ Answered(s) /\ data' = NewData(s) /\ version' = version
      /\ ok' = (Result(s) = "data")
  BY DEF FinishRefresh, traefikVars
<1>2. CASE ok'
  <2>1. \A i \in Endpoints : got[s][i] = "ok"
    BY <1>1, <1>2, ResultOfReplies
  <2>2. data' = seen[s]
    BY <1>1, <1>2 DEF NewData
  <2> QED BY <1>1, <1>2, <2>1, <2>2 DEF Current, UpToDateData
<1>3. CASE ~ok'
  BY <1>1, <1>3 DEF NewData
<1> QED BY <1>2, <1>3

\* coordinator.py:106: however polls and requested refreshes overlap, an older
\* configuration comes back only from a refresh that was under way when Traefik
\* changed; once each has ended, whatever ends well is the present one, for good.
THEOREM OldDataDiesOut == SafeSpec => [][Settling]_vars
<1>1. ASSUME TypeOK, [Next]_vars PROVE Settling
  <2> SUFFICES ASSUME version' = version PROVE Settling
    BY DEF Settling
  <2>1. ASSUME NEW s \in Sources, Current(s) PROVE Current(s)'
    BY <1>1, <2>1, CurrentStays
  <2>2. ASSUME NEW s \in Sources, FinishRefresh(s) PROVE Current(s)'
    BY <1>1, <2>2, ClearedIsCurrent DEF FinishRefresh, TypeOK
  <2>3. ASSUME NEW s \in Sources, FinishRefresh(s), Current(s), ok' PROVE UpToDateData'
    BY <1>1, <2>3, FinishData
  <2>4. ASSUME Settled PROVE UpToDateData'
    <3>1. CASE data' = data
      BY <2>4, <3>1 DEF Settled, UpToDateData
    <3>2. CASE data' = [i \in Endpoints |-> version]
      BY <3>2 DEF UpToDateData
    <3>3. ASSUME NEW s \in Sources, FinishRefresh(s) PROVE UpToDateData'
      BY <1>1, <2>4, <3>1, <3>3, FinishData DEF Settled
    <3> QED BY <1>1, <3>1, <3>2, <3>3, DataStep
  <2> QED BY <2>1, <2>2, <2>3, <2>4 DEF Settling, Settled
<1> QED BY <1>1, TypeCorrect, PTL DEF SafeSpec
=============================================================================
