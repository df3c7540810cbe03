--------------------------- MODULE TlsProbeProofs ---------------------------
(***************************************************************************)
(* The probe of a host for any units of time, interval, threshold and      *)
(* lifetime of certificates.                                               *)
(***************************************************************************)
EXTENDS TlsProbe, TLAPS

\* The row is never older than an interval.
RowFresh == now - probedAt <= Interval

\* No certificate is valid for longer than Lifetime from now.
LivesBounded == expiry <= now + Lifetime

\* The days of a row are whole days that the certificate served now, or an older
\* one with an earlier end, had left when the row was obtained.
DaysLeft == ~IsError(row) => row.days * PerDay <= expiry - probedAt

\* No row carries the tag of the clause that no exception reaches.
NoSslTag == row.error # "ssl"

IInv == TypeOK /\ RowFresh /\ LivesBounded /\ DaysLeft /\ NoSslTag

-----------------------------------------------------------------------------
\* Whole days, rounded down: n units are `n \div PerDay` days and less than one more.
LEMMA WholeDays ==
  ASSUME NEW n \in Int
  PROVE  /\ n \div PerDay \in Int
         /\ (n \div PerDay) * PerDay <= n
         /\ n < (n \div PerDay + 1) * PerDay
BY TimeAssumption

LEMMA Multiples ==
  ASSUME NEW a \in Int, NEW b \in Int, a * PerDay < b * PerDay
  PROVE  a < b
BY TimeAssumption

LEMMA DaysOfNat ==
  ASSUME NEW n \in Nat
  PROVE  n \div PerDay \in 0..n
BY TimeAssumption

-----------------------------------------------------------------------------
\* The except clauses.

LEMMA Clauses ==
  /\ DOMAIN Handlers = 1..6
  /\ \A i \in 1..6 : i \in {1, 2, 3, 4, 5, 6}
  /\ Handlers[1] = <<"TimeoutError", "timeout">>
  /\ Handlers[2] = <<"gaierror", "dns">>
  /\ Handlers[3] = <<"ConnectionRefusedError", "refused">>
  /\ Handlers[4] = <<"OSError", "oserror">>
  /\ Handlers[5] = <<"SSLError", "ssl">>
  /\ Handlers[6] = <<"Exception", "unknown">>
BY DEF Handlers

\* Those of _probe catch whatever escapes.
LEMMA ProbeClauses ==
  /\ DOMAIN ProbeHandlers = 1..2
  /\ \A i \in 1..2 : i \in {1, 2}
  /\ ProbeHandlers[1] = <<"TimeoutError", "timeout">>
  /\ ProbeHandlers[2] = <<"Exception", "unreachable">>
BY DEF ProbeHandlers

\* A clause is taken when it catches the exception and none before it does.
LEMMA FirstClause ==
  ASSUME NEW clauses, NEW n \in Nat, DOMAIN clauses = 1..n,
         NEW exception, NEW i \in 1..n,
         clauses[i][1] \in Ancestors[exception],
         \A j \in 1..n : j < i => clauses[j][1] \notin Ancestors[exception]
  PROVE  Classify(clauses, exception) = clauses[i][2]
<1> DEFINE Catching == {j \in DOMAIN clauses : clauses[j][1] \in Ancestors[exception]}
           first == CHOOSE k \in Catching : \A j \in Catching : k <= j
<1>1. i \in Catching /\ \A j \in Catching : i <= j
  OBVIOUS
<1>2. first \in Catching /\ \A j \in Catching : first <= j
  BY <1>1
<1>3. first = i
  BY <1>1, <1>2
<1> QED BY <1>3 DEF Classify

LEMMA FirstHandler ==
  ASSUME NEW exception, NEW i \in 1..6,
         Handlers[i][1] \in Ancestors[exception],
         \A j \in 1..6 : j < i => Handlers[j][1] \notin Ancestors[exception]
  PROVE  Classify(Handlers, exception) = Handlers[i][2]
<1>1. 6 \in Nat /\ DOMAIN Handlers = 1..6
  BY Clauses
<1> QED BY <1>1, FirstClause

LEMMA FirstProbeHandler ==
  ASSUME NEW exception, NEW i \in 1..2,
         ProbeHandlers[i][1] \in Ancestors[exception],
         \A j \in 1..2 : j < i => ProbeHandlers[j][1] \notin Ancestors[exception]
  PROVE  Classify(ProbeHandlers, exception) = ProbeHandlers[i][2]
<1>1. 2 \in Nat /\ DOMAIN ProbeHandlers = 1..2
  BY ProbeClauses
<1> QED BY <1>1, FirstClause

\* What each exception becomes.  A rejected certificate ends in "oserror", for
\* ssl.SSLError has OSError as its parent: no exception reaches the clause of its own.
LEMMA Tags ==
  /\ Classify(Handlers, "TimeoutError") = "timeout"
  /\ Classify(Handlers, "gaierror") = "dns"
  /\ Classify(Handlers, "ConnectionRefusedError") = "refused"
  /\ Classify(Handlers, "ConnectionResetError") = "oserror"
  /\ Classify(Handlers, "SSLCertVerificationError") = "oserror"
  /\ Classify(Handlers, "UnicodeError") = "unknown"
<1>1. Classify(Handlers, "TimeoutError") = Handlers[1][2]
  BY FirstHandler, Clauses DEF Ancestors
<1>2. Classify(Handlers, "gaierror") = Handlers[2][2]
  BY FirstHandler, Clauses DEF Ancestors
<1>3. Classify(Handlers, "ConnectionRefusedError") = Handlers[3][2]
  BY FirstHandler, Clauses DEF Ancestors
<1>4. Classify(Handlers, "ConnectionResetError") = Handlers[4][2]
  BY FirstHandler, Clauses DEF Ancestors
<1>5. Classify(Handlers, "SSLCertVerificationError") = Handlers[4][2]
  BY FirstHandler, Clauses DEF Ancestors
<1>6. Classify(Handlers, "UnicodeError") = Handlers[6][2]
  BY FirstHandler, Clauses DEF Ancestors
<1> QED BY <1>1, <1>2, <1>3, <1>4, <1>5, <1>6, Clauses

LEMMA ProbeTags ==
  /\ Classify(ProbeHandlers, "TimeoutError") = "timeout"
  /\ Classify(ProbeHandlers, "RuntimeError") = "unreachable"
<1>1. Classify(ProbeHandlers, "TimeoutError") = ProbeHandlers[1][2]
  BY FirstProbeHandler, ProbeClauses DEF Ancestors
<1>2. Classify(ProbeHandlers, "RuntimeError") = ProbeHandlers[2][2]
  BY FirstProbeHandler, ProbeClauses DEF Ancestors
<1> QED BY <1>1, <1>2, ProbeClauses

-----------------------------------------------------------------------------
\* What a handshake returns at a moment.

Rows == [error : {"none", "timeout", "dns", "refused", "oserror", "ssl",
                  "parse", "empty", "unknown", "unreachable"}, days : 0..Lifetime]

\* An error carries no days; a certificate that was read is valid still, and its
\* days are whole days of the time it has left.
LEMMA FetchedRow ==
  ASSUME now \in Nat, expiry \in Int, LivesBounded, net \in NetErrors \cup {"fine"}
  PROVE  /\ FetchCertRaw \in Rows
         /\ FetchCertRaw.error # "ssl"
         /\ ~IsError(FetchCertRaw) =>
              /\ net = "fine" /\ expiry > now
              /\ FetchCertRaw.days = (expiry - now) \div PerDay
<1>1. CASE net # "fine"
  <2>1. FetchCertRaw = [error |-> Classify(Handlers, net), days |-> 0]
    BY <1>1 DEF FetchCertRaw, Error
  <2>2. Classify(Handlers, net) \in {"timeout", "dns", "refused", "oserror", "unknown"}
    BY <1>1, Tags DEF NetErrors
  <2> QED BY <2>1, <2>2, TimeAssumption DEF Rows, IsError
<1>2. CASE net = "fine" /\ (~trusted \/ expiry <= now)
  <2>1. FetchCertRaw = [error |-> "oserror", days |-> 0]
    BY <1>2, Tags DEF FetchCertRaw, Error
  <2> QED BY <2>1, TimeAssumption DEF Rows, IsError
<1>3. CASE net = "fine" /\ trusted /\ expiry > now
  <2>1. expiry - now \in Nat /\ expiry - now <= Lifetime
    BY <1>3, TimeAssumption DEF LivesBounded
  <2>2. DaysUntilExpiry \in 0..Lifetime
    BY <2>1, DaysOfNat, TimeAssumption DEF DaysUntilExpiry
  <2>3. CASE cert \in {"empty", "garbled"}
    <3>1. FetchCertRaw = [error |-> "empty", days |-> 0]
          \/ FetchCertRaw = [error |-> "parse", days |-> 0]
      BY <1>3, <2>3 DEF FetchCertRaw, Error
    <3> QED BY <3>1, TimeAssumption DEF Rows, IsError
  <2>4. CASE cert \notin {"empty", "garbled"}
    <3>1. FetchCertRaw = [error |-> "none", days |-> DaysUntilExpiry]
      BY <1>3, <2>4 DEF FetchCertRaw
    <3> QED BY <1>3, <2>2, <3>1 DEF Rows, IsError, DaysUntilExpiry
  <2> QED BY <2>3, <2>4
<1> QED BY <1>1, <1>2, <1>3

\* The new row bounds the time left from below.
LEMMA FetchedDays ==
  ASSUME now \in Nat, expiry \in Int, LivesBounded, net \in NetErrors \cup {"fine"},
         ~IsError(FetchCertRaw)
  PROVE  /\ FetchCertRaw.days * PerDay <= expiry - now
         /\ expiry - now < (FetchCertRaw.days + 1) * PerDay
BY FetchedRow, WholeDays

\* Whatever the host does, a probe returns the row of the handshake or gives up.
LEMMA ProbedRow ==
  ASSUME NEW r \in ProbeRows
  PROVE  r = FetchCertRaw \/ (IsError(r) /\ r \in Rows /\ r.error \in GaveUp)
<1>1. \A e \in Escaping : Classify(ProbeHandlers, e) \in GaveUp
  BY ProbeTags DEF Escaping, GaveUp
<1> QED BY <1>1, TimeAssumption DEF ProbeRows, Error, Rows, IsError, GaveUp

-----------------------------------------------------------------------------
LEMMA InitInv == Init => IInv
<1> SUFFICES ASSUME Init PROVE IInv
  OBVIOUS
<1>1. /\ now = 0 /\ probedAt = 0 /\ expiry \in 1..Lifetime /\ net = "fine"
      /\ trusted = TRUE /\ cert = "good" /\ row \in ProbeRows
  BY DEF Init
<1>2. LivesBounded /\ RowFresh
  BY <1>1, TimeAssumption DEF LivesBounded, RowFresh
<1>3. row \in Rows /\ DaysLeft /\ NoSslTag
  BY <1>1, <1>2, ProbedRow, FetchedRow, FetchedDays DEF DaysLeft, IsError, GaveUp, NoSslTag
<1>4. TypeOK
  BY <1>1, <1>3, TimeAssumption DEF TypeOK, Rows
<1> QED BY <1>2, <1>3, <1>4 DEF IInv

LEMMA TickInv == ASSUME IInv, Tick PROVE IInv'
<1>1. /\ now \in 0..MaxTime /\ now < MaxTime /\ now - probedAt < Interval
      /\ now' = now + 1 /\ probedAt \in 0..now
      /\ UNCHANGED <<expiry, trusted, cert, net, row, probedAt>>
  BY DEF Tick, IInv, TypeOK
<1>2. TypeOK'
  BY <1>1, TimeAssumption DEF IInv, TypeOK
<1>3. RowFresh' /\ LivesBounded'
  BY <1>1, TimeAssumption DEF IInv, TypeOK, RowFresh, LivesBounded
<1>4. DaysLeft' /\ NoSslTag'
  BY <1>1 DEF IInv, DaysLeft, IsError, NoSslTag
<1> QED BY <1>2, <1>3, <1>4 DEF IInv

\* The new certificate ends no earlier than the one it replaces.
LEMMA RenewInv == ASSUME IInv, Renew PROVE IInv'
<1>1. /\ expiry' = now + Lifetime
      /\ trusted' \in BOOLEAN /\ cert' \in {"good", "empty", "garbled"}
      /\ UNCHANGED <<now, net, row, probedAt>>
  BY DEF Renew
<1>2. /\ now \in 0..MaxTime /\ probedAt \in 0..now
      /\ expiry \in Int /\ expiry <= now + Lifetime
      /\ row \in Rows
  BY DEF IInv, TypeOK, LivesBounded, Rows
<1>3. TypeOK'
  BY <1>1, <1>2, TimeAssumption DEF IInv, TypeOK
<1>4. RowFresh' /\ LivesBounded'
  BY <1>1, <1>2, TimeAssumption DEF IInv, RowFresh, LivesBounded
<1>5. DaysLeft'
  <2> SUFFICES ASSUME ~IsError(row) PROVE row.days * PerDay <= expiry' - probedAt
    BY <1>1 DEF DaysLeft, IsError
  <2>1. row.days * PerDay \in Int
    BY <1>2, TimeAssumption DEF Rows
  <2>2. row.days * PerDay <= expiry - probedAt
    BY DEF IInv, DaysLeft
  <2> QED BY <1>1, <1>2, <2>1, <2>2, TimeAssumption
<1>6. NoSslTag'
  BY <1>1 DEF IInv, NoSslTag
<1> QED BY <1>3, <1>4, <1>5, <1>6 DEF IInv

LEMMA NetChangeInv == ASSUME IInv, NetChange PROVE IInv'
BY DEF NetChange, IInv, TypeOK, RowFresh, LivesBounded, DaysLeft, IsError, NoSslTag

LEMMA ProbeInv == ASSUME IInv, Probe PROVE IInv'
<1>1. /\ row' \in ProbeRows /\ probedAt' = now
      /\ UNCHANGED <<now, expiry, trusted, cert, net>>
  BY DEF Probe
<1>2. now \in Nat /\ expiry \in Int /\ LivesBounded /\ net \in NetErrors \cup {"fine"}
  BY TimeAssumption DEF IInv, TypeOK
<1>3. row' \in Rows /\ DaysLeft' /\ NoSslTag'
  BY <1>1, <1>2, ProbedRow, FetchedRow, FetchedDays DEF DaysLeft, IsError, GaveUp, NoSslTag
<1>4. TypeOK'
  BY <1>1, <1>2, <1>3 DEF IInv, TypeOK, Rows
<1>5. RowFresh' /\ LivesBounded'
  BY <1>1, <1>2, TimeAssumption DEF RowFresh, LivesBounded
<1> QED BY <1>3, <1>4, <1>5 DEF IInv

LEMMA StutterInv == ASSUME IInv, UNCHANGED vars PROVE IInv'
BY DEF vars, IInv, TypeOK, RowFresh, LivesBounded, DaysLeft, IsError, NoSslTag

LEMMA NextInv == IInv /\ [Next]_vars => IInv'
BY TickInv, RenewInv, NetChangeInv, ProbeInv, StutterInv DEF Next

THEOREM Invariant == Spec => []IInv
BY InitInv, NextInv, PTL DEF Spec

-----------------------------------------------------------------------------
(* What the runs check with a day of eight units. *)

\* The probed host keeps its type: days are never negative nor beyond a lifetime.
THEOREM TypeCorrect == Spec => []TypeOK
<1>1. IInv => TypeOK
  BY DEF IInv
<1> QED BY <1>1, Invariant, PTL

\* const.py:36: for any interval shorter than a day, rounding the days down makes
\* up for the age of the row, so that no certificate enters the warning window
\* with its alarm off.
THEOREM AlertedInWindow == Spec => []WarnedInTime
<1>1. ASSUME IInv, ~IsError(row), expiry - now <= Threshold * PerDay
      PROVE  Alarm = "on"
  <2>1. /\ row.days \in Int /\ row.days * PerDay <= expiry - probedAt
        /\ now - probedAt <= Interval
        /\ now \in Int /\ probedAt \in Int /\ expiry \in Int
    BY <1>1, TimeAssumption DEF IInv, TypeOK, DaysLeft, RowFresh
  <2>2. row.days * PerDay <= Threshold * PerDay + Interval
    <3>1. row.days * PerDay \in Int /\ Threshold * PerDay \in Int
      BY <2>1, TimeAssumption
    <3> QED BY <1>1, <2>1, <3>1, TimeAssumption
  <2>3. row.days * PerDay < (Threshold + 1) * PerDay
    BY <2>1, <2>2, TimeAssumption
  <2>4. row.days < Threshold + 1
    BY <2>1, <2>3, Multiples, TimeAssumption
  <2> QED BY <1>1, <2>1, <2>4, TimeAssumption DEF Alarm
<1>2. IInv => WarnedInTime
  BY <1>1 DEF WarnedInTime
<1> QED BY <1>2, Invariant, PTL

\* Only a probe changes what the alarm sees.
LEMMA AlarmByProbe ==
  ASSUME [Next]_vars
  PROVE  Probe \/ (Alarm' = Alarm /\ probedAt' = probedAt)
BY DEF Next, Tick, Renew, NetChange, vars, Alarm, IsError

\* An alarm goes on only over a certificate that was read then and had less than
\* Threshold + 1 days left: neither an error nor a renewal raises it.
THEOREM AlarmRight == Spec => NoFalseAlarm
<1> DEFINE Right == Alarm # "on" /\ Alarm' = "on" => expiry - now < (Threshold + 1) * PerDay
<1>1. ASSUME IInv, Probe, Alarm' = "on" PROVE expiry - now < (Threshold + 1) * PerDay
  <2>1. now \in Nat /\ expiry \in Int /\ LivesBounded /\ net \in NetErrors \cup {"fine"}
    BY <1>1, TimeAssumption DEF IInv, TypeOK
  <2>2. row' = FetchCertRaw /\ ~IsError(row') /\ row'.days <= Threshold
    BY <1>1, ProbedRow DEF Probe, Alarm, IsError
  <2>3. ~IsError(FetchCertRaw)
    BY <2>2 DEF IsError
  <2>4. expiry - now < (row'.days + 1) * PerDay /\ row'.days \in Nat
    BY <2>1, <2>2, <2>3, FetchedRow, FetchedDays DEF Rows
  <2>5. (row'.days + 1) * PerDay <= (Threshold + 1) * PerDay
    BY <2>2, <2>4, TimeAssumption
  <2>6. (row'.days + 1) * PerDay \in Int /\ (Threshold + 1) * PerDay \in Int
    BY <2>4, TimeAssumption
  <2> QED BY <2>1, <2>4, <2>5, <2>6
<1>2. IInv /\ [Next]_vars => [Right]_vars
  BY <1>1, AlarmByProbe
<1> QED BY <1>2, Invariant, PTL DEF Spec, NoFalseAlarm

\* The order of the except clauses is right for every failure of the network, and
\* nothing but the deadline or a refused job comes between it and its tag.
THEOREM TagsRight == Spec => NetworkErrorsTold
<1> DEFINE Told == probedAt' # probedAt =>
              /\ row'.error = "refused" => net = "ConnectionRefusedError"
              /\ row'.error = "dns" => net = "gaierror"
              /\ net = "ConnectionRefusedError" => row'.error \in {"refused"} \cup GaveUp
              /\ net = "gaierror" => row'.error \in {"dns"} \cup GaveUp
              /\ net = "TimeoutError" => row'.error \in GaveUp
<1>1. ASSUME IInv, Probe PROVE Told
  <2>1. row' \in ProbeRows /\ net \in NetErrors \cup {"fine"}
    BY <1>1 DEF Probe, IInv, TypeOK
  <2>2. CASE row' # FetchCertRaw
    <3>1. row'.error \in GaveUp
      BY <2>1, <2>2, ProbedRow
    <3> QED BY <3>1 DEF GaveUp
  <2>3. CASE row' = FetchCertRaw /\ net # "fine"
    <3>1. row'.error = Classify(Handlers, net)
      BY <2>3 DEF FetchCertRaw, Error
    <3> QED BY <2>1, <2>3, <3>1, Tags DEF NetErrors, GaveUp
  <2>4. CASE row' = FetchCertRaw /\ net = "fine"
    <3>1. row'.error \in {"oserror", "empty", "parse", "none"}
      BY <2>4, Tags DEF FetchCertRaw, Error
    <3> QED BY <2>4, <3>1
  <2> QED BY <2>2, <2>3, <2>4
<1>2. IInv /\ [Next]_vars => [Told]_vars
  BY <1>1, AlarmByProbe
<1> QED BY <1>2, Invariant, PTL DEF Spec, NetworkErrorsTold

\* What is true in place of ExpiredSurfaces: a probe of an expired certificate makes
\* the alarm unavailable whatever else holds of the host, and only the next probe
\* changes that.  No probe is ever told as "ssl" (tls.py:76).
ExpiryUnavailable ==
    /\ row.error # "ssl"
    /\ probedAt' # probedAt /\ expiry <= now => Alarm' = "unavailable"
    /\ probedAt' = probedAt => Alarm' = Alarm

THEOREM ExpiredNeverOn == Spec => [][ExpiryUnavailable]_vars
<1>1. ASSUME IInv, Probe PROVE ExpiryUnavailable
  <2>1. row' \in ProbeRows /\ probedAt' = now /\ row.error # "ssl"
    BY <1>1 DEF Probe, IInv, NoSslTag
  <2>2. ASSUME expiry <= now PROVE Alarm' = "unavailable"
    <3>1. /\ now \in Nat /\ expiry \in Int /\ LivesBounded
          /\ net \in NetErrors \cup {"fine"}
      BY <1>1, TimeAssumption DEF IInv, TypeOK
    <3>2. IsError(FetchCertRaw)
      BY <2>2, <3>1, FetchedRow
    <3>3. IsError(row')
      BY <2>1, <3>2, ProbedRow
    <3> QED BY <3>3 DEF Alarm, IsError
  <2>3. probedAt' # probedAt
    BY <1>1, TimeAssumption DEF Probe, IInv, TypeOK
  <2> QED BY <2>1, <2>2, <2>3 DEF ExpiryUnavailable
<1>2. ASSUME IInv, [Next]_vars, ~Probe PROVE ExpiryUnavailable
  BY <1>2, AlarmByProbe DEF ExpiryUnavailable, IInv, NoSslTag
<1>3. IInv /\ [Next]_vars => [ExpiryUnavailable]_vars
  BY <1>1, <1>2
<1> QED BY <1>3, Invariant, PTL DEF Spec
=============================================================================
