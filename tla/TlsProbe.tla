------------------------------ MODULE TlsProbe ------------------------------
(***************************************************************************)
(* What a probe makes of a host over time: the handshake (tls.py), the     *)
(* coroutine that awaits it (cert_coordinator.py) and the expiry alarm     *)
(* that shows the row (binary_sensor.py).                                  *)
(*                                                                         *)
(* Time is counted in units of which PerDay make a day, and the certificate *)
(* cycle probes the host every Interval units.                             *)
(* The host is its certificate (valid until before `expiry`, signed by an  *)
(* authority Home Assistant trusts or not, readable or not) and the way    *)
(* its network fails at the moment.  The peer's certificate is verified,   *)
(* CERT_REQUIRED, by the client library during the handshake.  Whatever    *)
(* the host does, the coroutine may also give up: its deadline covers the  *)
(* wait for a thread and for the name lookup, which has no timeout, and    *)
(* the executor may refuse the job.                                        *)
(***************************************************************************)
EXTENDS Integers, Sequences

CONSTANTS
    PerDay,         \* units of time in a day
    Interval,       \* DEFAULT_TLS_CERT_COOLDOWN, six hours
    Threshold,      \* tls_warn_days
    Lifetime,       \* how long a renewed certificate lives
    MaxTime         \* bound: the time a behaviour spans

ASSUME TimeAssumption ==
    /\ PerDay \in Nat \ {0} /\ Threshold \in Nat \ {0}
    /\ Interval \in 1..(PerDay - 1)
    /\ Lifetime \in Nat /\ MaxTime \in Nat

VARIABLES
    now,        \* the clock
    expiry,     \* notAfter of the served certificate
    trusted,    \* its chain leads to an authority of the CA bundle
    cert,       \* what getpeercert() yields: "good", "empty" or "garbled"
    net,        \* the exception the network raises, or "fine"
    row,        \* cached row of the host
    probedAt    \* when that row was obtained

vars == <<now, expiry, trusted, cert, net, row, probedAt>>

-----------------------------------------------------------------------------
\* Python's exception classes: each with its ancestors, itself included.
Ancestors ==
    [TimeoutError           |-> {"TimeoutError", "OSError", "Exception"},
     gaierror               |-> {"gaierror", "OSError", "Exception"},
     ConnectionRefusedError |-> {"ConnectionRefusedError", "OSError", "Exception"},
     ConnectionResetError   |-> {"ConnectionResetError", "OSError", "Exception"},
     SSLCertVerificationError |->
        {"SSLCertVerificationError", "SSLError", "OSError", "ValueError", "Exception"},
     UnicodeError           |-> {"UnicodeError", "ValueError", "Exception"},
     RuntimeError           |-> {"RuntimeError", "Exception"}]

NetErrors == {"TimeoutError", "gaierror", "ConnectionRefusedError",
              "ConnectionResetError", "UnicodeError"}

\* Broken variant: the general clause comes first.
HandlersGeneralFirst ==
    << <<"OSError", "oserror">>, <<"TimeoutError", "timeout">>, <<"gaierror", "dns">>,
       <<"ConnectionRefusedError", "refused">>, <<"SSLError", "ssl">>,
       <<"Exception", "unknown">> >>

\* The except clauses of _fetch_cert_raw, in their order.
Handlers ==
    << <<"TimeoutError", "timeout">>, <<"gaierror", "dns">>,
       <<"ConnectionRefusedError", "refused">>, <<"OSError", "oserror">>,
       <<"SSLError", "ssl">>, <<"Exception", "unknown">> >>

\* Those of _probe, and what reaches them: the deadline of asyncio.timeout or an
\* executor that is shut down.  fetch_cert_info itself raises nothing.
ProbeHandlers == << <<"TimeoutError", "timeout">>, <<"Exception", "unreachable">> >>
Escaping == {"TimeoutError", "RuntimeError"}

\* The first clause that catches the exception gives the error its tag.
Classify(clauses, exception) ==
    LET Catching == {i \in DOMAIN clauses : clauses[i][1] \in Ancestors[exception]}
    IN  clauses[CHOOSE i \in Catching : \A j \in Catching : i <= j][2]

Error(tag) == [error |-> tag, days |-> 0]

\* (not_after - now).days: whole days, rounded down.
DaysUntilExpiry == (expiry - now) \div PerDay

\* Broken variant: the peer's certificate is not verified.
FetchCertRawUnverified ==
    IF net # "fine" THEN Error(Classify(Handlers, net))
    ELSE IF cert = "empty" THEN Error("empty")
    ELSE IF cert = "garbled" THEN Error("parse")
    ELSE [error |-> "none", days |-> DaysUntilExpiry]

\* _open_tls_connection and _fetch_cert_raw.
FetchCertRaw ==
    IF net # "fine" THEN Error(Classify(Handlers, net))
    ELSE IF ~trusted \/ expiry <= now THEN Error(Classify(Handlers, "SSLCertVerificationError"))
    ELSE IF cert = "empty" THEN Error("empty")
    ELSE IF cert = "garbled" THEN Error("parse")
    ELSE [error |-> "none", days |-> DaysUntilExpiry]

\* What _probe may return: the row of the handshake, or one of its own.
ProbeRows ==
    {FetchCertRaw} \cup {Error(Classify(ProbeHandlers, e)) : e \in Escaping}

IsError(r) == r.error # "none"

\* Broken variants: the threshold itself does not count; an error row's days do.
AlarmStrict ==
    IF IsError(row) THEN "unavailable"
    ELSE IF row.days < Threshold THEN "on" ELSE "off"

AlarmOfErrors == IF row.days <= Threshold THEN "on" ELSE "off"

\* TraefikProxyCertExpiryBinarySensor.available and is_on.
Alarm ==
    IF IsError(row) THEN "unavailable"
    ELSE IF row.days <= Threshold THEN "on" ELSE "off"

Init ==
    /\ now = 0
    /\ expiry \in 1..Lifetime
    /\ trusted = TRUE
    /\ cert = "good"
    /\ net = "fine"
    /\ row \in ProbeRows
    /\ probedAt = 0

\* The next probe is not due yet.
Tick ==
    /\ now < MaxTime
    /\ now - probedAt < Interval
    /\ now' = now + 1
    /\ UNCHANGED <<expiry, trusted, cert, net, row, probedAt>>

\* The host gets another certificate.
Renew ==
    /\ expiry' = now + Lifetime
    /\ trusted' \in BOOLEAN
    /\ cert' \in {"good", "empty", "garbled"}
    /\ UNCHANGED <<now, net, row, probedAt>>

\* Its network fails, in another way or no more.
NetChange ==
    /\ net' \in NetErrors \cup {"fine"}
    /\ UNCHANGED <<now, expiry, trusted, cert, row, probedAt>>

\* The certificate cycle probes it and publishes the row.
Probe ==
    /\ now - probedAt = Interval
    /\ row' \in ProbeRows
    /\ probedAt' = now
    /\ UNCHANGED <<now, expiry, trusted, cert, net>>

Next == Tick \/ Renew \/ NetChange \/ Probe

\* The certificate coordinator's timer fires.
Spec == Init /\ [][Next]_vars /\ WF_vars(Probe)
-----------------------------------------------------------------------------
\* Type invariant of the probed host.
TypeOK ==
    /\ now \in 0..MaxTime
    /\ expiry \in 0..(MaxTime + Lifetime)
    /\ trusted \in BOOLEAN
    /\ cert \in {"good", "empty", "garbled"}
    /\ net \in NetErrors \cup {"fine"}
    /\ row \in [error : {"none", "timeout", "dns", "refused", "unreachable",
                         "oserror", "ssl", "parse", "empty", "unknown"}, days : 0..Lifetime]
    /\ probedAt \in 0..now

\* const.py:36: a certificate that enters the warning window is alerted within
\* one interval.  While the last probe read a certificate, the alarm is on from
\* Threshold days before the expiry of the certificate now served.
WarnedInTime ==
    ~IsError(row) /\ expiry - now <= Threshold * PerDay => Alarm = "on"

\* A certificate is not renewed to an earlier expiry, so an alarm that is on
\* was right when it was computed: less than Threshold + 1 days were left.
NoFalseAlarm ==
    [][Alarm # "on" /\ Alarm' = "on" => expiry - now < (Threshold + 1) * PerDay]_vars

\* Tags that _probe gives by itself, whatever the host does.
GaveUp == {"timeout", "unreachable"}

\* The tag tells the user what failed: "refused" and "dns" are never told of anything
\* else, and a refused connection, an unknown name or a timeout of the network is told
\* as such unless _probe gave up first; it is never lost in "oserror" or "unknown".
NetworkErrorsTold ==
    [][probedAt' # probedAt =>
         /\ row'.error = "refused" => net = "ConnectionRefusedError"
         /\ row'.error = "dns" => net = "gaierror"
         /\ net = "ConnectionRefusedError" => row'.error \in {"refused"} \cup GaveUp
         /\ net = "gaierror" => row'.error \in {"dns"} \cup GaveUp
         /\ net = "TimeoutError" => row'.error \in GaveUp]_vars

-----------------------------------------------------------------------------
(* What the documentation says and the code does not do. *)

\* binary_sensor.py:414 "signed-int semantics so already-expired certs surface
\* as True": asked right after a probe, not given up, of a host that
\* is in order otherwise.
ExpiredSurfaces ==
    [][/\ probedAt' # probedAt
       /\ net = "fine" /\ trusted /\ cert = "good" /\ expiry <= now
       /\ row'.error \notin GaveUp
       => Alarm' = "on"]_vars
=============================================================================
