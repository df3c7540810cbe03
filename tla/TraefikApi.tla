----------------------------- MODULE TraefikApi -----------------------------
(***************************************************************************)
(* How api.py classifies what Traefik answers, and how fetch_all combines  *)
(* the answers to the requests it gathers.  A reply is what happens to one *)
(* request: the HTTP status, the exception of the client library, or what  *)
(* is wrong with the body.                                                 *)
(***************************************************************************)
EXTENDS Integers

AuthReplies == {"401", "403"}
ApiReplies == {"404", "500", "timeout", "connect", "bad_url"}
RawReplies == {"disconnect", "bad_json", "bad_shape"}
Replies == {"ok"} \cup AuthReplies \cup ApiReplies \cup RawReplies

\* TraefikProxyApiClient._get and the `assert isinstance` of its callers: a
\* TraefikProxyAuthError, a TraefikProxyApiError, or the exception as it came.
Get(reply) ==
    CASE reply \in AuthReplies -> "auth"
      [] reply \in ApiReplies  -> "api"
      [] reply \in RawReplies  -> "raw"
      [] OTHER                 -> "ok"

\* Broken variant: the first exception is raised, whatever it is.
FetchAllFirstError(replies) ==
    LET Failed == {i \in DOMAIN replies : Get(replies[i]) # "ok"}
    IN  IF Failed = {} THEN "ok"
        ELSE Get(replies[CHOOSE i \in Failed : \A j \in Failed : i <= j])

\* fetch_all: an authentication error in any position wins, then the first
\* other exception; a payload only when every request succeeded.
FetchAll(replies) ==
    LET Failed == {i \in DOMAIN replies : Get(replies[i]) # "ok"}
        First == CHOOSE i \in Failed : \A j \in Failed : i <= j
    IN  IF \E i \in Failed : Get(replies[i]) = "auth" THEN "auth"
        ELSE IF Failed # {} THEN Get(replies[First]) ELSE "ok"

\* TraefikProxyCoordinator._async_update_data, and what DataUpdateCoordinator
\* makes of an exception the integration did not translate.
UpdateData(outcome) ==
    CASE outcome = "auth" -> "ConfigEntryAuthFailed"
      [] outcome = "api"  -> "UpdateFailed"
      [] outcome = "raw"  -> "UpdateFailed"
      [] OTHER            -> "data"
=============================================================================
