-------------------------- MODULE MCRouterEntities --------------------------
(***************************************************************************)
(* RouterEntities on a router, a service and an internal entrypoint that   *)
(* come and go, two middlewares and an internal one; a status ("paused")   *)
(* that the integration does not know, and items without any.              *)
(***************************************************************************)
EXTENDS RouterEntities

MCItems == {"r", "s", "e@internal", "m", "n", "m@internal"}
MCInternal == {"e@internal", "m@internal"}
MCKindOf == [i \in MCItems |-> CASE i = "r" -> "router" [] i = "s" -> "service"
                                 [] i = "e@internal" -> "entrypoint" [] OTHER -> "middleware"]
MCStatuses == {"enabled", "disabled", "warning", "paused", "unknown"}
MCMiddlewares ==
    {<<"enabled", "enabled", "enabled">>, <<"enabled", "enabled", "disabled">>,
     <<"warning", "disabled", "enabled">>, <<"paused", "unknown", "enabled">>}
MCPayloads ==
    {[i \in MCItems |-> CASE i = "r" -> r [] i = "s" -> s [] i = "e@internal" -> e
                          [] i = "m" -> ms[1] [] i = "n" -> ms[2] [] OTHER -> ms[3]] :
        r \in {"enabled", "warning", "unknown", "absent"},
        s \in {"enabled", "disabled", "absent"},
        e \in {"enabled", "absent"}, ms \in MCMiddlewares}
=============================================================================
