-------------------------- MODULE MCReloadRouters --------------------------
(***************************************************************************)
(* ReloadRouters with the one request that matters to it, /api/http/routers *)
(* and two configurations with different routers.                          *)
(***************************************************************************)
EXTENDS ReloadRouters

MCDownReplies == {"timeout"}
MCRouterNames == [v \in 0..MaxVersion |-> IF v = 0 THEN {"r"} ELSE {"r", "s"}]
MCDelays == {0, 4900}
MCNoDelay == {0}
=============================================================================
