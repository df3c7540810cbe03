-------------------------- MODULE MCMainCoordinator -------------------------
(***************************************************************************)
(* MainCoordinator with two requests per fetch: enough for every order of  *)
(* a good reply, a refused token and a failure within one refresh and      *)
(* across two that overlap.                                                *)
(***************************************************************************)
EXTENDS MainCoordinator

MCDownReplies == {"timeout", "disconnect"}
=============================================================================
