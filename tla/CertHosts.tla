----------------------------- MODULE CertHosts -----------------------------
(***************************************************************************)
(* Which hostnames a certificate cycle probes: the pure part of            *)
(* CertCoordinator._collect_hosts_from_main_coordinator.                   *)
(*                                                                         *)
(* A Traefik router is reduced to what the method looks at: whether its    *)
(* name carries the @internal suffix, whether it has a usable `tls` block  *)
(* (a non-empty dict whose `domains` is a list or absent), the `main` and  *)
(* the `sans` entries of its domains, and the names its rule mentions in   *)
(* Host(`...`).  A name is whatever string the API reports; Lower maps it  *)
(* to the key the cache uses, so two names that differ in case only are    *)
(* two members of Names with the same image.                               *)
(***************************************************************************)
CONSTANTS
    Names,      \* strings that occur in routers
    Hosts,      \* lower-case host names
    Lower       \* str.lower()

ASSUME LowerAssumption == Lower \in [Names -> Hosts]

Router ==
    [internal : BOOLEAN, tls : BOOLEAN,
     mains : SUBSET Names, sans : SUBSET Names, rule : SUBSET Names]

\* api.filter_internal_items
FilterInternal(routers) == {r \in routers : ~r.internal}

\* A router without a usable tls block is skipped, its rule included.
CollectHosts(routers) ==
    LET probed == {r \in FilterInternal(routers) : r.tls}
    IN  {Lower[n] : n \in UNION {r.mains \cup r.sans \cup r.rule : r \in probed}}
=============================================================================
