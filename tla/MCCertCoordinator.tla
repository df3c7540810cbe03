------------------------- MODULE MCCertCoordinator -------------------------
(***************************************************************************)
(* CertCoordinator on three hosts: one name occurs in two spellings, one   *)
(* router is internal, one has no tls block.                               *)
(***************************************************************************)
EXTENDS CertCoordinator

MCNames == {"a", "A", "b", "c"}
MCHosts == {"a", "b", "c"}
MCLower == [n \in MCNames |-> IF n = "A" THEN "a" ELSE n]

R(internal, tls, mains, sans, rule) ==
    [internal |-> internal, tls |-> tls, mains |-> mains, sans |-> sans, rule |-> rule]

\* All three hosts.
Full == {R(FALSE, TRUE, {"a"}, {"b"}, {"A"}), R(FALSE, TRUE, {"c"}, {}, {})}

\* Host c is gone: its router lost its tls block, and the one that
\* still mentions it is internal.
Partial ==
    {R(FALSE, TRUE, {"A"}, {"b"}, {}), R(FALSE, FALSE, {}, {}, {"c"}),
     R(TRUE, TRUE, {"c"}, {}, {"c"})}

\* Three hosts in some cycles and two in others; the smaller instance has two
\* hosts, and sometimes none.
MCConfigs == {Full, Partial}
MCSmallConfigs == {Partial, {}}
=============================================================================
