--------------------------- MODULE MCCertEntities ---------------------------
(***************************************************************************)
(* CertEntities on two hosts: a certificate that one of the two thresholds *)
(* calls expiring and the other does not, probe failures, three cycles     *)
(* shared out between set-ups and later cycles.                            *)
(***************************************************************************)
EXTENDS CertEntities

MCHosts == {"a", "b"}
MCDays == {10}
MCThresholds == {7, 14}
=============================================================================
