----------------------------- MODULE MCTlsProbe -----------------------------
(***************************************************************************)
(* TlsProbe in units of three hours: eight a day, a probe every two, a     *)
(* threshold of one day and certificates that live two and a half days:    *)
(* long enough to see a certificate outside the warning window, inside it, *)
(* renewed and expired.                                                    *)
(***************************************************************************)
EXTENDS TlsProbe
=============================================================================
