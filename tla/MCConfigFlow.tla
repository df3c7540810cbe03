---------------------------- MODULE MCConfigFlow ----------------------------
(***************************************************************************)
(* ConfigFlow with two entries, two Traefiks on hosts of their own and two *)
(* tokens: every dialog can meet another for the same entry, the same host *)
(* or the same token.  Intervals just inside and outside the range.        *)
(***************************************************************************)
EXTENDS ConfigFlow

CONSTANTS t1, t2

MCUrls == {"http://a", "http://b", "a"}
MCMalformed == {"a"}
MCHostOf == [u \in MCUrls |-> IF u = "http://b" THEN "b" ELSE "a"]
MCFirstGood == [u \in MCUrls \ MCMalformed |-> t1]
MCFailures == {"404", "bad_json"}
MCStoredData == [url : {"http://a"}, token : {t1, t2}]
MCIntervals == {14, 300, 301}
=============================================================================
