----------------------------- MODULE CertCache -----------------------------
(***************************************************************************)
(* What the certificate coordinator promises its readers (the entities):   *)
(* a cache that changes only as a whole.  A cycle fixes a set of hosts     *)
(* when it begins; when it ends the cache becomes exactly one row per host *)
(* of that set, every row obtained by that cycle; a cycle that is cut off  *)
(* by an unload publishes nothing; and no cycle stays active for ever.     *)
(* CertCoordinator implements this specification.                          *)
(***************************************************************************)
EXTENDS Integers

CONSTANTS
    Hosts,      \* host names
    Kinds       \* kinds of row: "info" or the tag of a CertError

VARIABLES
    active,     \* a cycle is under way
    no,         \* number of cycles begun so far
    hosts,      \* hosts of the last cycle begun
    data        \* the published cache

cacheVars == <<active, no, hosts, data>>

Row == [kind : Kinds, cycle : Nat]
Empty == [h \in {} |-> [kind |-> "info", cycle |-> 0]]

Init ==
    /\ active = FALSE
    /\ no = 0
    /\ hosts = {}
    /\ data = Empty

Begin ==
    /\ ~active
    /\ active' = TRUE
    /\ no' = no + 1
    /\ hosts' \in SUBSET Hosts
    /\ UNCHANGED data

Commit ==
    /\ active
    /\ active' = FALSE
    /\ data' \in [hosts -> [kind : Kinds, cycle : {no}]]
    /\ UNCHANGED <<no, hosts>>

\* The entry is unloaded: the cache goes with its coordinator.
Discard ==
    /\ active' = FALSE
    /\ data' = Empty
    /\ UNCHANGED <<no, hosts>>

Next == Begin \/ Commit \/ Discard

SafeSpec == Init /\ [][Next]_cacheVars

Spec == SafeSpec /\ WF_cacheVars(Commit)
=============================================================================
