-------------------------- MODULE CertCoordinator --------------------------
(***************************************************************************)
(* The certificate cycle of cert_coordinator.py: every cycle collects the  *)
(* host names of the routers the main coordinator last fetched, probes     *)
(* each of them on a worker thread behind an asyncio.Semaphore and an      *)
(* asyncio.timeout, and replaces the cache by the rows it obtained.        *)
(*                                                                         *)
(* Processes: the event loop runs one coroutine per host (`probe`) and the *)
(* cycle itself; the worker threads of the executor run the blocking       *)
(* handshakes (`queued`, `running`).  A coroutine that stops waiting for   *)
(* its thread cancels a job still in the queue, but a handshake that has   *)
(* started goes on until the socket lets go of it.                         *)
(***************************************************************************)
EXTENDS Integers, Sequences, FiniteSets, CertHosts

CONSTANTS
    RouterConfigs,  \* the router lists the main coordinator may have fetched
    Outcomes,       \* kinds of row fetch_cert_info may return
    Limit,          \* TLS_SEMAPHORE
    Workers,        \* threads of the default executor
    MaxCycles       \* bound: cycles begun in a behaviour

ASSUME RouterAssumption == RouterConfigs \subseteq SUBSET Router
ASSUME OutcomeAssumption == Outcomes \subseteq STRING
ASSUME LimitAssumption == Limit \in Nat \ {0} /\ Workers \in Nat \ {0}
ASSUME CyclesAssumption == MaxCycles \in Nat
ASSUME HostsAssumption == IsFiniteSet(Hosts)

VARIABLES
    routers,    \* entry.runtime_data.data["http_routers"]
    up,         \* the entry is loaded
    cycle,      \* "idle" or "running": _async_update_data is suspended in gather
    cycleNo,    \* cycles begun so far (stamps the jobs and the rows)
    hosts,      \* the set collected when the last cycle began
    probe,      \* where the coroutine _probe(h) is
    waiters,    \* coroutines queued on the semaphore, first come first served
    sem,        \* value of the semaphore
    result,     \* what _probe(h) has (answered) or has returned (done)
    queued,     \* executor jobs no worker has taken yet
    running,    \* handshakes that occupy a worker thread
    data        \* the cache: [host -> row]

vars == <<routers, up, cycle, cycleNo, hosts, probe, waiters, sem, result,
          queued, running, data>>
loopVars == <<routers, up, cycle, cycleNo, hosts>>

Kinds == Outcomes \cup {"timeout", "unreachable"}
Row == [kind : Kinds, cycle : 1..MaxCycles]
NoRow == [kind |-> "none", cycle |-> 0]
Job == [host : Hosts, cycle : 1..MaxCycles]
Empty == [h \in {} |-> [kind |-> "info", cycle |-> 0]]

JobOf(h) == [host |-> h, cycle |-> cycleNo]

\* A row that _probe makes itself.  One from a handshake carries the cycle of its
\* job, whichever cycle that is delivered to.
NewRow(k) == [kind |-> k, cycle |-> cycleNo]

\* Coroutines inside `async with self._sem`.
Holders == {h \in Hosts : probe[h] \in {"granted", "handshake", "answered"}}

\* Broken variant: whoever awaits the host gets the answer.
AwaitedByHost(j) == probe[j.host] = "handshake"

\* Somebody still awaits this job: its answer will be delivered.  The future of a
\* call to to_thread belongs to the coroutine that made it, here the one of its cycle.
Awaited(j) == j.cycle = cycleNo /\ probe[j.host] = "handshake"

Init ==
    /\ routers \in RouterConfigs
    /\ up = TRUE
    /\ cycle = "idle"
    /\ cycleNo = 0
    /\ hosts = {}
    /\ probe = [h \in Hosts |-> "none"]
    /\ waiters = <<>>
    /\ sem = Limit
    /\ result = [h \in Hosts |-> NoRow]
    /\ queued = {}
    /\ running = {}
    /\ data = Empty

-----------------------------------------------------------------------------
\* The main coordinator publishes another router list.
MainUpdate ==
    /\ routers' \in RouterConfigs
    /\ UNCHANGED <<up, cycle, cycleNo, hosts, probe, waiters, sem, result,
                   queued, running, data>>

\* The cycle starts: hosts are collected once, gather() makes their tasks.
BeginCycle ==
    /\ up
    /\ cycle = "idle"
    /\ cycleNo < MaxCycles
    /\ cycle' = "running"
    /\ cycleNo' = cycleNo + 1
    /\ hosts' = CollectHosts(routers)
    /\ probe' = [h \in Hosts |-> IF h \in hosts' THEN "ready" ELSE "none"]
    /\ result' = [h \in Hosts |-> NoRow]
    /\ UNCHANGED <<routers, up, waiters, sem, queued, running, data>>

\* Broken variant: the test of the semaphore is off by one.
AcquireOffByOne(h) ==
    /\ probe[h] = "ready"
    /\ sem >= 0
    /\ sem' = sem - 1
    /\ probe' = [probe EXCEPT ![h] = "granted"]
    /\ UNCHANGED <<loopVars, waiters, result, queued, running, data>>

\* asyncio.Semaphore.acquire: a free slot is taken only when nobody queues.
Acquire(h) ==
    /\ probe[h] = "ready"
    /\ \/ /\ sem > 0
          /\ waiters = <<>>
          /\ sem' = sem - 1
          /\ probe' = [probe EXCEPT ![h] = "granted"]
          /\ UNCHANGED waiters
       \/ /\ sem = 0 \/ waiters # <<>>
          /\ waiters' = Append(waiters, h)
          /\ probe' = [probe EXCEPT ![h] = "waiting"]
          /\ UNCHANGED sem
    /\ UNCHANGED <<loopVars, result, queued, running, data>>

\* asyncio.timeout is armed and to_thread hands the handshake to the executor.
Submit(h) ==
    /\ probe[h] = "granted"
    /\ probe' = [probe EXCEPT ![h] = "handshake"]
    /\ queued' = queued \cup {JobOf(h)}
    /\ UNCHANGED <<loopVars, waiters, sem, result, running, data>>

\* Broken variants: the slot is handed over and given back as well; it is given
\* back without waking the head of the queue.
FinishReleasesTwice(h, row) ==
    /\ result' = [result EXCEPT ![h] = row]
    /\ sem' = sem + 1
    /\ IF waiters = <<>>
       THEN probe' = [probe EXCEPT ![h] = "done"] /\ UNCHANGED waiters
       ELSE /\ waiters' = Tail(waiters)
            /\ probe' = [probe EXCEPT ![h] = "done", ![Head(waiters)] = "granted"]
    /\ UNCHANGED <<loopVars, running, data>>

FinishWakesNobody(h, row) ==
    /\ result' = [result EXCEPT ![h] = row]
    /\ sem' = sem + 1
    /\ probe' = [probe EXCEPT ![h] = "done"]
    /\ UNCHANGED <<loopVars, waiters, running, data>>

\* _probe(h) returns `row`; leaving `async with` passes the slot to the head
\* of the queue, or gives it back.
Finish(h, row) ==
    /\ result' = [result EXCEPT ![h] = row]
    /\ \/ /\ waiters = <<>>
          /\ sem' = sem + 1
          /\ probe' = [probe EXCEPT ![h] = "done"]
          /\ UNCHANGED waiters
       \/ /\ waiters # <<>>
          /\ waiters' = Tail(waiters)
          /\ probe' = [probe EXCEPT ![h] = "done", ![Head(waiters)] = "granted"]
          /\ UNCHANGED sem
    /\ UNCHANGED <<loopVars, running, data>>

\* The executor refuses the job (Home Assistant is stopping): `except Exception`.
SubmitFails(h) ==
    /\ probe[h] = "granted"
    /\ Finish(h, NewRow("unreachable"))
    /\ UNCHANGED queued

\* The coroutine resumes with what its thread returned.
Answer(h) ==
    /\ probe[h] = "answered"
    /\ Finish(h, result[h])
    /\ UNCHANGED queued

\* Broken variants: a timed-out coroutine leaves its slot taken; the deadline
\* works only while the job is still in the executor's queue.
TimeoutKeepsSlot(h) ==
    /\ probe[h] \in {"handshake", "answered"}
    /\ probe' = [probe EXCEPT ![h] = "done"]
    /\ result' = [result EXCEPT ![h] = NewRow("timeout")]
    /\ queued' = queued \ {JobOf(h)}
    /\ UNCHANGED <<loopVars, waiters, sem, running, data>>

TimeoutOfQueuedOnly(h) ==
    /\ JobOf(h) \in queued
    /\ Finish(h, NewRow("timeout"))
    /\ queued' = queued \ {JobOf(h)}

\* Broken variant: the job stays in the executor's queue.
TimeoutLeavesJob(h) ==
    /\ probe[h] \in {"handshake", "answered"}
    /\ Finish(h, NewRow("timeout"))
    /\ UNCHANGED queued

\* The deadline passes; an answer that arrived but was not consumed is lost.
Timeout(h) ==
    /\ probe[h] \in {"handshake", "answered"}
    /\ Finish(h, NewRow("timeout"))
    /\ queued' = queued \ {JobOf(h)}

\* Broken variant: rows that are errors are left out of the cache.
EndCycleDropsErrors ==
    /\ cycle = "running"
    /\ \A h \in hosts : probe[h] = "done"
    /\ cycle' = "idle"
    /\ data' = [h \in {g \in hosts : result[g].kind = "info"} |-> result[h]]
    /\ probe' = [h \in Hosts |-> "none"]
    /\ UNCHANGED <<routers, up, cycleNo, hosts, waiters, sem, result, queued, running>>

\* gather() has every result: the new dict replaces the cache.
EndCycle ==
    /\ cycle = "running"
    /\ \A h \in hosts : probe[h] = "done"
    /\ cycle' = "idle"
    /\ data' = [h \in hosts |-> result[h]]
    /\ probe' = [h \in Hosts |-> "none"]
    /\ UNCHANGED <<routers, up, cycleNo, hosts, waiters, sem, result, queued, running>>

\* A worker thread picks a job up.
WorkerTake(j) ==
    /\ Cardinality(running) < Workers
    /\ queued' = queued \ {j}
    /\ running' = running \cup {j}
    /\ UNCHANGED <<loopVars, probe, waiters, sem, result, data>>

\* The handshake returns; nobody listens when the coroutine gave up on it.
WorkerReturn(j, kind) ==
    /\ running' = running \ {j}
    /\ IF Awaited(j)
       THEN /\ probe' = [probe EXCEPT ![j.host] = "answered"]
            /\ result' = [result EXCEPT ![j.host] = [kind |-> kind, cycle |-> j.cycle]]
       ELSE UNCHANGED <<probe, result>>
    /\ UNCHANGED <<loopVars, waiters, sem, queued, data>>

\* Unload cancels the cycle: coroutines end, queued jobs are cancelled, the
\* coordinator and its cache are dropped; running handshakes go on.
Unload ==
    /\ up
    /\ up' = FALSE
    /\ cycle' = "idle"
    /\ probe' = [h \in Hosts |-> "none"]
    /\ waiters' = <<>>
    /\ queued' = {}
    /\ data' = Empty
    /\ UNCHANGED <<routers, cycleNo, hosts, sem, result, running>>

\* Set up again: a new coordinator with a semaphore of its own.
Setup ==
    /\ ~up
    /\ up' = TRUE
    /\ sem' = Limit
    /\ UNCHANGED <<routers, cycle, cycleNo, hosts, probe, waiters, result,
                   queued, running, data>>

Probe(h) == Acquire(h) \/ Submit(h) \/ SubmitFails(h) \/ Answer(h) \/ Timeout(h)
Worker ==
    \/ \E j \in queued : WorkerTake(j)
    \/ \E j \in running, kind \in Outcomes : WorkerReturn(j, kind)

Next ==
    \/ MainUpdate \/ BeginCycle \/ EndCycle \/ Unload \/ Setup
    \/ \E h \in Hosts : Probe(h)
    \/ Worker

(***************************************************************************)
(* The event loop runs every callback that is due: coroutine steps, timers *)
(* and the end of gather().  Nothing is assumed of the worker threads (a   *)
(* handshake may hang for ever), of the main coordinator, or of the user   *)
(* who unloads and reloads the entry.                                      *)
(***************************************************************************)
Fairness ==
    /\ \A h \in Hosts : WF_vars(Acquire(h))
    /\ \A h \in Hosts : WF_vars(Submit(h) \/ SubmitFails(h))
    /\ \A h \in Hosts : WF_vars(Answer(h) \/ Timeout(h))
    /\ WF_vars(EndCycle)

SafeSpec == Init /\ [][Next]_vars
Spec == SafeSpec /\ Fairness
-----------------------------------------------------------------------------
PC == {"none", "ready", "waiting", "granted", "handshake", "answered", "done"}

\* Type invariant of the coordinator's state, the semaphore's bounds included.
TypeOK ==
    /\ routers \in RouterConfigs
    /\ up \in BOOLEAN
    /\ cycle \in {"idle", "running"}
    /\ cycleNo \in 0..MaxCycles
    /\ hosts \in SUBSET Hosts
    /\ probe \in [Hosts -> PC]
    /\ waiters \in Seq(Hosts)
    /\ sem \in 0..Limit
    /\ result \in [Hosts -> Row \cup {NoRow}]
    /\ queued \in SUBSET Job
    /\ running \in SUBSET Job
    /\ data \in UNION {[S -> Row] : S \in SUBSET Hosts}

\* No slot of the semaphore is lost or made up: while an entry is loaded the
\* free slots and the coroutines inside `async with self._sem` add up to
\* Limit, whatever mix of answers, timeouts, failures and hand-overs happened.
SlotsConserved == up => sem + Cardinality(Holders) = Limit

\* No lost wake-up: a coroutine waits for the semaphore only while every
\* slot is taken.
NoLostWakeup == waiters # <<>> => sem = 0

\* The bound the semaphore does give: at most Limit handshakes are awaited.
AwaitedBounded == Cardinality({j \in queued \cup running : Awaited(j)}) <= Limit

\* The executor is shared with the rest of Home Assistant: a handshake that has
\* not started by the time its coroutine gives up, or is cancelled by an unload,
\* never starts.  Only running ones are left over.
NoAbandonedJob == \A j \in queued : Awaited(j)

\* A late answer gets nowhere: what a coroutine has got, or returns to the cycle,
\* is of its own handshake and not of one that an earlier cycle or an entry unloaded
\* since gave up on.  While its own still occupies a thread that can only be a timeout.
NoLateAnswer ==
    \A h \in Hosts : probe[h] \in {"answered", "done"} =>
        /\ result[h].cycle = cycleNo
        /\ JobOf(h) \in queued \cup running => result[h].kind = "timeout"

\* A host that hangs cannot stall the cycle: every cycle ends, with no
\* assumption on the worker threads.
CycleEnds == (cycle = "running") ~> (cycle = "idle")

\* The cache the entities read is the one CertCache describes.
Cache == INSTANCE CertCache WITH active <- cycle = "running", no <- cycleNo
CacheSpec == Cache!Spec

-----------------------------------------------------------------------------
(* What the documentation says and the code does not do. *)

\* const.py:32 "TLS_SEMAPHORE bounds concurrent handshakes to 4".
HandshakesBounded == Cardinality(running) <= Limit
=============================================================================
