----------------------- MODULE CertCoordinatorProofs -----------------------
(***************************************************************************)
(* Theorems about CertCoordinator for every set of hosts, every router     *)
(* list, every Limit, Workers and MaxCycles.  The argument is one          *)
(* inductive invariant, IInv: the type invariant, where the coroutines can *)
(* be (Control), that a result carries the stamp of its cycle (Stamped),   *)
(* that the semaphore's queue holds exactly the waiting coroutines, each   *)
(* once (QueueSound), and the two semaphore invariants themselves.         *)
(***************************************************************************)
EXTENDS CertCoordinator, TLAPS, FiniteSetTheorems, SequenceTheorems

\* Coroutines exist only inside a running cycle of a loaded entry, and only
\* for the hosts of that cycle.
Control ==
    /\ cycle = "running" => up /\ cycleNo > 0
    /\ \A h \in Hosts : probe[h] # "none" => cycle = "running" /\ h \in hosts
    /\ cycle = "running" => \A h \in hosts : probe[h] # "none"

\* What a coroutine has, or has returned, was obtained by this cycle.
Stamped ==
    \A h \in Hosts : probe[h] \in {"answered", "done"} =>
        result[h] \in Row /\ result[h].cycle = cycleNo

\* The queue of the semaphore and the program counters say the same.
QueueSound ==
    /\ \A i \in 1..Len(waiters) : probe[waiters[i]] = "waiting"
    /\ \A h \in Hosts : probe[h] = "waiting" => \E i \in 1..Len(waiters) : waiters[i] = h
    /\ \A i, j \in 1..Len(waiters) : waiters[i] = waiters[j] => i = j

IInv ==
    /\ TypeOK /\ Control /\ Stamped /\ QueueSound
    /\ SlotsConserved /\ NoLostWakeup
-----------------------------------------------------------------------------
\* _collect_hosts_from_main_coordinator returns host names.
LEMMA CollectedAreHosts ==
    ASSUME NEW R \in RouterConfigs
    PROVE  CollectHosts(R) \in SUBSET Hosts
  <1>1. R \in SUBSET Router
    BY RouterAssumption
  <1>2. ASSUME NEW r \in R, NEW n \in r.mains \cup r.sans \cup r.rule
        PROVE  Lower[n] \in Hosts
    BY <1>1, <1>2, LowerAssumption DEF Router
  <1> QED
    BY <1>2 DEF CollectHosts, FilterInternal

\* Sets of coroutines are finite.
LEMMA HostSets ==
    ASSUME NEW S \in SUBSET Hosts
    PROVE  IsFiniteSet(S) /\ Cardinality(S) \in Nat
  BY HostsAssumption, FS_Subset, FS_CardinalityType

\* A row stamped with the current cycle is a row of the cache.
LEMMA NewRowIsRow ==
    ASSUME TypeOK, cycleNo > 0, NEW k \in Kinds
    PROVE  NewRow(k) \in Row /\ NewRow(k).cycle = cycleNo
  BY CyclesAssumption DEF TypeOK, NewRow, Row

\* Init establishes the invariant.
LEMMA InitIInv == Init => IInv
  <1> SUFFICES ASSUME Init PROVE IInv
    OBVIOUS
  <1> USE DEF Init
  <1>1. Holders = {}
    BY DEF Holders
  <1>2. TypeOK
    <2>1. data \in [{} -> Row]
      BY DEF Empty
    <2> QED
      BY <2>1, LimitAssumption, CyclesAssumption DEF TypeOK, PC
  <1>3. Control /\ Stamped /\ QueueSound /\ NoLostWakeup
    BY DEF Control, Stamped, QueueSound, NoLostWakeup
  <1>4. SlotsConserved
    BY <1>1, FS_EmptySet, LimitAssumption DEF SlotsConserved
  <1> QED
    BY <1>2, <1>3, <1>4 DEF IInv

-----------------------------------------------------------------------------
\* Leaving the semaphore, the step the whole argument is about: the slot goes
\* to the head of the queue or back to the counter, never both, never neither.
LEMMA FinishIInv ==
    ASSUME IInv, NEW h \in Hosts, probe[h] \in {"granted", "handshake", "answered"},
           NEW row \in Row, row.cycle = cycleNo, Finish(h, row), queued' \in SUBSET Job
    PROVE  IInv'
  <1> USE DEF IInv
  <1>0. /\ h \in Holders /\ Holders \in SUBSET Hosts /\ Holders' \in SUBSET Hosts
        /\ up /\ cycle = "running" /\ h \in hosts
    BY DEF Holders, Control
  <1>1. /\ result' = [result EXCEPT ![h] = row]
        /\ UNCHANGED <<routers, up, cycle, cycleNo, hosts, running, data>>
    BY DEF Finish, loopVars
  <1>2. CASE waiters = <<>>
    <2>1. /\ sem' = sem + 1
          /\ probe' = [probe EXCEPT ![h] = "done"]
          /\ waiters' = waiters
      BY <1>2 DEF Finish
    <2>2. Holders' = Holders \ {h}
      BY <2>1 DEF Holders, TypeOK
    <2>3. /\ Cardinality(Holders') = Cardinality(Holders) - 1
          /\ Cardinality(Holders') \in Nat /\ Cardinality(Holders) \in Nat
      BY <1>0, <2>2, HostSets, FS_RemoveElement
    <2>4. sem + Cardinality(Holders) = Limit
      BY <1>0 DEF SlotsConserved
    <2>5. SlotsConserved'
      BY <2>1, <2>3, <2>4, LimitAssumption DEF SlotsConserved, TypeOK
    <2>6. TypeOK'
      BY <1>1, <2>1, <2>3, <2>4, LimitAssumption DEF TypeOK, PC
    <2>7. Control' /\ Stamped'
      BY <1>0, <1>1, <2>1 DEF Control, Stamped, TypeOK
    <2>8. QueueSound' /\ NoLostWakeup'
      BY <1>2, <2>1 DEF QueueSound, NoLostWakeup, TypeOK
    <2> QED
      BY <2>5, <2>6, <2>7, <2>8
  <1>3. CASE waiters # <<>>
    <2> DEFINE g == Head(waiters)
    <2>1. /\ sem' = sem
          /\ probe' = [probe EXCEPT ![h] = "done", ![g] = "granted"]
          /\ waiters' = Tail(waiters)
      BY <1>3 DEF Finish
    <2>2. /\ g \in Hosts /\ g = waiters[1] /\ Len(waiters) > 0 /\ Len(waiters) \in Nat
          /\ waiters' \in Seq(Hosts)
          /\ Len(waiters') = Len(waiters) - 1
          /\ \A i \in 1..Len(waiters') : waiters'[i] = waiters[i + 1]
      BY <1>3, <2>1, HeadTailProperties, EmptySeq, LenProperties DEF TypeOK
    <2>3. /\ probe[g] = "waiting" /\ g # h /\ g \notin Holders
      BY <2>2 DEF QueueSound, Holders
    <2>4. Holders' = (Holders \ {h}) \cup {g}
      BY <2>1, <2>2, <2>3 DEF Holders, TypeOK
    <2>5. Cardinality(Holders') = Cardinality(Holders)
      <3>1. /\ IsFiniteSet(Holders \ {h})
            /\ Cardinality(Holders \ {h}) = Cardinality(Holders) - 1
        BY <1>0, HostSets, FS_RemoveElement
      <3>2. Cardinality(Holders') = Cardinality(Holders \ {h}) + 1
        BY <3>1, <2>3, <2>4, FS_AddElement
      <3> QED
        BY <3>1, <3>2, <1>0, HostSets
    <2>6. SlotsConserved'
      BY <1>1, <2>1, <2>5 DEF SlotsConserved
    <2>7. TypeOK'
      BY <1>1, <2>1, <2>2 DEF TypeOK, PC
    <2>8. Control'
      BY <1>0, <1>1, <2>1, <2>2, <2>3 DEF Control, TypeOK
    <2>9. Stamped'
      BY <1>1, <2>1, <2>2, <2>3 DEF Stamped, TypeOK
    <2>10. QueueSound'
      <3>1. \A i \in 1..Len(waiters') : waiters'[i] # g /\ waiters'[i] # h
        BY <2>2, <2>3 DEF QueueSound
      <3>2. \A i \in 1..Len(waiters') : probe'[waiters'[i]] = "waiting"
        BY <3>1, <2>1, <2>2 DEF QueueSound, TypeOK
      <3>3. ASSUME NEW k \in Hosts, probe'[k] = "waiting"
            PROVE  \E i \in 1..Len(waiters') : waiters'[i] = k
        <4>1. probe[k] = "waiting" /\ k # g
          BY <3>3, <2>1, <2>2 DEF TypeOK
        <4>2. PICK i \in 1..Len(waiters) : waiters[i] = k
          BY <4>1 DEF QueueSound
        <4>3. i - 1 \in 1..Len(waiters') /\ waiters'[i - 1] = k
          BY <4>1, <4>2, <2>2
        <4> QED
          BY <4>3
      <3>4. \A i, j \in 1..Len(waiters') : waiters'[i] = waiters'[j] => i = j
        BY <2>2 DEF QueueSound
      <3> QED
        BY <3>2, <3>3, <3>4 DEF QueueSound
    <2>11. NoLostWakeup'
      BY <1>1, <1>3, <2>1 DEF NoLostWakeup
    <2> QED
      BY <2>6, <2>7, <2>8, <2>9, <2>10, <2>11
  <1> QED
    BY <1>2, <1>3

-----------------------------------------------------------------------------
\* The cycle starts with every slot free and nobody in the queue.
LEMMA BeginIInv == IInv /\ BeginCycle => IInv'
  <1> SUFFICES ASSUME IInv, BeginCycle PROVE IInv'
    OBVIOUS
  <1> USE DEF IInv, BeginCycle
  <1>1. Holders = {} /\ Holders' = {}
    BY DEF Holders, Control
  <1>2. waiters = <<>>
    <2>1. Len(waiters) \in Nat /\ \A i \in 1..Len(waiters) : waiters[i] \in Hosts
      BY LenProperties, ElementOfSeq DEF TypeOK
    <2>2. ~ (1 \in 1..Len(waiters))
      BY <2>1 DEF QueueSound, Control
    <2> QED
      BY <2>1, <2>2, EmptySeq DEF TypeOK
  <1>3. hosts' \in SUBSET Hosts
    BY CollectedAreHosts DEF TypeOK
  <1>4. TypeOK'
    BY <1>3, CyclesAssumption DEF TypeOK, PC
  <1>5. Control' /\ Stamped'
    BY <1>3 DEF Control, Stamped, TypeOK
  <1>6. QueueSound' /\ NoLostWakeup'
    BY <1>2 DEF QueueSound, NoLostWakeup
  <1>7. SlotsConserved'
    BY <1>1 DEF SlotsConserved
  <1> QED
    BY <1>4, <1>5, <1>6, <1>7

\* Entering the semaphore takes a slot or a place in the queue.
LEMMA AcquireIInv == ASSUME NEW h \in Hosts, IInv, Acquire(h) PROVE IInv'
  <1> USE DEF IInv
  <1>0. /\ probe[h] = "ready" /\ h \notin Holders /\ Holders \in SUBSET Hosts
        /\ up /\ cycle = "running" /\ h \in hosts
        /\ UNCHANGED <<routers, up, cycle, cycleNo, hosts, result, queued, running, data>>
    BY DEF Acquire, Holders, Control, loopVars
  <1>1. CASE sem > 0 /\ waiters = <<>>
    <2>1. /\ sem' = sem - 1 /\ waiters' = waiters
          /\ probe' = [probe EXCEPT ![h] = "granted"]
      BY <1>1 DEF Acquire, TypeOK
    <2>2. Holders' = Holders \cup {h}
      BY <2>1 DEF Holders, TypeOK
    <2>3. Cardinality(Holders') = Cardinality(Holders) + 1 /\ Cardinality(Holders) \in Nat
      BY <1>0, <2>2, HostSets, FS_AddElement
    <2>4. SlotsConserved'
      BY <1>0, <2>1, <2>3, LimitAssumption DEF SlotsConserved, TypeOK
    <2>5. TypeOK'
      BY <1>0, <1>1, <2>1, LimitAssumption DEF TypeOK, PC
    <2>6. Control' /\ Stamped'
      BY <1>0, <2>1 DEF Control, Stamped, TypeOK
    <2>7. QueueSound' /\ NoLostWakeup'
      BY <1>0, <1>1, <2>1 DEF QueueSound, NoLostWakeup, TypeOK
    <2> QED
      BY <2>4, <2>5, <2>6, <2>7
  <1>2. CASE sem = 0 \/ waiters # <<>>
    <2>1. /\ waiters' = Append(waiters, h) /\ sem' = sem
          /\ probe' = [probe EXCEPT ![h] = "waiting"]
      BY <1>2 DEF Acquire, TypeOK
    <2>2. /\ waiters \in Seq(Hosts) /\ Len(waiters) \in Nat
          /\ waiters' \in Seq(Hosts) /\ Len(waiters') = Len(waiters) + 1
          /\ \A i \in 1..Len(waiters) : waiters'[i] = waiters[i]
          /\ waiters'[Len(waiters) + 1] = h
      BY <2>1, AppendProperties, LenProperties DEF TypeOK
    <2>3. Holders' = Holders
      BY <1>0, <2>1 DEF Holders, TypeOK
    <2>4. SlotsConserved'
      BY <1>0, <2>1, <2>3 DEF SlotsConserved
    <2>5. TypeOK'
      BY <1>0, <2>1, <2>2 DEF TypeOK, PC
    <2>6. Control' /\ Stamped'
      BY <1>0, <2>1 DEF Control, Stamped, TypeOK
    <2>7. QueueSound'
      <3>1. \A i \in 1..Len(waiters) : waiters[i] # h
        BY <1>0 DEF QueueSound
      <3>2. \A i \in 1..Len(waiters') : probe'[waiters'[i]] = "waiting"
        BY <3>1, <2>1, <2>2 DEF QueueSound, TypeOK
      <3>3. \A k \in Hosts : probe'[k] = "waiting" => \E i \in 1..Len(waiters') : waiters'[i] = k
        <4>1. ASSUME NEW k \in Hosts, probe'[k] = "waiting", k # h
              PROVE  \E i \in 1..Len(waiters') : waiters'[i] = k
          <5>1. PICK i \in 1..Len(waiters) : waiters[i] = k
            BY <4>1, <2>1 DEF QueueSound, TypeOK
          <5> QED
            BY <5>1, <2>2
        <4>2. \E i \in 1..Len(waiters') : waiters'[i] = h
          BY <2>2
        <4> QED
          BY <4>1, <4>2
      <3>4. \A i, j \in 1..Len(waiters') : waiters'[i] = waiters'[j] => i = j
        BY <3>1, <2>2 DEF QueueSound
      <3> QED
        BY <3>2, <3>3, <3>4 DEF QueueSound
    <2>8. NoLostWakeup'
      BY <1>2, <2>1 DEF NoLostWakeup
    <2> QED
      BY <2>4, <2>5, <2>6, <2>7, <2>8
  <1> QED
    BY <1>1, <1>2 DEF Acquire

\* Handing the job to the executor moves a holder to another holder's place.
LEMMA SubmitIInv == ASSUME NEW h \in Hosts, IInv, Submit(h) PROVE IInv'
  <1> USE DEF IInv, Submit, loopVars
  <1>1. Holders' = Holders
    BY DEF Holders, TypeOK
  <1>2. cycleNo \in 1..MaxCycles
    BY CyclesAssumption DEF TypeOK, Control
  <1>3. TypeOK'
    BY <1>2 DEF TypeOK, PC, Job, JobOf
  <1>4. Control' /\ Stamped'
    BY DEF Control, Stamped, TypeOK
  <1>5. QueueSound' /\ NoLostWakeup'
    BY DEF QueueSound, NoLostWakeup, TypeOK
  <1>6. SlotsConserved'
    BY <1>1 DEF SlotsConserved
  <1> QED
    BY <1>3, <1>4, <1>5, <1>6

\* The end of a cycle publishes rows of this cycle only.
LEMMA EndIInv == IInv /\ EndCycle => IInv'
  <1> SUFFICES ASSUME IInv, EndCycle PROVE IInv'
    OBVIOUS
  <1> USE DEF IInv, EndCycle
  <1>1. \A h \in hosts : h \in Hosts /\ result[h] \in Row /\ result[h].cycle = cycleNo
    BY DEF Stamped, TypeOK
  <1>2. Holders = {} /\ Holders' = {}
    BY DEF Holders, Control
  <1>3. TypeOK'
    <2>1. hosts \in SUBSET Hosts /\ data' \in [hosts -> Row]
      BY <1>1 DEF TypeOK
    <2>2. data' \in UNION {[S -> Row] : S \in SUBSET Hosts}
      BY <2>1
    <2> QED
      BY <2>2 DEF TypeOK, PC
  <1>4. Control' /\ Stamped'
    BY DEF Control, Stamped
  <1>6. \A h \in Hosts : probe[h] # "waiting"
    BY DEF Control
  <1>7. QueueSound' /\ NoLostWakeup'
    <2>1. Len(waiters) \in Nat /\ \A i \in 1..Len(waiters) : waiters[i] \in Hosts
      BY LenProperties, ElementOfSeq DEF TypeOK
    <2>2. ~ \E i \in 1..Len(waiters) : TRUE
      BY <1>6, <2>1 DEF QueueSound
    <2> QED
      BY <1>6, <2>2 DEF QueueSound, NoLostWakeup
  <1>8. SlotsConserved'
    BY <1>2 DEF SlotsConserved
  <1> QED
    BY <1>3, <1>4, <1>7, <1>8

\* A worker thread touches a coroutine only while it is awaited.
LEMMA WorkerIInv == IInv /\ Worker => IInv'
  <1> SUFFICES ASSUME IInv, Worker PROVE IInv'
    OBVIOUS
  <1> USE DEF IInv
  <1>1. ASSUME NEW j \in queued, WorkerTake(j) PROVE IInv'
    <2> USE <1>1 DEF WorkerTake, loopVars
    <2>1. Holders' = Holders
      BY DEF Holders
    <2>2. TypeOK'
      BY DEF TypeOK
    <2>3. Control' /\ Stamped' /\ QueueSound' /\ NoLostWakeup'
      BY DEF Control, Stamped, QueueSound, NoLostWakeup
    <2>4. SlotsConserved'
      BY <2>1 DEF SlotsConserved
    <2> QED
      BY <2>2, <2>3, <2>4
  <1>2. ASSUME NEW j \in running, NEW kind \in Outcomes, WorkerReturn(j, kind)
        PROVE  IInv'
    <2> DEFINE answer == [kind |-> kind, cycle |-> j.cycle]
    <2>0. /\ j.host \in Hosts /\ running' \in SUBSET Job
          /\ UNCHANGED <<routers, up, cycle, cycleNo, hosts, waiters, sem, queued, data>>
      BY <1>2 DEF WorkerReturn, loopVars, TypeOK, Job
    <2>1. CASE Awaited(j)
      <3>1. /\ probe[j.host] = "handshake"
            /\ probe' = [probe EXCEPT ![j.host] = "answered"]
            /\ result' = [result EXCEPT ![j.host] = answer]
        BY <1>2, <2>1 DEF WorkerReturn, Awaited
      <3>3. answer \in Row /\ answer.cycle = cycleNo
        BY <2>1 DEF Awaited, TypeOK, Job, Row, Kinds
      <3>4. Holders' = Holders
        BY <2>0, <3>1 DEF Holders, TypeOK
      <3>5. TypeOK'
        BY <2>0, <3>1, <3>3 DEF TypeOK, PC
      <3>6. Control'
        BY <2>0, <3>1 DEF Control, TypeOK
      <3>7. Stamped'
        BY <2>0, <3>1, <3>3 DEF Stamped, TypeOK
      <3>8. QueueSound' /\ NoLostWakeup'
        BY <2>0, <3>1 DEF QueueSound, NoLostWakeup, TypeOK
      <3>9. SlotsConserved'
        BY <2>0, <3>4 DEF SlotsConserved
      <3> QED
        BY <3>5, <3>6, <3>7, <3>8, <3>9
    <2>2. CASE ~Awaited(j)
      <3>1. UNCHANGED <<probe, result>>
        BY <1>2, <2>2 DEF WorkerReturn
      <3>2. Holders' = Holders
        BY <3>1 DEF Holders
      <3>3. TypeOK'
        BY <2>0, <3>1 DEF TypeOK
      <3>4. Control' /\ Stamped' /\ QueueSound' /\ NoLostWakeup'
        BY <2>0, <3>1 DEF Control, Stamped, QueueSound, NoLostWakeup
      <3>5. SlotsConserved'
        BY <2>0, <3>2 DEF SlotsConserved
      <3> QED
        BY <3>3, <3>4, <3>5
    <2> QED
      BY <2>1, <2>2
  <1> QED
    BY <1>1, <1>2 DEF Worker

\* Unload empties the coordinator whatever its coroutines were doing.
LEMMA UnloadIInv == IInv /\ Unload => IInv'
  <1> SUFFICES ASSUME IInv, Unload PROVE IInv'
    OBVIOUS
  <1> USE DEF IInv, Unload
  <1>1. TypeOK'
    <2>1. data' \in [{} -> Row] /\ {} \in SUBSET Hosts
      BY DEF Empty
    <2>2. data' \in UNION {[S -> Row] : S \in SUBSET Hosts}
      BY <2>1
    <2> QED
      BY <2>2, EmptySeq DEF TypeOK, PC
  <1>2. Control' /\ Stamped' /\ QueueSound' /\ NoLostWakeup' /\ SlotsConserved'
    BY DEF Control, Stamped, QueueSound, NoLostWakeup, SlotsConserved
  <1> QED
    BY <1>1, <1>2

\* A new coordinator starts with a whole semaphore.
LEMMA SetupIInv == IInv /\ Setup => IInv'
  <1> SUFFICES ASSUME IInv, Setup PROVE IInv'
    OBVIOUS
  <1> USE DEF IInv, Setup
  <1>1. cycle # "running" /\ Holders' = {}
    BY DEF Control, Holders
  <1>2. TypeOK'
    BY LimitAssumption DEF TypeOK
  <1>3. Control' /\ Stamped' /\ QueueSound'
    BY <1>1 DEF Control, Stamped, QueueSound
  <1>4. NoLostWakeup'
    <2>1. Len(waiters) \in Nat /\ \A i \in 1..Len(waiters) : waiters[i] \in Hosts
      BY LenProperties, ElementOfSeq DEF TypeOK
    <2>2. ~ (1 \in 1..Len(waiters))
      BY <1>1, <2>1 DEF QueueSound, Control
    <2>3. waiters = <<>>
      BY <2>1, <2>2, EmptySeq DEF TypeOK
    <2> QED
      BY <2>3 DEF NoLostWakeup
  <1>5. SlotsConserved'
    BY <1>1, FS_EmptySet, LimitAssumption DEF SlotsConserved
  <1> QED
    BY <1>2, <1>3, <1>4, <1>5

-----------------------------------------------------------------------------
\* IInv is inductive: one case per action.
LEMMA NextIInv == IInv /\ [Next]_vars => IInv'
  <1> SUFFICES ASSUME IInv, [Next]_vars PROVE IInv'
    OBVIOUS
  <1>1. CASE MainUpdate
    <2>1. Holders' = Holders
      BY <1>1 DEF MainUpdate, Holders
    <2>2. TypeOK'
      BY <1>1 DEF MainUpdate, IInv, TypeOK
    <2>3. Control' /\ Stamped' /\ QueueSound' /\ NoLostWakeup'
      BY <1>1 DEF MainUpdate, IInv, Control, Stamped, QueueSound, NoLostWakeup
    <2>4. SlotsConserved'
      BY <1>1, <2>1 DEF MainUpdate, IInv, SlotsConserved
    <2> QED
      BY <2>2, <2>3, <2>4 DEF IInv
  <1>2. ASSUME NEW h \in Hosts, SubmitFails(h) PROVE IInv'
    <2>1. cycleNo > 0 /\ probe[h] = "granted" /\ queued' \in SUBSET Job
      BY <1>2 DEF SubmitFails, IInv, Control, TypeOK
    <2>2. NewRow("unreachable") \in Row /\ NewRow("unreachable").cycle = cycleNo
      BY <2>1, NewRowIsRow DEF Kinds, IInv
    <2> QED
      BY <1>2, <2>1, <2>2, FinishIInv DEF SubmitFails
  <1>3. ASSUME NEW h \in Hosts, Answer(h) PROVE IInv'
    <2>1. /\ probe[h] = "answered" /\ queued' \in SUBSET Job
          /\ result[h] \in Row /\ result[h].cycle = cycleNo
      BY <1>3 DEF Answer, IInv, Stamped, TypeOK
    <2> QED
      BY <1>3, <2>1, FinishIInv DEF Answer
  <1>4. ASSUME NEW h \in Hosts, Timeout(h) PROVE IInv'
    <2>1. cycleNo > 0 /\ probe[h] \in {"handshake", "answered"} /\ queued' \in SUBSET Job
      BY <1>4 DEF Timeout, IInv, Control, TypeOK
    <2>2. NewRow("timeout") \in Row /\ NewRow("timeout").cycle = cycleNo
      BY <2>1, NewRowIsRow DEF Kinds, IInv
    <2> QED
      BY <1>4, <2>1, <2>2, FinishIInv DEF Timeout
  <1>5. CASE UNCHANGED vars
    <2>1. Holders' = Holders
      BY <1>5 DEF vars, Holders
    <2>2. TypeOK' /\ Control' /\ Stamped' /\ QueueSound'
      BY <1>5 DEF vars, IInv, TypeOK, Control, Stamped, QueueSound
    <2>3. SlotsConserved' /\ NoLostWakeup'
      BY <1>5, <2>1 DEF vars, IInv, SlotsConserved, NoLostWakeup
    <2> QED
      BY <2>2, <2>3 DEF IInv
  <1> QED
    BY <1>1, <1>2, <1>3, <1>4, <1>5, BeginIInv, AcquireIInv, SubmitIInv, EndIInv,
       WorkerIInv, UnloadIInv, SetupIInv DEF Next, Probe

\* Every reachable state of the certificate coordinator satisfies IInv.
THEOREM IInvHolds == SafeSpec => []IInv
  BY InitIInv, NextIInv, PTL DEF SafeSpec

\* Type correctness, for the __init__/_async_update_data/_probe state.
THEOREM TypeCorrect == SafeSpec => []TypeOK
  BY IInvHolds, PTL DEF IInv

\* `async with self._sem` never loses or makes up a slot, whatever mix of
\* answers, timeouts, refused jobs and hand-overs a cycle goes through.
THEOREM SemaphoreConserved == SafeSpec => []SlotsConserved
  BY IInvHolds, PTL DEF IInv

\* No coroutine waits for the semaphore while a slot is free.
THEOREM SemaphoreLive == SafeSpec => []NoLostWakeup
  BY IInvHolds, PTL DEF IInv

-----------------------------------------------------------------------------
\* Jobs are told apart by host and cycle.
LEMMA SameJob ==
    ASSUME NEW i \in Job, NEW j \in Job, i.host = j.host, i.cycle = j.cycle
    PROVE  i = j
  BY DEF Job

\* Each awaited job belongs to a coroutine of its own inside the semaphore.
LEMMA AwaitedFinite ==
    ASSUME IInv
    PROVE  LET A == {j \in queued \cup running : Awaited(j)}
           IN  /\ IsFiniteSet(A) /\ Cardinality(A) \in Nat
               /\ Cardinality(A) <= Cardinality(Holders)
               /\ A # {} => up
  <1> DEFINE A == {j \in queued \cup running : Awaited(j)}
             f == [j \in A |-> j.host]
  <1> USE DEF IInv
  <1>1. \A j \in A : /\ j.host \in Hosts /\ j \in Job
                     /\ j.cycle = cycleNo /\ probe[j.host] = "handshake"
    BY DEF Awaited, TypeOK, Job
  <1>2. f \in Injection(A, Holders)
    <2>1. f \in [A -> Holders]
      BY <1>1 DEF Holders
    <2>2. \A i, j \in A : f[i] = f[j] => i = j
      BY <1>1, SameJob
    <2> QED
      BY <2>1, <2>2 DEF Injection, IsInjective
  <1>3. IsFiniteSet(Holders) /\ Cardinality(Holders) \in Nat
    BY HostSets DEF Holders
  <1>4. IsFiniteSet(A) /\ Cardinality(A) <= Cardinality(Holders)
    BY <1>2, <1>3, FS_Injection
  <1>5. A # {} => up
    BY <1>1 DEF Control
  <1> QED
    BY <1>4, <1>5, FS_CardinalityType

\* At most Limit handshakes are awaited, whatever mix of cycles, timeouts and
\* unloads left other handshakes running.
THEOREM AwaitedWithinLimit == SafeSpec => []AwaitedBounded
  <1> DEFINE A == {j \in queued \cup running : Awaited(j)}
  <1>1. ASSUME IInv PROVE AwaitedBounded
    <2> USE <1>1 DEF IInv
    <2>1. Cardinality(A) \in Nat /\ Cardinality(A) <= Cardinality(Holders) /\ (A # {} => up)
      BY AwaitedFinite
    <2>2. CASE up
      <3>1. Cardinality(Holders) \in Nat /\ Cardinality(Holders) <= Limit
        BY <2>2, HostSets, LimitAssumption DEF SlotsConserved, TypeOK, Holders
      <3> QED
        BY <2>1, <3>1, LimitAssumption DEF AwaitedBounded
    <2>3. CASE ~up
      BY <2>1, <2>3, FS_EmptySet, LimitAssumption DEF AwaitedBounded
    <2> QED
      BY <2>2, <2>3
  <1> QED
    BY <1>1, IInvHolds, PTL

-----------------------------------------------------------------------------
(* The executor's queue. *)

\* A job in the queue is the one its coroutine awaits, and no worker has it yet.
\* Jobs are of this cycle or of an earlier one, and a coroutine whose job runs
\* in this cycle has submitted it before: it will not submit another.
JobsSound ==
    /\ NoAbandonedJob
    /\ queued \cap running = {}
    /\ \A j \in running : /\ j.cycle <= cycleNo
                          /\ j.cycle = cycleNo =>
                               probe[j.host] \notin {"ready", "waiting", "granted"}

\* While no coroutine is in its handshake the queue is empty.
LEMMA QueueEmpty ==
    ASSUME TypeOK, NoAbandonedJob, \A h \in Hosts : probe[h] # "handshake"
    PROVE  queued = {}
  BY DEF TypeOK, NoAbandonedJob, Awaited, Job

\* A coroutine leaves the semaphore: no other moves but the head of the queue.
LEMMA FinishMoves ==
    ASSUME IInv, NEW h \in Hosts, NEW row, Finish(h, row),
           probe[h] \in {"granted", "handshake", "answered"}
    PROVE  /\ probe'[h] = "done"
           /\ \A g \in Hosts : g # h /\ probe'[g] # probe[g] =>
                probe[g] = "waiting" /\ probe'[g] = "granted"
  <1> USE DEF IInv
  <1>1. waiters # <<>> => /\ Head(waiters) = waiters[1] /\ 1 \in 1..Len(waiters)
                          /\ probe[Head(waiters)] = "waiting"
    <2>1. waiters # <<>> => Head(waiters) = waiters[1] /\ 1 \in 1..Len(waiters)
      BY DEF TypeOK
    <2> QED
      BY <2>1 DEF QueueSound
  <1>2. CASE waiters = <<>>
    BY <1>2 DEF Finish, TypeOK
  <1>3. CASE waiters # <<>>
    BY <1>1, <1>3 DEF Finish, TypeOK
  <1> QED
    BY <1>2, <1>3

\* Its own job, if it has one in the executor's queue, goes.
LEMMA FinishJobs ==
    ASSUME IInv, JobsSound, NEW h \in Hosts, NEW row, Finish(h, row),
           probe[h] \in {"granted", "handshake", "answered"},
           queued' = queued \ {j \in queued : j.host = h}
    PROVE  JobsSound'
  <1> USE DEF IInv
  <1>1. UNCHANGED <<cycleNo, running>>
    BY DEF Finish, loopVars
  <1>2. \A g \in Hosts : g # h /\ probe'[g] # probe[g] =>
          probe[g] = "waiting" /\ probe'[g] = "granted"
    BY FinishMoves
  <1>3. probe'[h] = "done"
    BY FinishMoves
  <1>4. \A j \in queued \cup running : j \in Job /\ j.host \in Hosts
    BY DEF TypeOK, Job
  <1>5. NoAbandonedJob'
    BY <1>1, <1>2, <1>4 DEF JobsSound, NoAbandonedJob, Awaited
  <1> QED
    BY <1>1, <1>2, <1>3, <1>4, <1>5 DEF JobsSound

LEMMA SubmitJobs ==
    ASSUME IInv, JobsSound, NEW h \in Hosts, Submit(h) PROVE JobsSound'
  <1>1. /\ probe[h] = "granted"
        /\ probe' = [probe EXCEPT ![h] = "handshake"]
        /\ queued' = queued \cup {JobOf(h)}
        /\ UNCHANGED <<cycleNo, running>>
    BY DEF Submit, loopVars
  <1>2. \A j \in queued \cup running : j \in Job /\ j.host \in Hosts
    BY DEF IInv, TypeOK, Job
  <1>3. JobOf(h).host = h /\ JobOf(h).cycle = cycleNo /\ JobOf(h) \notin running
    BY <1>1 DEF JobOf, JobsSound
  <1> QED
    BY <1>1, <1>2, <1>3 DEF JobsSound, NoAbandonedJob, Awaited, IInv, TypeOK

LEMMA AcquireJobs ==
    ASSUME IInv, JobsSound, NEW h \in Hosts, Acquire(h) PROVE JobsSound'
  <1>1. /\ probe[h] = "ready" /\ UNCHANGED <<cycleNo, queued, running>>
        /\ probe' = [probe EXCEPT ![h] = "granted"] \/ probe' = [probe EXCEPT ![h] = "waiting"]
    BY DEF Acquire, loopVars
  <1> QED
    BY <1>1 DEF JobsSound, NoAbandonedJob, Awaited, IInv, TypeOK, Job

LEMMA WorkerJobs == ASSUME IInv, JobsSound, Worker PROVE JobsSound'
  <1> USE DEF IInv
  <1>1. ASSUME NEW j \in queued, WorkerTake(j) PROVE JobsSound'
    BY <1>1 DEF WorkerTake, loopVars, JobsSound, NoAbandonedJob, Awaited, TypeOK, Job
  <1>2. ASSUME NEW j \in running, NEW kind \in Outcomes, WorkerReturn(j, kind) PROVE JobsSound'
    <2>1. /\ UNCHANGED <<cycleNo, queued>> /\ running' = running \ {j}
          /\ probe' = probe \/ (Awaited(j) /\ probe' = [probe EXCEPT ![j.host] = "answered"])
      BY <1>2 DEF WorkerReturn, loopVars
    <2>2. \A k \in queued \cup running : k \in Job /\ k.host \in Hosts
      BY DEF TypeOK, Job
    <2>3. \A k \in queued : Awaited(j) => k.host # j.host
      BY <2>2, SameJob DEF JobsSound, NoAbandonedJob, Awaited
    <2> QED
      BY <2>1, <2>2, <2>3 DEF JobsSound, NoAbandonedJob, Awaited, TypeOK
  <1> QED
    BY <1>1, <1>2 DEF Worker

LEMMA NextJobs == ASSUME IInv, JobsSound, [Next]_vars PROVE JobsSound'
  <1> USE DEF IInv
  <1>1. CASE BeginCycle
    <2>1. queued = {}
      BY <1>1, QueueEmpty DEF BeginCycle, Control, JobsSound
    <2>2. queued' = {} /\ running' = running /\ cycleNo' = cycleNo + 1
      BY <1>1, <2>1 DEF BeginCycle
    <2>3. \A j \in running : j.cycle <= cycleNo /\ j.cycle \in Nat /\ cycleNo \in Nat
      BY CyclesAssumption DEF JobsSound, TypeOK, Job
    <2> QED
      BY <2>2, <2>3 DEF JobsSound, NoAbandonedJob
  <1>2. CASE EndCycle
    <2>1. \A h \in Hosts : probe[h] # "handshake"
      BY <1>2 DEF EndCycle, Control
    <2>2. queued = {}
      BY <2>1, QueueEmpty DEF JobsSound
    <2> QED
      BY <1>2, <2>2 DEF EndCycle, JobsSound, NoAbandonedJob, TypeOK, Job
  <1>3. CASE Unload
    BY <1>3 DEF Unload, JobsSound, NoAbandonedJob, TypeOK, Job
  <1>4. CASE Setup \/ MainUpdate \/ UNCHANGED vars
    BY <1>4 DEF Setup, MainUpdate, vars, JobsSound, NoAbandonedJob, Awaited
  <1>5. ASSUME NEW h \in Hosts, SubmitFails(h) \/ Answer(h) PROVE JobsSound'
    <2>1. /\ probe[h] \in {"granted", "answered"} /\ queued' = queued
          /\ \E row : Finish(h, row)
      BY <1>5 DEF SubmitFails, Answer
    <2>2. {j \in queued : j.host = h} = {}
      BY <2>1 DEF JobsSound, NoAbandonedJob, Awaited
    <2> QED
      BY <2>1, <2>2, FinishJobs
  <1>6. ASSUME NEW h \in Hosts, Timeout(h) PROVE JobsSound'
    <2>1. /\ probe[h] \in {"handshake", "answered"} /\ queued' = queued \ {JobOf(h)}
          /\ Finish(h, NewRow("timeout"))
      BY <1>6 DEF Timeout
    <2>2. \A j \in queued : j.host = h <=> j = JobOf(h)
      BY SameJob DEF JobsSound, NoAbandonedJob, Awaited, JobOf, TypeOK, Job
    <2>3. queued' = queued \ {j \in queued : j.host = h}
      BY <2>1, <2>2
    <2> QED
      BY <2>1, <2>3, FinishJobs
  <1> QED
    BY <1>1, <1>2, <1>3, <1>4, <1>5, <1>6, SubmitJobs, AcquireJobs, WorkerJobs
    DEF Next, Probe

\* A handshake nobody awaits any more is never started, in this cycle, a later one
\* or after an unload: what a host that hangs can take of Home Assistant's
\* executor is the threads it holds, and at most Limit places in its queue.
THEOREM QueueAwaited ==
    SafeSpec => [](NoAbandonedJob /\ Cardinality(queued) <= Limit)
  <1>1. Init => JobsSound
    BY DEF Init, JobsSound, NoAbandonedJob
  <1>2. IInv /\ JobsSound /\ [Next]_vars => JobsSound'
    BY NextJobs
  <1>3. ASSUME IInv, JobsSound, AwaitedBounded PROVE Cardinality(queued) <= Limit
    <2> DEFINE A == {j \in queued \cup running : Awaited(j)}
    <2>1. queued \subseteq A
      BY <1>3 DEF JobsSound, NoAbandonedJob
    <2>2. IsFiniteSet(A)
      BY <1>3, AwaitedFinite
    <2>3. /\ Cardinality(queued) <= Cardinality(A)
          /\ Cardinality(queued) \in Nat /\ Cardinality(A) \in Nat
      BY <2>1, <2>2, FS_Subset, FS_CardinalityType
    <2> QED
      BY <1>3, <2>3, LimitAssumption DEF AwaitedBounded
  <1>4. JobsSound => NoAbandonedJob
    BY DEF JobsSound
  <1> QED
    BY <1>1, <1>2, <1>3, <1>4, IInvHolds, AwaitedWithinLimit, PTL DEF SafeSpec

-----------------------------------------------------------------------------
(* Late answers. *)

\* A coroutine that has a row while its own handshake still runs gave up on it.
GivenUpOn ==
    \A h \in Hosts : probe[h] \in {"answered", "done"} /\ JobOf(h) \in running =>
        result[h].kind = "timeout"

\* A coroutine returns: what it returns is a timeout if its handshake still runs.
LEMMA FinishGivenUp ==
    ASSUME IInv, GivenUpOn, NEW h \in Hosts, NEW row, Finish(h, row),
           probe[h] \in {"granted", "handshake", "answered"},
           JobOf(h) \in running => row.kind = "timeout"
    PROVE  GivenUpOn'
  <1>1. /\ result' = [result EXCEPT ![h] = row]
        /\ UNCHANGED <<cycleNo, running>>
    BY DEF Finish, loopVars
  <1>2. \A g \in Hosts : g # h /\ probe'[g] \in {"answered", "done"} => probe'[g] = probe[g]
    BY FinishMoves
  <1> QED
    BY <1>1, <1>2 DEF GivenUpOn, JobOf, IInv, TypeOK

LEMMA WorkerGivenUp ==
    ASSUME IInv, JobsSound, GivenUpOn, Worker PROVE GivenUpOn'
  <1> USE DEF IInv
  <1>1. ASSUME NEW j \in queued, WorkerTake(j) PROVE GivenUpOn'
    <2>1. probe[j.host] = "handshake"
      BY <1>1 DEF JobsSound, NoAbandonedJob, Awaited
    <2> QED
      BY <1>1, <2>1 DEF WorkerTake, loopVars, GivenUpOn, JobOf
  <1>2. ASSUME NEW j \in running, NEW kind \in Outcomes, WorkerReturn(j, kind)
        PROVE  GivenUpOn'
    <2>1. running' = running \ {j} /\ cycleNo' = cycleNo
      BY <1>2 DEF WorkerReturn, loopVars
    <2>2. CASE Awaited(j)
      <3>1. JobOf(j.host) = j
        BY <2>2, SameJob DEF Awaited, JobOf, TypeOK, Job
      <3>2. \A h \in Hosts : h # j.host => probe'[h] = probe[h] /\ result'[h] = result[h]
        BY <1>2, <2>2 DEF WorkerReturn, TypeOK
      <3> QED
        BY <2>1, <3>1, <3>2 DEF GivenUpOn, JobOf
    <2>3. CASE ~Awaited(j)
      BY <1>2, <2>1, <2>3 DEF WorkerReturn, GivenUpOn, JobOf
    <2> QED
      BY <2>2, <2>3
  <1> QED
    BY <1>1, <1>2 DEF Worker

LEMMA NextGivenUp ==
    ASSUME IInv, JobsSound, GivenUpOn, [Next]_vars PROVE GivenUpOn'
  <1> USE DEF IInv
  <1>1. CASE BeginCycle \/ EndCycle \/ Unload
    BY <1>1 DEF BeginCycle, EndCycle, Unload, GivenUpOn
  <1>2. CASE Setup \/ MainUpdate \/ UNCHANGED vars
    BY <1>2 DEF Setup, MainUpdate, vars, GivenUpOn, JobOf
  <1>3. ASSUME NEW h \in Hosts, Acquire(h) \/ Submit(h) PROVE GivenUpOn'
    <2>1. /\ UNCHANGED <<cycleNo, running, result>>
          /\ \E at \in {"granted", "waiting", "handshake"} :
               probe' = [probe EXCEPT ![h] = at]
      BY <1>3 DEF Acquire, Submit, loopVars
    <2> QED
      BY <2>1 DEF GivenUpOn, JobOf, TypeOK
  <1>4. ASSUME NEW h \in Hosts, SubmitFails(h) PROVE GivenUpOn'
    <2>1. JobOf(h) \notin running
      BY <1>4 DEF SubmitFails, JobsSound, JobOf
    <2> QED
      BY <1>4, <2>1, FinishGivenUp DEF SubmitFails
  <1>5. ASSUME NEW h \in Hosts, Answer(h) PROVE GivenUpOn'
    BY <1>5, FinishGivenUp DEF Answer, GivenUpOn
  <1>6. ASSUME NEW h \in Hosts, Timeout(h) PROVE GivenUpOn'
    <2>1. NewRow("timeout").kind = "timeout"
      BY DEF NewRow
    <2> QED
      BY <1>6, <2>1, FinishGivenUp DEF Timeout
  <1> QED
    BY <1>1, <1>2, <1>3, <1>4, <1>5, <1>6, WorkerGivenUp DEF Next, Probe

\* fetch_cert_info_async: an answer that comes after its coroutine gave up is lost,
\* however many cycles and set-ups later its thread returns, also when a coroutine
\* of the same host awaits an answer of its own then.
THEOREM LateAnswersLost == SafeSpec => []NoLateAnswer
  <1>1. Init => JobsSound /\ GivenUpOn
    BY DEF Init, JobsSound, NoAbandonedJob, GivenUpOn
  <1>2. IInv /\ JobsSound /\ GivenUpOn /\ [Next]_vars => JobsSound' /\ GivenUpOn'
    BY NextJobs, NextGivenUp
  <1>3. ASSUME IInv, JobsSound, GivenUpOn PROVE NoLateAnswer
    <2> SUFFICES ASSUME NEW h \in Hosts, probe[h] \in {"answered", "done"}
                 PROVE  /\ result[h].cycle = cycleNo
                        /\ JobOf(h) \in queued \cup running => result[h].kind = "timeout"
      BY DEF NoLateAnswer
    <2>1. result[h].cycle = cycleNo
      BY <1>3 DEF IInv, Stamped
    <2>2. JobOf(h) \notin queued
      BY <1>3 DEF JobsSound, NoAbandonedJob, Awaited, JobOf
    <2> QED
      BY <1>3, <2>1, <2>2 DEF GivenUpOn
  <1> QED
    BY <1>1, <1>2, <1>3, IInvHolds, PTL DEF SafeSpec

-----------------------------------------------------------------------------
\* The detailed coordinator implements the atomic cache of CertCache (its
\* safety part; that every cycle ends is left to the model checker).
THEOREM CacheRefined == SafeSpec => Cache!SafeSpec
  <1>1. Init => Cache!Init
    BY DEF Init, Cache!Init, Empty, Cache!Empty
  <1>2. IInv /\ [Next]_vars => [Cache!Next]_Cache!cacheVars
    <2> SUFFICES ASSUME IInv, [Next]_vars PROVE [Cache!Next]_Cache!cacheVars
      OBVIOUS
    <2> USE DEF IInv, Cache!cacheVars
    <2>1. CASE BeginCycle
      <3>1. hosts' \in SUBSET Hosts
        BY <2>1, CollectedAreHosts DEF BeginCycle, TypeOK
      <3> QED
        BY <2>1, <3>1 DEF BeginCycle, Cache!Next, Cache!Begin
    <2>2. CASE EndCycle
      <3>1. \A h \in hosts : result[h] \in Row /\ result[h].cycle = cycleNo
        BY <2>2 DEF EndCycle, Stamped, TypeOK
      <3>2. \A h \in hosts : result[h] \in [kind : Kinds, cycle : {cycleNo}]
        BY <3>1 DEF Row
      <3>3. data' \in [hosts -> [kind : Kinds, cycle : {cycleNo}]]
        BY <2>2, <3>2 DEF EndCycle
      <3> QED
        BY <2>2, <3>3 DEF EndCycle, Cache!Next, Cache!Commit
    <2>3. CASE Unload
      BY <2>3 DEF Unload, Cache!Next, Cache!Discard, Empty, Cache!Empty
    <2>4. CASE MainUpdate \/ Setup
      BY <2>4 DEF MainUpdate, Setup
    <2>5. CASE \E h \in Hosts : Probe(h)
      BY <2>5 DEF Probe, Acquire, Submit, SubmitFails, Answer, Timeout, Finish, loopVars
    <2>6. CASE Worker
      BY <2>6 DEF Worker, WorkerTake, WorkerReturn, loopVars
    <2>7. CASE UNCHANGED vars
      BY <2>7 DEF vars
    <2> QED
      BY <2>1, <2>2, <2>3, <2>4, <2>5, <2>6, <2>7 DEF Next
  <1> QED
    BY <1>1, <1>2, IInvHolds, PTL DEF SafeSpec, Cache!SafeSpec
=============================================================================
