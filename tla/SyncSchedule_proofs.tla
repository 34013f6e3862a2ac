-------------------------- MODULE SyncSchedule_proofs --------------------------
(***************************************************************************)
(* Two runs of an integration never overlap, whatever the intervals, the    *)
(* number of worker processes, the queue and the faults.                    *)
(***************************************************************************)
EXTENDS SyncSchedule, TLAPS

\* While a run is under way its lease has at least as much time left as the
\* run has: the argument that makes a lease without an owner safe.
LeaseCovers ==
  \A t \in Tasks :
    task[t].pc \in Holding => lease + task[t].age >= LeaseTime

\* The time limit strikes before an age reaches it.
WithinLimit == \A t \in Tasks : task[t].age < TimeLimit

IInv == ScheduleTypeOK /\ WithinLimit /\ LeaseCovers /\ SingleFlight

LEMMA Bounds ==
  /\ LeaseTime \in Nat /\ LeaseTime >= TimeLimit
  /\ Cutoff \in Nat
  /\ Free \in TaskStates
<1>1. LeaseTime \in Nat /\ LeaseTime >= TimeLimit
  BY ScheduleAssumption DEF LeaseTime
<1>2. Cutoff \in Nat
  BY ScheduleAssumption DEF Cutoff
<1>3. 0 \in 0 .. TimeLimit /\ 0 \in 0 .. MaxRetries
  BY ScheduleAssumption
<1>4. Free \in TaskStates
  BY <1>3 DEF Free, TaskStates, Steps
<1> QED
  BY <1>1, <1>2, <1>4

LEMMA LeaseOutlasts ==
  ASSUME LeaseCovers, WithinLimit, ScheduleTypeOK,
         NEW t \in Tasks, task[t].pc \in Holding
  PROVE  lease > 0
<1>1. LeaseTime \in Nat /\ LeaseTime >= TimeLimit
  BY Bounds
<1>2. lease \in Nat
  BY <1>1 DEF ScheduleTypeOK
<1>3. task[t].age \in Nat
  BY ScheduleAssumption DEF ScheduleTypeOK, TaskStates
<1> QED
  BY <1>1, <1>2, <1>3, ScheduleAssumption DEF LeaseCovers, WithinLimit

LEMMA InitIInv == ScheduleInit => IInv
<1> SUFFICES ASSUME ScheduleInit PROVE IInv
  OBVIOUS
<1>1. ScheduleTypeOK
  <2>1. queue \in [0 .. MaxRetries -> Nat]
    BY DEF ScheduleInit
  <2>2. task \in [Tasks -> TaskStates]
    BY Bounds DEF ScheduleInit
  <2>3. lease \in 0 .. LeaseTime /\ sinceStart \in 0 .. Cutoff
    BY Bounds DEF ScheduleInit
  <2> QED
    BY <2>1, <2>2, <2>3 DEF ScheduleInit, ScheduleTypeOK
<1>2. WithinLimit /\ LeaseCovers /\ SingleFlight
  BY ScheduleAssumption
     DEF ScheduleInit, Free, Holding, WithinLimit, LeaseCovers, SingleFlight
<1> QED
  BY <1>1, <1>2 DEF IInv

\* A step of task t that leaves its age and everyone else alone, and neither
\* takes nor gives up the lease.
LEMMA Onward ==
  ASSUME IInv, NEW t \in Tasks, NEW pc \in Steps,
         task' = [task EXCEPT ![t].pc = pc],
         pc \in Holding => task[t].pc \in Holding,
         lease' = lease
  PROVE  WithinLimit' /\ LeaseCovers' /\ SingleFlight'
<1>1. \A u \in Tasks : /\ task'[u].age = task[u].age
                       /\ task'[u].pc \in Holding => task[u].pc \in Holding
  BY DEF IInv, ScheduleTypeOK, TaskStates
<1> QED
  BY <1>1 DEF IInv, WithinLimit, LeaseCovers, SingleFlight, LeaseTime

\* A process that becomes free, or takes a message, holds nothing.
LEMMA Reset ==
  ASSUME IInv, NEW t \in Tasks, NEW r,
         r.age = 0, r.pc \notin Holding,
         task' = [task EXCEPT ![t] = r],
         lease' = lease \/ task[t].pc \in Holding
  PROVE  WithinLimit' /\ LeaseCovers' /\ SingleFlight'
<1>1. \A u \in Tasks : u # t => task'[u] = task[u]
  BY DEF IInv, ScheduleTypeOK, TaskStates
<1>2. task'[t] = r
  BY DEF IInv, ScheduleTypeOK, TaskStates
<1>3. WithinLimit'
  BY <1>1, <1>2, ScheduleAssumption DEF IInv, WithinLimit
<1>4. SingleFlight'
  BY <1>1, <1>2 DEF IInv, SingleFlight
<1>5. LeaseCovers'
  BY <1>1, <1>2 DEF IInv, LeaseCovers, SingleFlight, LeaseTime
<1> QED
  BY <1>3, <1>4, <1>5

LEMMA NextIInv == IInv /\ [ScheduleNext]_scheduleVars => IInv'
<1> SUFFICES ASSUME IInv, [ScheduleNext]_scheduleVars PROVE IInv'
  OBVIOUS
<1>typed. /\ ScheduleTypeOK /\ Free \in TaskStates
          /\ LeaseTime \in Nat /\ Cutoff \in Nat /\ 0 \in 0 .. Cutoff
  BY Bounds DEF IInv
<1>1. ASSUME FindDue \/ Dispatch \/ DispatchUnsent \/ SyncNow
             \/ (\E n \in 0 .. MaxRetries : LoseMessage(n))
             \/ UNCHANGED scheduleVars
      PROVE  IInv'
  <2>1. ScheduleTypeOK'
    <3>1. CASE FindDue
      BY <3>1, <1>typed DEF ScheduleTypeOK, FindDue
    <3>2. CASE Dispatch \/ SyncNow
      <4>1. queue' \in [0 .. MaxRetries -> Nat]
        BY <3>2, <1>typed DEF ScheduleTypeOK, Dispatch, SyncNow, Enqueue
      <4>2. UNCHANGED <<lease, task, faults>>
        BY <3>2 DEF Dispatch, SyncNow
      <4>3. /\ status' \in {status, "queued"}
            /\ sinceStart' \in {sinceStart, 0}
            /\ due' \in {due, FALSE}
        BY <3>2 DEF Dispatch, SyncNow, Mark
      <4>4. /\ status' \in {"settled", "queued", "running"}
            /\ sinceStart' \in 0 .. Cutoff
            /\ due' \in BOOLEAN
        BY <4>3, <1>typed, Zenon DEF ScheduleTypeOK
      <4> QED
        BY <4>1, <4>2, <4>4, <1>typed DEF ScheduleTypeOK
    <3>3. CASE DispatchUnsent
      <4>1. /\ status' = "queued" /\ sinceStart' = 0 /\ due' = FALSE
            /\ UNCHANGED <<lease, queue, task>>
        BY <3>3 DEF DispatchUnsent, Mark
      <4>2. faults' \in Nat
        BY <3>3, <1>typed DEF ScheduleTypeOK, DispatchUnsent
      <4> QED
        BY <4>1, <4>2, <1>typed DEF ScheduleTypeOK
    <3>4. CASE \E n \in 0 .. MaxRetries : LoseMessage(n)
      <4> PICK n \in 0 .. MaxRetries : LoseMessage(n)
        BY <3>4
      <4> QED
        BY <1>typed DEF ScheduleTypeOK, LoseMessage
    <3>5. CASE UNCHANGED scheduleVars
      BY <3>5, <1>typed DEF ScheduleTypeOK, scheduleVars
    <3> QED
      BY <1>1, <3>1, <3>2, <3>3, <3>4, <3>5
  <2>2. UNCHANGED <<lease, task>>
    BY <1>1 DEF FindDue, Dispatch, DispatchUnsent, Mark, SyncNow, LoseMessage, scheduleVars
  <2> QED
    BY <2>1, <2>2
       DEF IInv, WithinLimit, LeaseCovers, SingleFlight, LeaseTime
<1>2. ASSUME NEW t \in Tasks, RunStep(t) PROVE IInv'
  <2>0. task[t] \in TaskStates /\ Free.pc \notin Holding /\ Free.age = 0
    BY <1>typed DEF ScheduleTypeOK, Free, Holding
  <2>1. CASE \E n \in 0 .. MaxRetries : Start(t, n)
    <3> PICK n \in 0 .. MaxRetries : Start(t, n)
      BY <2>1
    <3> DEFINE r == [pc |-> "started", age |-> 0, tries |-> n]
    <3>1. r \in TaskStates
      BY ScheduleAssumption DEF TaskStates, Steps
    <3>2. ScheduleTypeOK'
      BY <1>typed, <3>1 DEF ScheduleTypeOK, Start
    <3>3. WithinLimit' /\ LeaseCovers' /\ SingleFlight'
      BY Reset, r.pc \notin Holding DEF Start, Holding
    <3> QED
      BY <3>2, <3>3 DEF IInv
  <2>2. CASE Acquire(t)
    <3>1. \A u \in Tasks : task[u].pc \notin Holding
      BY <2>2, LeaseOutlasts, \A u \in Tasks : lease > 0 <=> lease # 0
         DEF IInv, Acquire
    <3>2. ScheduleTypeOK'
      <4>1. task' \in [Tasks -> TaskStates]
        BY <2>2, <1>typed, <2>0 DEF ScheduleTypeOK, Acquire, Goto, TaskStates, Steps
      <4>2. lease' \in 0 .. LeaseTime
        BY <2>2, Bounds DEF Acquire
      <4> QED
        BY <2>2, <4>1, <4>2, <1>typed DEF ScheduleTypeOK, Acquire
    <3>3. \A u \in Tasks : /\ task'[u].age = task[u].age
                           /\ u # t => task'[u] = task[u]
      BY <2>2, <1>typed DEF ScheduleTypeOK, TaskStates, Acquire, Goto
    <3>4. WithinLimit'
      BY <3>3 DEF IInv, WithinLimit
    <3>5. SingleFlight'
      BY <3>1, <3>3 DEF SingleFlight
    <3>6. LeaseCovers'
      <4>1. \A u \in Tasks : task[u].age \in Nat
        BY <1>typed, ScheduleAssumption DEF ScheduleTypeOK, TaskStates
      <4> QED
        BY <2>2, <4>1, <3>3, Bounds DEF Acquire, LeaseCovers, LeaseTime
    <3> QED
      BY <3>2, <3>4, <3>5, <3>6 DEF IInv
  <2>3. CASE Skip(t)
    <3>1. ScheduleTypeOK'
      BY <2>3, <1>typed DEF ScheduleTypeOK, Skip
    <3>2. WithinLimit' /\ LeaseCovers' /\ SingleFlight'
      BY <2>3, <2>0, Reset DEF Skip
    <3> QED
      BY <3>1, <3>2 DEF IInv
  <2>4. CASE Announce(t)
    <3>1. ScheduleTypeOK'
      <4>1. task' \in [Tasks -> TaskStates]
        BY <2>4, <1>typed, <2>0 DEF ScheduleTypeOK, Announce, Goto, TaskStates, Steps
      <4> QED
        BY <2>4, <4>1, <1>typed DEF ScheduleTypeOK, Announce
    <3>2. WithinLimit' /\ LeaseCovers' /\ SingleFlight'
      BY <2>4, Onward DEF Announce, Goto, Holding, Steps
    <3> QED
      BY <3>1, <3>2 DEF IInv
  <2>5. CASE ReportInventory(t)
    <3>1. ScheduleTypeOK'
      <4>1. task' \in [Tasks -> TaskStates]
        BY <2>5, <1>typed, <2>0 DEF ScheduleTypeOK, ReportInventory, Goto, TaskStates, Steps
      <4> QED
        BY <2>5, <4>1, <1>typed DEF ScheduleTypeOK, ReportInventory
    <3>2. WithinLimit' /\ LeaseCovers' /\ SingleFlight'
      BY <2>5, Onward DEF ReportInventory, Goto, Holding, Steps
    <3> QED
      BY <3>1, <3>2 DEF IInv
  <2>6. CASE Finish(t)
    <3> PICK pc \in {"saved", "failed"} : Goto(t, pc)
      BY <2>6 DEF Finish
    <3>1. ScheduleTypeOK'
      BY <2>6, <1>typed, <2>0 DEF ScheduleTypeOK, Finish, Goto, TaskStates, Steps
    <3>2. WithinLimit' /\ LeaseCovers' /\ SingleFlight'
      BY <2>6, Onward DEF Finish, Working, Goto, Holding, Steps
    <3> QED
      BY <3>1, <3>2 DEF IInv
  <2>7. CASE Release(t)
    <3>1. queue' \in [0 .. MaxRetries -> Nat]
      BY <2>7, <1>typed DEF ScheduleTypeOK, Release, Enqueue
    <3>2. ScheduleTypeOK'
      BY <2>7, <1>typed, <3>1 DEF ScheduleTypeOK, Release
    <3>3. WithinLimit' /\ LeaseCovers' /\ SingleFlight'
      BY <2>7, <2>0, Reset DEF Release, Holding
    <3> QED
      BY <3>2, <3>3 DEF IInv
  <2>8. CASE TimeOut(t) \/ Die(t)
    <3>1. ScheduleTypeOK'
      BY <2>8, <1>typed DEF ScheduleTypeOK, TimeOut, Die, Vanish
    <3>2. WithinLimit' /\ LeaseCovers' /\ SingleFlight'
      BY <2>8, <2>0, Reset DEF TimeOut, Die, Vanish
    <3> QED
      BY <3>1, <3>2 DEF IInv
  <2> QED
    BY <1>2, <2>1, <2>2, <2>3, <2>4, <2>5, <2>6, <2>7, <2>8 DEF RunStep
<1>3. ASSUME Tick PROVE IInv'
  <2>0. \A u \in Tasks : task[u] \in TaskStates /\ task[u].age \in Nat
    BY <1>typed, ScheduleAssumption DEF ScheduleTypeOK, TaskStates
  <2>1. ASSUME NEW u \in Tasks
        PROVE  /\ task'[u] \in TaskStates
               /\ task'[u].pc = task[u].pc
               /\ task'[u].age < TimeLimit
               /\ task[u].pc # "free" => task'[u].age = task[u].age + 1
    <3>1. CASE task[u].pc = "free"
      <4>1. task'[u] = task[u]
        BY <1>3, <3>1 DEF Tick
      <4> QED
        BY <3>1, <4>1, <2>0 DEF IInv, WithinLimit
    <3>2. CASE task[u].pc # "free"
      <4>1. task'[u] = [task[u] EXCEPT !.age = @ + 1]
        BY <1>3, <3>2 DEF Tick
      <4>2. task[u].age + 1 < TimeLimit
        BY <1>3, <3>2, <2>0, ScheduleAssumption DEF Tick, AtLimit
      <4> QED
        BY <4>1, <4>2, <2>0, ScheduleAssumption DEF TaskStates
    <3> QED
      BY <3>1, <3>2
  <2>2. ScheduleTypeOK'
    <3>1. lease' \in 0 .. LeaseTime /\ sinceStart' \in 0 .. Cutoff
      BY <1>3, <1>typed DEF ScheduleTypeOK, Tick
    <3>2. task' \in [Tasks -> TaskStates]
      BY <1>3, <2>1 DEF Tick
    <3> QED
      BY <1>3, <1>typed, <3>1, <3>2 DEF ScheduleTypeOK, Tick
  <2>3. WithinLimit'
    BY <2>1 DEF WithinLimit
  <2>4. SingleFlight'
    BY <2>1 DEF IInv, SingleFlight
  <2>5. LeaseCovers'
    <3> SUFFICES ASSUME NEW u \in Tasks, task'[u].pc \in Holding
                 PROVE  lease' + task'[u].age >= LeaseTime
      BY DEF LeaseCovers, LeaseTime
    <3>1. task[u].pc \in Holding /\ task'[u].age = task[u].age + 1
      BY <2>1 DEF Holding
    <3>2. lease > 0
      BY <3>1, LeaseOutlasts DEF IInv
    <3>3. lease' = lease - 1 /\ lease \in Nat
      BY <1>3, <3>2, <1>typed DEF Tick, ScheduleTypeOK
    <3>4. lease + task[u].age >= LeaseTime
      BY <3>1 DEF IInv, LeaseCovers
    <3> QED
      BY <2>0, <3>1, <3>3, <3>4, <1>typed
  <2> QED
    BY <2>2, <2>3, <2>4, <2>5 DEF IInv
<1> QED
  BY <1>1, <1>2, <1>3 DEF ScheduleNext

THEOREM Invariance == ScheduleSpec => []IInv
<1> QED
  BY InitIInv, NextIInv, PTL DEF ScheduleSpec

\* Types, and with them the bound on how long any process works: no age reaches
\* the time limit.
THEOREM TypeCorrect == ScheduleSpec => []ScheduleTypeOK
<1>1. IInv => ScheduleTypeOK
  BY DEF IInv
<1> QED
  BY <1>1, Invariance, PTL

\* Two runs of one integration never overlap: SyncLease with the worker's time
\* limit below the shortest lease.
THEOREM RunsApart == ScheduleSpec => []SingleFlight
<1>1. IInv => SingleFlight
  BY DEF IInv
<1> QED
  BY <1>1, Invariance, PTL

\* Both, for any interval, number of processes and bound on the faults.
THEOREM ScheduleCorrect == ScheduleSpec => []ScheduleInv
<1>1. ScheduleTypeOK /\ SingleFlight => ScheduleInv
  BY DEF ScheduleInv
<1> QED
  BY <1>1, TypeCorrect, RunsApart, PTL

-----------------------------------------------------------------------------
(* Not due while a run reads *)

\* While a run reads the inventory its marker, or one stored over it, is fresh:
\* nobody else settles the status, and the marker ages no faster than the run.
MarkerFresh ==
  \A t \in Tasks :
    task[t].pc = "running" =>
      status \in {"queued", "running"} /\ sinceStart <= task[t].age

FInv == IInv /\ MarkerFresh

\* A fresh marker is awaited: the time limit is below every cutoff.
LEMMA FreshAwaited ==
  ASSUME FInv, NEW t \in Tasks, task[t].pc = "running"
  PROVE  Awaited
<1>1. sinceStart <= task[t].age /\ task[t].age < TimeLimit
  BY DEF FInv, IInv, MarkerFresh, WithinLimit
<1>2. sinceStart \in Nat /\ task[t].age \in Nat
  BY Bounds, ScheduleAssumption DEF FInv, IInv, ScheduleTypeOK, TaskStates
<1>3. TimeLimit <= Cutoff
  BY ScheduleAssumption DEF Cutoff
<1> QED
  BY <1>1, <1>2, <1>3, Bounds, ScheduleAssumption DEF FInv, MarkerFresh, Awaited

LEMMA NextMarkerFresh == FInv /\ [ScheduleNext]_scheduleVars => MarkerFresh'
<1> SUFFICES ASSUME FInv, [ScheduleNext]_scheduleVars, NEW u \in Tasks, task'[u].pc = "running"
             PROVE  status' \in {"queued", "running"} /\ sinceStart' <= task'[u].age
  BY DEF MarkerFresh
<1>0. /\ task \in [Tasks -> TaskStates]
      /\ \A t \in Tasks : task[t].age \in Nat
      /\ sinceStart \in Nat
  BY Bounds, ScheduleAssumption DEF FInv, IInv, ScheduleTypeOK, TaskStates
<1>1. CASE task' = task /\ status' = status /\ sinceStart' = sinceStart
  BY <1>1 DEF FInv, MarkerFresh
<1>2. CASE Dispatch \/ DispatchUnsent
  <2>1. status' = "queued" /\ sinceStart' = 0 /\ task' = task
    BY <1>2 DEF Dispatch, DispatchUnsent, Mark
  <2> QED
    BY <1>0, <2>1
<1>3. ASSUME NEW t \in Tasks, RunStep(t)
      PROVE  status' \in {"queued", "running"} /\ sinceStart' <= task'[u].age
  <2>1. CASE (\E n \in 0 .. MaxRetries : Start(t, n)) \/ Acquire(t) \/ Skip(t)
               \/ Release(t) \/ TimeOut(t) \/ Die(t)
    <3>1. status' = status /\ sinceStart' = sinceStart
      BY <2>1 DEF Start, Acquire, Skip, Release, TimeOut, Die, Vanish
    <3>2. \E r : r.pc # "running" /\ task' = [task EXCEPT ![t] = r]
      <4>1. CASE \E n \in 0 .. MaxRetries : Start(t, n)
        BY <4>1 DEF Start
      <4>2. CASE Acquire(t)
        <5>1. task' = [task EXCEPT ![t] = [task[t] EXCEPT !.pc = "leased"]]
          BY <4>2 DEF Acquire, Goto
        <5>2. [task[t] EXCEPT !.pc = "leased"].pc = "leased"
          BY <1>0 DEF TaskStates
        <5> QED
          BY <5>1, <5>2
      <4>3. CASE Skip(t) \/ Release(t) \/ TimeOut(t) \/ Die(t)
        BY <4>3 DEF Skip, Release, TimeOut, Die, Vanish, Free
      <4> QED
        BY <2>1, <4>1, <4>2, <4>3
    <3>3. u # t /\ task'[u] = task[u]
      BY <1>0, <3>2
    <3> QED
      BY <3>1, <3>3 DEF FInv, MarkerFresh
  <2>2. CASE Announce(t)
    <3>1. status' = "running" /\ sinceStart' = 0 /\ task'[u].age = task[u].age
      BY <1>0, <2>2 DEF Announce, Goto, TaskStates
    <3> QED
      BY <1>0, <3>1
  <2>3. CASE ReportInventory(t) \/ Finish(t)
    <3>1. task[t].pc \in Holding
      BY <2>3 DEF ReportInventory, Finish, Working, Holding
    <3>2. \E pc \in {"refreshing", "saved", "failed"} : Goto(t, pc)
      BY <2>3 DEF ReportInventory, Finish
    <3>3. u # t /\ task'[u] = task[u]
      BY <1>0, <3>2 DEF Goto, TaskStates
    <3>4. task[u].pc \in Holding
      BY <3>3 DEF Holding
    <3> QED
      BY <3>1, <3>3, <3>4 DEF FInv, IInv, SingleFlight
  <2> QED
    BY <1>3, <2>1, <2>2, <2>3 DEF RunStep
<1>4. CASE Tick
  <2>1. sinceStart' <= sinceStart + 1 /\ status' = status
    BY <1>0, <1>4, Bounds DEF Tick, FInv, IInv, ScheduleTypeOK
  <2>2. task'[u] = IF task[u].pc = "free" THEN task[u] ELSE [task[u] EXCEPT !.age = @ + 1]
    BY <1>4 DEF Tick
  <2>3. task[u].pc = "running" /\ task'[u].age = task[u].age + 1
    BY <1>0, <2>2 DEF TaskStates
  <2>4. sinceStart <= task[u].age /\ status \in {"queued", "running"}
    BY <2>3 DEF FInv, MarkerFresh
  <2>5. sinceStart' \in Nat
    BY <1>0, <1>4, Bounds DEF Tick
  <2> QED
    BY <1>0, <2>1, <2>3, <2>4, <2>5
<1>5. CASE FindDue \/ SyncNow \/ (\E n \in 0 .. MaxRetries : LoseMessage(n))
             \/ UNCHANGED scheduleVars
  BY <1>1, <1>5 DEF FindDue, SyncNow, LoseMessage, scheduleVars
<1> QED
  BY <1>2, <1>3, <1>4, <1>5 DEF ScheduleNext

THEOREM MarkerInvariance == ScheduleSpec => []FInv
<1>1. ScheduleInit => FInv
  BY InitIInv DEF FInv, MarkerFresh, ScheduleInit, Free
<1>2. FInv /\ [ScheduleNext]_scheduleVars => FInv'
  BY NextIInv, NextMarkerFresh DEF FInv
<1> QED
  BY <1>1, <1>2, PTL DEF ScheduleSpec

\* The dispatcher never finds a sync due while a run of it reads the inventory,
\* for any interval, as long as the time limit is within the lease floor.
THEOREM NotDueWhileFetchingCorrect == ScheduleSpec => NotDueWhileFetching
<1>1. FInv /\ [ScheduleNext]_scheduleVars =>
        [due' /\ ~due => \A t \in Tasks : task[t].pc # "running"]_scheduleVars
  <2> SUFFICES ASSUME FInv, ScheduleNext, due', ~due, NEW t \in Tasks, task[t].pc = "running"
               PROVE  FALSE
    OBVIOUS
  <2>1. FindDue
    BY DEF ScheduleNext, RunStep, Dispatch, DispatchUnsent, Mark, SyncNow, LoseMessage, Start, Acquire,
           Skip, Announce, ReportInventory, Finish, Release, TimeOut, Die, Vanish, Tick
  <2> QED
    BY <2>1, FreshAwaited DEF FindDue
<1> QED
  BY <1>1, MarkerInvariance, PTL DEF ScheduleSpec, NotDueWhileFetching
=============================================================================
