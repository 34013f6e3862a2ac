----------------------------- MODULE SyncSchedule -----------------------------
(***************************************************************************)
(* When one client integration is synchronized: Celery Beat's dispatcher,   *)
(* the "sync now" request, the task queue, the worker's processes with      *)
(* their time limit, and the database lease that should keep two runs from  *)
(* overlapping.  The lease names no owner; whoever finishes releases it.    *)
(* Times are ages and remainders, so a behaviour may run for ever.          *)
(***************************************************************************)
EXTENDS Naturals

CONSTANTS
  Tasks,      \* worker processes that may execute the task
  Interval,   \* effective_sync_interval_seconds
  Floor,      \* the 300 seconds below which no lease and no cutoff goes
  TimeLimit,  \* CELERY_TASK_TIME_LIMIT
  Installed,  \* the provider has an adapter (else the InnovateMR path)
  MaxQueue,   \* bound: messages of one retry count waiting
  MaxRetries, \* autoretry_for's max_retries
  MaxFaults   \* bound: messages lost and processes killed early

ASSUME ScheduleAssumption ==
  /\ Interval \in Nat \ {0}
  /\ Floor \in Nat \ {0}
  /\ TimeLimit \in Nat \ {0}
  /\ TimeLimit <= Floor
  /\ Installed \in BOOLEAN
  /\ MaxQueue \in Nat
  /\ MaxRetries \in Nat
  /\ MaxFaults \in Nat

\* Faulty variants, here and below, are what the mutation runs put in place of
\* the definition that follows them.

\* Faulty: the lease lasts one interval.
LeaseOfInterval == Interval

LeaseTime == IF Floor > Interval THEN Floor ELSE Interval
Cutoff    == IF Floor > 3 * Interval THEN Floor ELSE 3 * Interval

VARIABLES
  lease,       \* time until SyncLease.locked_until
  status,      \* last_sync_status; "settled" is any but queued and running
  sinceStart,  \* age of last_sync_started_at, up to Cutoff
  due,         \* the dispatcher found the sync due and has not marked it
  queue,       \* messages waiting, by retry count
  task,        \* what each worker process does
  faults       \* messages lost and processes killed so far

scheduleVars == <<lease, status, sinceStart, due, queue, task, faults>>

\* "leased" has the lease and has not announced itself; "refreshing" has stored
\* the inventory's result and refreshes details; "saved" and "failed" have stored
\* the run's result and not yet released the lease.
Steps   == {"free", "started", "leased", "running", "refreshing", "saved", "failed"}
Working == {"running", "refreshing"}
Holding == {"leased", "running", "refreshing", "saved", "failed"}

TaskStates == [pc : Steps, age : 0 .. TimeLimit, tries : 0 .. MaxRetries]

ScheduleTypeOK ==
  /\ lease \in 0 .. LeaseTime
  /\ status \in {"settled", "queued", "running"}
  /\ sinceStart \in 0 .. Cutoff
  /\ due \in BOOLEAN
  /\ queue \in [0 .. MaxRetries -> Nat]
  /\ task \in [Tasks -> TaskStates]
  /\ faults \in Nat

Free == [pc |-> "free", age |-> 0, tries |-> 0]

ScheduleInit ==
  /\ lease = 0
  /\ status = "settled"
  /\ sinceStart = Cutoff
  /\ due = FALSE
  /\ queue = [n \in 0 .. MaxRetries |-> 0]
  /\ task = [t \in Tasks |-> Free]
  /\ faults = 0

Goto(t, pc) == task' = [task EXCEPT ![t].pc = pc]

-----------------------------------------------------------------------------
(* Queueing *)

\* Faulty: a stale marker is never let through.
AwaitedForEver == status \in {"queued", "running"}

\* Faulty: only a queued sync is awaited.
AwaitedWhileQueued == status = "queued" /\ sinceStart < Cutoff

\* A sync that is queued or running, unless its marker is stale.
Awaited == status \in {"queued", "running"} /\ sinceStart < Cutoff

Enqueue(n) ==
  /\ queue[n] < MaxQueue
  /\ queue' = [queue EXCEPT ![n] = @ + 1]

\* dispatch_due_integrations_task reads the row and finds the sync due.
FindDue ==
  /\ ~due
  /\ ~Awaited
  /\ sinceStart >= Interval
  /\ due' = TRUE
  /\ UNCHANGED <<lease, status, sinceStart, queue, task, faults>>

\* It stores the marker, whatever the row holds by now ...
Mark ==
  /\ due
  /\ due' = FALSE
  /\ status' = "queued"
  /\ sinceStart' = 0

\* ... and sends the message.
Dispatch ==
  /\ Mark
  /\ Enqueue(0)
  /\ UNCHANGED <<lease, task, faults>>

\* The broker refuses the message after the marker has been stored.
DispatchUnsent ==
  /\ Mark
  /\ faults < MaxFaults
  /\ faults' = faults + 1
  /\ UNCHANGED <<lease, queue, task>>

\* POST .../sync-now/ and the sync trigger queue the task without a marker.
SyncNow ==
  /\ Enqueue(0)
  /\ UNCHANGED <<due, lease, status, sinceStart, task, faults>>

LoseMessage(n) ==
  /\ queue[n] > 0
  /\ faults < MaxFaults
  /\ queue' = [queue EXCEPT ![n] = @ - 1]
  /\ faults' = faults + 1
  /\ UNCHANGED <<due, lease, status, sinceStart, task>>

-----------------------------------------------------------------------------
(* The task *)

\* The message is acknowledged when a process takes it.
Start(t, n) ==
  /\ task[t].pc = "free"
  /\ queue[n] > 0
  /\ queue' = [queue EXCEPT ![n] = @ - 1]
  /\ task' = [task EXCEPT ![t] = [pc |-> "started", age |-> 0, tries |-> n]]
  /\ UNCHANGED <<due, lease, status, sinceStart, faults>>

\* SyncLease.acquire, or "previous integration sync is still running".
Acquire(t) ==
  /\ task[t].pc = "started"
  /\ lease = 0
  /\ lease' = LeaseTime
  /\ Goto(t, "leased")
  /\ UNCHANGED <<due, status, sinceStart, queue, faults>>

Skip(t) ==
  /\ task[t].pc = "started"
  /\ lease > 0
  /\ task' = [task EXCEPT ![t] = Free]
  /\ UNCHANGED <<due, lease, status, sinceStart, queue, faults>>

Announce(t) ==
  /\ task[t].pc = "leased"
  /\ status' = "running"
  /\ sinceStart' = 0
  /\ Goto(t, "running")
  /\ UNCHANGED <<due, lease, queue, faults>>

\* sync_client_integration stores the inventory result; the task then goes on
\* to refresh details.
ReportInventory(t) ==
  /\ Installed
  /\ task[t].pc = "running"
  /\ status' = "settled"
  /\ Goto(t, "refreshing")
  /\ UNCHANGED <<due, lease, sinceStart, queue, faults>>

\* The result is stored in one transaction ...
Finish(t) ==
  /\ task[t].pc \in Working
  /\ status' = "settled"
  /\ \E pc \in {"saved", "failed"} : Goto(t, pc)
  /\ UNCHANGED <<due, lease, sinceStart, queue, faults>>

\* ... and SyncLease.release is another, before a failed task is retried.
Release(t) ==
  /\ task[t].pc \in {"saved", "failed"}
  /\ lease' = 0
  /\ task' = [task EXCEPT ![t] = Free]
  /\ IF task[t].pc = "failed" /\ task[t].tries < MaxRetries
       THEN Enqueue(task[t].tries + 1)
       ELSE UNCHANGED queue
  /\ UNCHANGED <<due, status, sinceStart, faults>>

\* Nothing is stored, nothing is released and nothing is retried.
Vanish(t) ==
  /\ task' = [task EXCEPT ![t] = Free]
  /\ UNCHANGED <<due, lease, status, sinceStart, queue>>

AtLimit(t) == task[t].age + 1 >= TimeLimit

\* A run that its provider keeps waiting is killed at the time limit.
TimeOut(t) ==
  /\ task[t].pc \in Working
  /\ AtLimit(t)
  /\ Vanish(t)
  /\ UNCHANGED faults

\* A deployment, a crash or the limit itself ends a process at any step.
Die(t) ==
  /\ task[t].pc # "free"
  /\ faults < MaxFaults
  /\ faults' = faults + 1
  /\ Vanish(t)

\* Time passes; a process that reaches its limit is dead by then, and the
\* dispatcher is through its rows within a unit of time.
Tick ==
  /\ ~due
  /\ \A t \in Tasks : task[t].pc # "free" => ~AtLimit(t)
  /\ lease' = IF lease > 0 THEN lease - 1 ELSE 0
  /\ sinceStart' = IF sinceStart < Cutoff THEN sinceStart + 1 ELSE Cutoff
  /\ task' = [t \in Tasks |->
                IF task[t].pc = "free" THEN task[t]
                ELSE [task[t] EXCEPT !.age = @ + 1]]
  /\ UNCHANGED <<due, status, queue, faults>>

-----------------------------------------------------------------------------

RunStep(t) ==
  \/ \E n \in 0 .. MaxRetries : Start(t, n)
  \/ Acquire(t)
  \/ Skip(t)
  \/ Announce(t)
  \/ ReportInventory(t)
  \/ Finish(t)
  \/ Release(t)
  \/ TimeOut(t)
  \/ Die(t)

ScheduleNext ==
  \/ FindDue
  \/ Dispatch
  \/ DispatchUnsent
  \/ SyncNow
  \/ \E n \in 0 .. MaxRetries : LoseMessage(n)
  \/ \E t \in Tasks : RunStep(t)
  \/ Tick

ScheduleSpec == ScheduleInit /\ [][ScheduleNext]_scheduleVars

(***************************************************************************)
(* Time passes, Beat keeps calling the dispatcher, no message waits for     *)
(* ever, and a process goes on with its own statements.  Nothing is assumed *)
(* of the provider: a run may never finish, and then the limit ends it.     *)
(* Dispatch is strongly fair only because of the bound on the queue.        *)
(***************************************************************************)
Fairness ==
  /\ WF_scheduleVars(Tick)
  /\ WF_scheduleVars(FindDue)
  /\ SF_scheduleVars(Dispatch)
  /\ \A n \in 0 .. MaxRetries : SF_scheduleVars(\E t \in Tasks : Start(t, n))
  /\ \A t \in Tasks :
       /\ WF_scheduleVars(Acquire(t) \/ Skip(t) \/ Announce(t))
       /\ WF_scheduleVars(Release(t))
       /\ WF_scheduleVars(TimeOut(t))

FairSpec == ScheduleSpec /\ Fairness

-----------------------------------------------------------------------------
(* Properties *)

(***************************************************************************)
(* The lease keeps runs apart although it may expire under a run that lasts *)
(* and is released by whoever finishes: the process time limit ends every   *)
(* run before its lease does.                                               *)
(***************************************************************************)
SingleFlight ==
  \A t, u \in Tasks :
    task[t].pc \in Holding /\ task[u].pc \in Holding => t = u

\* What holds of an integration's schedule at any time.
ScheduleInv == ScheduleTypeOK /\ SingleFlight

(***************************************************************************)
(* While a run reads the inventory the dispatcher does not find the sync    *)
(* due: the run's marker, or one stored over it, is never stale by then,    *)
(* whatever deaths, lost messages and leases in between.  The jobs added to *)
(* a reading run are those of "sync now", which asks nobody, and one of the *)
(* dispatcher's, by a row it had read before the run announced itself; the  *)
(* adapters' runs settle the status before they refresh details.            *)
(***************************************************************************)
NotDueWhileFetching ==
  [][due' /\ ~due => \A t \in Tasks : task[t].pc # "running"]_scheduleVars

(***************************************************************************)
(* tasks.py, the dispatcher: a worker restart recovers automatically.       *)
(* Though processes die at any step, messages get lost and the provider may *)
(* hang in every run, the integration is synchronized again and again.      *)
(***************************************************************************)
SyncResumes == []<>(\E t \in Tasks : task[t].pc = "running")
=============================================================================
