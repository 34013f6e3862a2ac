------------------------------- MODULE CacheLease --------------------------------
(***************************************************************************)
(* How the requests that miss one cache key build it once: the report cache  *)
(* (_cached_with_stale_revalidation, which serves stale reports meanwhile)   *)
(* and the projects cache (_singleflight_get_or_set, which keeps none).  The *)
(* lock is a lease of 30 seconds that a slow builder outlives.               *)
(***************************************************************************)
EXTENDS Integers, FiniteSets

CONSTANTS
  LeaseRequests,   \* requests for the key
  MaxDataChanges,  \* bound: changes of the data behind it
  MaxLeaseFaults   \* bound: builders killed or failing, cache outages

ASSUME CacheLeaseAssumption == {MaxDataChanges, MaxLeaseFaults} \subseteq Nat

VARIABLES
  cacheKind,    \* which of the two caches
  dataNow,      \* version of the data in the database
  entry,        \* what the key holds: [held, version, fresh]
  lockHolders,  \* the lock: its holder's token, or nothing
  leases,       \* history: holders whose lease has not ended
  calls,        \* per request: step, version found stale, version queried
  leaseOverran,      \* history: a builder outlived its lease
  leaseFaults

leaseVars == <<cacheKind, dataNow, entry, lockHolders, leases, calls, leaseOverran, leaseFaults>>

CallSteps == {"new", "missed", "building", "queried", "waiting", "answered", "failed"}
NoEntry == [held |-> FALSE, version |-> 0, fresh |-> FALSE]
NewCall == [at |-> "new", stale |-> -1, read |-> 0]

LeaseTypeOK ==
  /\ cacheKind \in {"reports", "projects"} /\ dataNow \in 0 .. MaxDataChanges
  /\ entry \in [held : BOOLEAN, version : 0 .. dataNow, fresh : BOOLEAN]
  /\ lockHolders \subseteq LeaseRequests /\ Cardinality(lockHolders) <= 1
  /\ leases \subseteq LeaseRequests /\ lockHolders \subseteq leases
  /\ calls \in [LeaseRequests -> [at : CallSteps, stale : -1 .. dataNow, read : 0 .. dataNow]]
  /\ leaseOverran \in BOOLEAN
  /\ leaseFaults \in 0 .. MaxLeaseFaults

LeaseInit ==
  /\ cacheKind \in {"reports", "projects"}
  /\ dataNow = 0 /\ entry = NoEntry /\ lockHolders = {} /\ leases = {}
  /\ leaseFaults = 0 /\ leaseOverran = FALSE
  /\ calls = [q \in LeaseRequests |-> NewCall]

LeaseFault == leaseFaults < MaxLeaseFaults /\ leaseFaults' = leaseFaults + 1
CallAt(q, step) == calls[q].at = step
Building(q) == calls[q].at \in {"building", "queried"}
Answer(q) == calls' = [calls EXCEPT ![q].at = "answered", ![q].stale = -1]
Holds(version) == [held |-> TRUE, version |-> version, fresh |-> TRUE]

-----------------------------------------------------------------------------
LookUp(q) ==
  /\ CallAt(q, "new")
  /\ calls' = IF entry.held /\ entry.fresh
              THEN [calls EXCEPT ![q].at = "answered"]
              ELSE [calls EXCEPT ![q].at = "missed",
                                 ![q].stale = IF entry.held THEN entry.version ELSE -1]
  /\ UNCHANGED <<cacheKind, dataNow, entry, lockHolders, leases, leaseFaults, leaseOverran>>

\* Faulty: the lock is set whoever holds it.
LockFreeAlways == TRUE
\* add of the lock key succeeds only when there is none.
LockFree == lockHolders = {}

TakeLock(q) ==
  /\ CallAt(q, "missed") /\ LockFree
  /\ lockHolders' = {q} /\ leases' = leases \cup {q}
  /\ calls' = [calls EXCEPT ![q].at = "building"]
  /\ UNCHANGED <<cacheKind, dataNow, entry, leaseFaults, leaseOverran>>

\* Another request owns the lock: a stale report is good enough, a miss waits.
MissLock(q) ==
  /\ CallAt(q, "missed") /\ lockHolders # {}
  /\ IF calls[q].stale >= 0 THEN Answer(q)
     ELSE calls' = [calls EXCEPT ![q].at = "waiting"]
  /\ UNCHANGED <<cacheKind, dataNow, entry, lockHolders, leases, leaseFaults, leaseOverran>>

\* The cache is unreachable: add answers neither yes nor no.  Reports answer
\* what is stale or the database; projects build and try to store.
LockUnavailable(q) ==
  /\ CallAt(q, "missed") /\ LeaseFault
  /\ Answer(q)
  /\ entry' \in IF cacheKind = "reports" THEN {entry} ELSE {entry, Holds(dataNow)}
  /\ UNCHANGED <<cacheKind, dataNow, lockHolders, leases, leaseOverran>>

\* Faulty: whatever lock is there is deleted.
UnlockedByAnyone(q) == {}
\* Faulty: the lock is left to its timeout, which is not the lease's.
UnlockedNot(q) == lockHolders
\* safe_cache_compare_delete
Unlocked(q) == lockHolders \ {q}

\* The factory reads the database.
Query(q) ==
  /\ CallAt(q, "building")
  /\ calls' = [calls EXCEPT ![q].at = "queried", ![q].read = dataNow]
  /\ UNCHANGED <<cacheKind, dataNow, entry, lockHolders, leases, leaseFaults, leaseOverran>>

\* The result is stored and the lock released.
FinishBuild(q) ==
  /\ CallAt(q, "queried")
  /\ entry' = Holds(calls[q].read)
  /\ Answer(q)
  /\ lockHolders' = Unlocked(q) /\ leases' = leases \ {q}
  /\ UNCHANGED <<cacheKind, dataNow, leaseFaults, leaseOverran>>

\* The factory raises: the lock is released, nothing is stored.
PayloadFails(q) ==
  /\ Building(q) /\ LeaseFault
  /\ calls' = [calls EXCEPT ![q].at = "failed"]
  /\ lockHolders' = Unlocked(q) /\ leases' = leases \ {q}
  /\ UNCHANGED <<cacheKind, dataNow, entry, leaseOverran>>

\* The worker is killed: its lock stays until the lease ends.
LeaseHolderKilled(q) ==
  /\ Building(q) /\ LeaseFault
  /\ calls' = [calls EXCEPT ![q].at = "failed"]
  /\ UNCHANGED <<cacheKind, dataNow, entry, lockHolders, leases, leaseOverran>>

\* Faulty: only the entry that the owner stored ends the wait.
WaitEndsNever(q) == FALSE
\* Two seconds (projects) or five (reports), whether the owner is done or not.
WaitEnds(q) == TRUE

PeerStored(q) ==
  /\ CallAt(q, "waiting") /\ entry.held
  /\ Answer(q)
  /\ UNCHANGED <<cacheKind, dataNow, entry, lockHolders, leases, leaseFaults, leaseOverran>>

WaitTimesOut(q) ==
  /\ CallAt(q, "waiting") /\ WaitEnds(q)
  /\ Answer(q)
  /\ UNCHANGED <<cacheKind, dataNow, entry, lockHolders, leases, leaseFaults, leaseOverran>>

\* The lock's timeout, with the holder at work or gone.
LeaseEnds ==
  /\ lockHolders # {}
  /\ leases' = leases \ lockHolders /\ lockHolders' = {}
  /\ leaseOverran' = (leaseOverran \/ \E q \in lockHolders : Building(q))
  /\ UNCHANGED <<cacheKind, dataNow, entry, calls, leaseFaults>>

\* A report past its timeout is kept as stale for a while; a count or filter
\* entry is gone.
Aged == IF cacheKind = "reports" /\ entry.fresh THEN [entry EXCEPT !.fresh = FALSE] ELSE NoEntry

EntryAges ==
  /\ entry.held /\ entry' = Aged
  /\ UNCHANGED <<cacheKind, dataNow, lockHolders, leases, calls, leaseFaults, leaseOverran>>

DataChanges ==
  /\ dataNow < MaxDataChanges /\ dataNow' = dataNow + 1
  /\ UNCHANGED <<cacheKind, entry, lockHolders, leases, calls, leaseFaults, leaseOverran>>

CacheLeaseNext ==
  \/ \E q \in LeaseRequests :
       \/ LookUp(q) \/ TakeLock(q) \/ MissLock(q) \/ LockUnavailable(q) \/ Query(q) \/ FinishBuild(q)
       \/ PayloadFails(q) \/ LeaseHolderKilled(q) \/ PeerStored(q) \/ WaitTimesOut(q)
  \/ LeaseEnds \/ EntryAges \/ DataChanges

\* A web worker carries its request on unless it dies.
CacheLeaseFairness ==
  \A q \in LeaseRequests :
    /\ WF_leaseVars(TakeLock(q) \/ MissLock(q)) /\ WF_leaseVars(Query(q) \/ FinishBuild(q))
    /\ WF_leaseVars(PeerStored(q) \/ WaitTimesOut(q))

CacheLeaseSpec == LeaseInit /\ [][CacheLeaseNext]_leaseVars /\ CacheLeaseFairness

-----------------------------------------------------------------------------
(* Properties *)

\* "Never let an older builder remove a replacement worker's lock": a builder
\* whose lease lasts still has its lock, so no second builder starts beside it.
BuilderKeepsItsLock ==
  \A q \in LeaseRequests : Building(q) /\ q \in leases => lockHolders = {q}

\* Whoever builds, dies or fails, a request that missed is answered.
MissesAnswered ==
  \A q \in LeaseRequests : CallAt(q, "missed") ~> calls[q].at \in {"answered", "failed"}

\* The point of one builder at a time: what the key holds never goes back to older
\* data, unless a builder outlived its lease or the cache was out of reach.
EntryNeverGoesBack ==
  [][~ leaseOverran /\ leaseFaults' = 0 /\ entry.held /\ entry'.held => entry'.version >= entry.version]_leaseVars

\* The lock of safe_cache_add and safe_cache_compare_delete is its owner's.
LeaseInv == LeaseTypeOK /\ BuilderKeepsItsLock
=============================================================================
