------------------------- MODULE BackgroundWork_proofs -------------------------
(****************************************************************************)
(* What the background work of MCJobs keeps, for any number of requests,    *)
(* workers, attempts, jobs and imports.  Each component gives a piece of    *)
(* work to one process at a time, by a claim, a lease or row locks that the *)
(* process may outlive, lose or die with.  Last, the composition with the   *)
(* survey feed.                                                             *)
(****************************************************************************)
EXTENDS MCJobs, SurveyFeed_proofs, FiniteSetTheorems, SequenceTheorems, TLAPS

-----------------------------------------------------------------------------
(* CacheLease *)

\* The lock has one holder, and a holder's lease has not ended.
LockOK ==
  /\ \A q, r \in lockHolders : q = r
  /\ lockHolders \subseteq leases

\* Until a builder outlives its lease or the cache fails, every builder has its
\* lease, and what it has read is as new as what the key holds.
ReadOK ==
  ~leaseOverran /\ leaseFaults = 0 =>
    \A q \in LeaseRequests :
      /\ Building(q) => q \in leases
      /\ CallAt(q, "queried") /\ entry.held => entry.version =< calls[q].read

CallRow == [at : CallSteps, stale : -1 .. dataNow, read : 0 .. dataNow]

LeaseTypes ==
  /\ cacheKind \in {"reports", "projects"} /\ dataNow \in 0 .. MaxDataChanges
  /\ entry \in [held : BOOLEAN, version : 0 .. dataNow, fresh : BOOLEAN]
  /\ lockHolders \subseteq LeaseRequests /\ leases \subseteq LeaseRequests
  /\ calls \in [LeaseRequests -> CallRow]
  /\ leaseOverran \in BOOLEAN
  /\ leaseFaults \in 0 .. MaxLeaseFaults

LeaseIInv == LeaseTypes /\ LockOK /\ BuilderKeepsItsLock /\ ReadOK

LEMMA LeaseBounds == MaxDataChanges \in Nat /\ MaxLeaseFaults \in Nat
<1> QED
  BY CacheLeaseAssumption

LEMMA LeaseBegins == LeaseInit => LeaseIInv
<1> SUFFICES ASSUME LeaseInit PROVE LeaseIInv
  OBVIOUS
<1> USE DEF LeaseInit
<1>1. LeaseTypes
  <2>1. 0 \in 0 .. MaxDataChanges /\ 0 \in 0 .. MaxLeaseFaults
    BY LeaseBounds
  <2>2. NewCall \in [at : CallSteps, stale : -1 .. 0, read : 0 .. 0]
    BY DEF NewCall, CallSteps
  <2>3. NoEntry \in [held : BOOLEAN, version : 0 .. 0, fresh : BOOLEAN]
    BY DEF NoEntry
  <2>4. calls \in [LeaseRequests -> [at : CallSteps, stale : -1 .. 0, read : 0 .. 0]]
    BY <2>2
  <2> QED
    BY <2>1, <2>3, <2>4 DEF LeaseTypes, CallRow
<1>2. LockOK /\ BuilderKeepsItsLock /\ ReadOK
  BY DEF LockOK, BuilderKeepsItsLock, ReadOK, Building, CallAt, NewCall
<1> QED
  BY <1>1, <1>2 DEF LeaseIInv

\* A request goes on without the lock.
LEMMA CallMoves ==
  ASSUME LeaseIInv, NEW q \in LeaseRequests, NEW x \in CallRow,
         calls' = [calls EXCEPT ![q] = x],
         x.at \notin {"building", "queried"},
         UNCHANGED <<cacheKind, dataNow, leaseOverran>>,
         leaseFaults' \in 0 .. MaxLeaseFaults, leaseFaults' >= leaseFaults,
         entry' \in [held : BOOLEAN, version : 0 .. dataNow, fresh : BOOLEAN],
         \/ entry' = entry
         \/ leaseFaults' # 0
         \/ leaseOverran
         \/ \A r \in leases \ {q} : ~CallAt(r, "queried"),
         \/ lockHolders' = lockHolders /\ leases' = leases
         \/ lockHolders' = lockHolders \ {q} /\ leases' = leases \ {q}
  PROVE  LeaseIInv'
<1> USE LeaseBounds DEF LeaseIInv
<1>1. calls' \in [LeaseRequests -> CallRow] /\ calls'[q] = x
      /\ \A r \in LeaseRequests : r # q => calls'[r] = calls[r]
  BY DEF LeaseTypes
<1>2. CallRow' = CallRow
  BY DEF CallRow
<1>3. LeaseTypes'
  BY <1>1, <1>2 DEF LeaseTypes
<1>4. LockOK'
  BY DEF LockOK
<1>5. BuilderKeepsItsLock'
  BY <1>1 DEF BuilderKeepsItsLock, Building
<1>6. ReadOK'
  BY <1>1 DEF ReadOK, Building, CallAt, LeaseTypes
<1> QED
  BY <1>3, <1>4, <1>5, <1>6

\* The steps of one request, in the terms of the lemma.
LEMMA CallsEnd ==
  ASSUME LeaseIInv, NEW q \in LeaseRequests,
         \/ LookUp(q) \/ MissLock(q) \/ LockUnavailable(q) \/ FinishBuild(q)
         \/ PayloadFails(q) \/ LeaseHolderKilled(q) \/ PeerStored(q) \/ WaitTimesOut(q)
  PROVE  LeaseIInv'
<1> DEFINE at(step) == [calls[q] EXCEPT !.at = step]
           answered == [calls[q] EXCEPT !.at = "answered", !.stale = -1]
           stale(v) == [calls[q] EXCEPT !.at = "missed", !.stale = v]
<1>1. calls[q] \in CallRow /\ dataNow \in Nat
      /\ entry \in [held : BOOLEAN, version : 0 .. dataNow, fresh : BOOLEAN]
      /\ leaseFaults \in 0 .. MaxLeaseFaults /\ leaseFaults \in Nat /\ leaseFaults >= leaseFaults
  <2>1. \A n \in 0 .. MaxDataChanges : n \in Nat
    BY LeaseBounds
  <2>2. \A n \in 0 .. MaxLeaseFaults : n \in Nat
    BY LeaseBounds
  <2> QED
    BY <2>1, <2>2 DEF LeaseIInv, LeaseTypes
<1>2. answered \in CallRow /\ answered.at \notin {"building", "queried"}
  <2>1. -1 \in -1 .. dataNow /\ "answered" \in CallSteps
    BY <1>1 DEF CallSteps
  <2> QED
    BY <1>1, <2>1 DEF CallRow
<1>3. /\ at("answered") \in CallRow /\ at("answered").at \notin {"building", "queried"}
      /\ at("waiting") \in CallRow /\ at("waiting").at \notin {"building", "queried"}
      /\ at("failed") \in CallRow /\ at("failed").at \notin {"building", "queried"}
  BY <1>1 DEF CallRow, CallSteps
<1>4. \A v \in -1 .. dataNow : stale(v) \in CallRow /\ stale(v).at \notin {"building", "queried"}
  BY <1>1 DEF CallRow, CallSteps
<1> HIDE DEF at, answered, stale
<1>5. LeaseFault => leaseFaults' \in 0 .. MaxLeaseFaults /\ leaseFaults' # 0
                    /\ leaseFaults' >= leaseFaults
  BY <1>1, LeaseBounds DEF LeaseFault
<1>6. CASE LookUp(q)
  <2>1. CASE entry.held /\ entry.fresh
    <3>1. calls' = [calls EXCEPT ![q] = at("answered")]
      BY <1>6, <2>1 DEF LookUp, at
    <3> QED
      BY <1>1, <1>3, <1>6, <3>1, CallMoves DEF LookUp
  <2>2. CASE ~(entry.held /\ entry.fresh)
    <3> DEFINE v == IF entry.held THEN entry.version ELSE -1
    <3>1. calls' = [calls EXCEPT ![q] = stale(v)]
      BY <1>6, <2>2 DEF LookUp, stale
    <3>2. v \in -1 .. dataNow
      <4>1. entry.version \in -1 .. dataNow /\ -1 \in -1 .. dataNow
        BY <1>1
      <4> QED
        BY <4>1
    <3> HIDE DEF v
    <3> QED
      BY <1>1, <1>4, <1>6, <3>1, <3>2, CallMoves DEF LookUp
  <2> QED
    BY <2>1, <2>2
<1>7. CASE MissLock(q)
  <2>1. \/ calls' = [calls EXCEPT ![q] = answered]
        \/ calls' = [calls EXCEPT ![q] = at("waiting")]
    BY <1>7 DEF MissLock, Answer, answered, at
  <2> QED
    BY <1>1, <1>2, <1>3, <1>7, <2>1, CallMoves DEF MissLock
<1>8. CASE LockUnavailable(q)
  <2>1. calls' = [calls EXCEPT ![q] = answered]
    BY <1>8 DEF LockUnavailable, Answer, answered
  <2>2. entry' \in [held : BOOLEAN, version : 0 .. dataNow, fresh : BOOLEAN]
    <3>1. Holds(dataNow) \in [held : BOOLEAN, version : 0 .. dataNow, fresh : BOOLEAN]
      BY <1>1 DEF Holds
    <3> QED
      BY <1>1, <1>8, <3>1 DEF LockUnavailable
  <2> QED
    BY <1>1, <1>2, <1>5, <1>8, <2>1, <2>2, CallMoves DEF LockUnavailable
<1>9. CASE FinishBuild(q)
  <2>1. calls' = [calls EXCEPT ![q] = answered]
    BY <1>9 DEF FinishBuild, Answer, answered
  <2>2. entry' \in [held : BOOLEAN, version : 0 .. dataNow, fresh : BOOLEAN]
    BY <1>1, <1>9 DEF FinishBuild, Holds, CallRow
  <2>3. leaseFaults = 0 /\ ~leaseOverran => \A r \in leases \ {q} : ~CallAt(r, "queried")
    BY <1>9
    DEF FinishBuild, LeaseIInv, LeaseTypes, ReadOK, BuilderKeepsItsLock, Building, CallAt
  <2> QED
    BY <1>1, <1>2, <1>9, <2>1, <2>2, <2>3, CallMoves DEF FinishBuild, Unlocked
<1>10. CASE PayloadFails(q)
  <2>1. calls' = [calls EXCEPT ![q] = at("failed")]
    BY <1>10 DEF PayloadFails, at
  <2> QED
    BY <1>1, <1>3, <1>5, <1>10, <2>1, CallMoves DEF PayloadFails, Unlocked
<1>11. CASE LeaseHolderKilled(q)
  <2>1. calls' = [calls EXCEPT ![q] = at("failed")]
    BY <1>11 DEF LeaseHolderKilled, at
  <2> QED
    BY <1>1, <1>3, <1>5, <1>11, <2>1, CallMoves DEF LeaseHolderKilled
<1>12. CASE PeerStored(q) \/ WaitTimesOut(q)
  <2>1. calls' = [calls EXCEPT ![q] = answered]
    BY <1>12 DEF PeerStored, WaitTimesOut, Answer, answered
  <2> QED
    BY <1>1, <1>2, <1>12, <2>1, CallMoves DEF PeerStored, WaitTimesOut
<1> QED
  BY <1>6, <1>7, <1>8, <1>9, <1>10, <1>11, <1>12

\* A request takes the lock, or reads the database.
LEMMA CallsBuild ==
  ASSUME LeaseIInv, NEW q \in LeaseRequests, TakeLock(q) \/ Query(q)
  PROVE  LeaseIInv'
<1>1. calls[q] \in CallRow /\ dataNow \in Nat /\ dataNow \in 0 .. dataNow
      /\ entry \in [held : BOOLEAN, version : 0 .. dataNow, fresh : BOOLEAN]
  <2>1. \A n \in 0 .. MaxDataChanges : n \in Nat
    BY LeaseBounds
  <2> QED
    BY <2>1 DEF LeaseIInv, LeaseTypes
<1>2. CASE TakeLock(q)
  <2>1. [calls[q] EXCEPT !.at = "building"] \in CallRow
    BY <1>1 DEF CallRow, CallSteps
  <2>2. /\ calls' \in [LeaseRequests -> CallRow] /\ calls'[q].at = "building"
        /\ \A r \in LeaseRequests : r # q => calls'[r] = calls[r]
    BY <1>2, <2>1 DEF TakeLock, LeaseIInv, LeaseTypes
  <2>3. LeaseTypes'
    BY <1>2, <2>2 DEF TakeLock, LeaseIInv, LeaseTypes, CallRow
  <2>4. LockOK' /\ BuilderKeepsItsLock'
    BY <1>2, <2>2 DEF TakeLock, LockFree, LeaseIInv, LockOK, BuilderKeepsItsLock, Building
  <2>5. ReadOK'
    BY <1>2, <2>2 DEF TakeLock, LeaseIInv, ReadOK, Building, CallAt
  <2> QED
    BY <2>3, <2>4, <2>5 DEF LeaseIInv
<1>3. CASE Query(q)
  <2>1. [calls[q] EXCEPT !.at = "queried", !.read = dataNow] \in CallRow
    BY <1>1 DEF CallRow, CallSteps
  <2>2. /\ calls' \in [LeaseRequests -> CallRow]
        /\ calls'[q].at = "queried" /\ calls'[q].read = dataNow
        /\ \A r \in LeaseRequests : r # q => calls'[r] = calls[r]
    BY <1>1, <1>3, <2>1 DEF Query, LeaseIInv, LeaseTypes, CallRow
  <2>3. LeaseTypes'
    BY <1>3, <2>2 DEF Query, LeaseIInv, LeaseTypes, CallRow
  <2>4. LockOK' /\ BuilderKeepsItsLock'
    BY <1>3, <2>2 DEF Query, CallAt, LeaseIInv, LockOK, BuilderKeepsItsLock, Building
  <2>5. ReadOK'
    BY <1>1, <1>3, <2>2 DEF Query, LeaseIInv, ReadOK, Building, CallAt
  <2> QED
    BY <2>3, <2>4, <2>5 DEF LeaseIInv
<1> QED
  BY <1>2, <1>3

\* The lock's timeout, the entry's, and changes of the data.
LEMMA CacheMoves ==
  ASSUME LeaseIInv, LeaseEnds \/ EntryAges \/ DataChanges
  PROVE  LeaseIInv'
<1>1. dataNow \in Nat /\ entry.version \in 0 .. dataNow /\ 0 \in 0 .. dataNow
      /\ dataNow =< MaxDataChanges
  <2>1. \A n \in 0 .. MaxDataChanges : n \in Nat /\ n =< MaxDataChanges
    BY LeaseBounds
  <2> QED
    BY <2>1 DEF LeaseIInv, LeaseTypes
<1>2. CASE LeaseEnds
  <2>1. LeaseTypes'
    BY <1>2 DEF LeaseEnds, LeaseIInv, LeaseTypes, CallRow
  <2>2. LockOK' /\ BuilderKeepsItsLock'
    BY <1>2 DEF LeaseEnds, LeaseIInv, LockOK, BuilderKeepsItsLock, Building
  <2>3. ReadOK'
    BY <1>2 DEF LeaseEnds, LeaseIInv, ReadOK, Building, CallAt
  <2> QED
    BY <2>1, <2>2, <2>3 DEF LeaseIInv
<1>3. CASE EntryAges
  <2>1. entry' \in [held : BOOLEAN, version : 0 .. dataNow, fresh : BOOLEAN]
        /\ (entry'.held => entry.held /\ entry'.version = entry.version)
    BY <1>1, <1>3 DEF EntryAges, Aged, NoEntry, LeaseIInv, LeaseTypes
  <2>2. LeaseTypes'
    BY <1>3, <2>1 DEF EntryAges, LeaseIInv, LeaseTypes, CallRow
  <2>3. LockOK' /\ BuilderKeepsItsLock'
    BY <1>3 DEF EntryAges, LeaseIInv, LockOK, BuilderKeepsItsLock, Building
  <2>4. ReadOK'
    BY <1>3, <2>1 DEF EntryAges, LeaseIInv, ReadOK, Building, CallAt
  <2> QED
    BY <2>2, <2>3, <2>4 DEF LeaseIInv
<1>4. CASE DataChanges
  <2>1. dataNow' \in 0 .. MaxDataChanges /\ 0 .. dataNow \subseteq 0 .. dataNow'
        /\ -1 .. dataNow \subseteq -1 .. dataNow'
    BY <1>1, <1>4, LeaseBounds DEF DataChanges
  <2>2. CallRow \subseteq CallRow'
    BY <2>1 DEF CallRow
  <2>3. LeaseTypes'
    BY <1>4, <2>1, <2>2 DEF DataChanges, LeaseIInv, LeaseTypes
  <2>4. LockOK' /\ BuilderKeepsItsLock'
    BY <1>4 DEF DataChanges, LeaseIInv, LockOK, BuilderKeepsItsLock, Building
  <2>5. ReadOK'
    BY <1>4 DEF DataChanges, LeaseIInv, ReadOK, Building, CallAt
  <2> QED
    BY <2>3, <2>4, <2>5 DEF LeaseIInv
<1> QED
  BY <1>2, <1>3, <1>4

LEMMA LeaseStep == LeaseIInv /\ [CacheLeaseNext]_leaseVars => LeaseIInv'
<1>1. ASSUME LeaseIInv, UNCHANGED leaseVars PROVE LeaseIInv'
  BY <1>1 DEF leaseVars, LeaseIInv, LeaseTypes, CallRow, LockOK, BuilderKeepsItsLock,
              Building, ReadOK, CallAt
<1>2. ASSUME LeaseIInv, CacheLeaseNext PROVE LeaseIInv'
  BY <1>2, CallsEnd, CallsBuild, CacheMoves DEF CacheLeaseNext
<1> QED
  BY <1>1, <1>2

LEMMA LeaseInductive == CacheLeaseSpec => []LeaseIInv
<1> QED
  BY LeaseBegins, LeaseStep, PTL DEF CacheLeaseSpec

LEMMA LockKept == LeaseIInv => LeaseInv
<1> SUFFICES ASSUME LeaseIInv PROVE LeaseTypeOK
  BY DEF LeaseIInv, LeaseInv
<1>1. lockHolders = {} \/ \E q \in lockHolders : lockHolders = {q}
  BY DEF LeaseIInv, LockOK
<1>2. Cardinality(lockHolders) =< 1
  BY <1>1, FS_EmptySet, FS_Singleton
<1> QED
  BY <1>2 DEF LeaseIInv, LeaseTypes, LockOK, CallRow, LeaseTypeOK

(****************************************************************************)
(* safe_cache_add and safe_cache_compare_delete, for any number of requests *)
(* of a key: a builder whose lease lasts has its lock and is the only one.  *)
(****************************************************************************)
THEOREM LockCorrect == CacheLeaseSpec => []LeaseInv
<1> QED
  BY LeaseInductive, LockKept, PTL

LEMMA NewestStep ==
  LeaseIInv /\ [CacheLeaseNext]_leaseVars =>
    [~leaseOverran /\ leaseFaults' = 0 /\ entry.held /\ entry'.held
       => entry'.version >= entry.version]_leaseVars
<1>1. ASSUME LeaseIInv, CacheLeaseNext,
             ~leaseOverran, leaseFaults' = 0, entry.held, entry'.held
      PROVE  entry'.version >= entry.version
  <2> USE <1>1
  <2>1. dataNow \in Nat /\ entry.version \in Nat
    <3>1. \A n \in 0 .. MaxDataChanges : n \in Nat
      BY LeaseBounds
    <3> QED
      BY <3>1 DEF LeaseIInv, LeaseTypes
  <2>2. entry' = entry => entry'.version >= entry.version
    BY <2>1
  <2>3. \A q \in LeaseRequests : ~LockUnavailable(q) /\ ~PayloadFails(q) /\ ~LeaseHolderKilled(q)
    <3>1. ~LeaseFault
      <4>1. \A n \in 0 .. MaxLeaseFaults : n + 1 # 0
        BY LeaseBounds
      <4> QED
        BY <4>1 DEF LeaseFault, LeaseIInv, LeaseTypes
    <3> QED
      BY <3>1 DEF LockUnavailable, PayloadFails, LeaseHolderKilled
  <2>4. ASSUME NEW q \in LeaseRequests, FinishBuild(q) PROVE entry'.version >= entry.version
    <3>1. leaseFaults = 0 /\ calls[q].read \in Nat
      BY <2>1, <2>4 DEF FinishBuild, LeaseIInv, LeaseTypes, CallRow
    <3> QED
      BY <2>1, <2>4, <3>1 DEF FinishBuild, Holds, LeaseIInv, ReadOK
  <2>5. CASE EntryAges
    BY <2>1, <2>5 DEF EntryAges, Aged, NoEntry
  <2> QED
    BY <2>2, <2>3, <2>4, <2>5
    DEF CacheLeaseNext, LookUp, TakeLock, MissLock, Query, PeerStored, WaitTimesOut,
        LeaseEnds, DataChanges
<1> QED
  BY <1>1

(****************************************************************************)
(* What a key holds never goes back to older data, as long as no builder    *)
(* has outlived its lease and no builder or cache has failed.               *)
(****************************************************************************)
THEOREM NewestKept == CacheLeaseSpec => EntryNeverGoesBack
<1> QED
  BY NewestStep, LeaseInductive, PTL DEF CacheLeaseSpec, EntryNeverGoesBack

-----------------------------------------------------------------------------
(* SupplierCallbacks *)

RecordRow == [event : SupplierCodes \cup {None}, age : 0 .. 2,
              state : {"absent", "queued", "queue_failed", "delivering", "delivered", "failed"}]
DeliveryRow == [pc : {"free", "ready", "sending", "answered"}, of : Results \cup {0},
                event : SupplierCodes \cup {None}, retries : 0 .. MaxCallbackRetries,
                reply : {None, "ok", "busy", "refused"}]

CallbackTypes ==
  /\ outcome \in [Results -> Outcomes] /\ configured \in [Results -> BOOLEAN]
  /\ newer \subseteq Results \X Results /\ lapsed \subseteq Results
  /\ record \in [Results -> RecordRow] /\ delivery \in [Deliverers -> DeliveryRow]
  /\ commit \in [Results -> SUBSET Pending]
  /\ sent \in [Results -> SUBSET SupplierCodes] /\ accepted \in [Results -> SUBSET SupplierCodes]
  /\ overran \subseteq Results /\ erased \subseteq Results /\ mishaps \in 0 .. MaxMishaps

\* Until a poll erases a record its event stays: it is the only one that the
\* supplier is sent, and that a request has still to hand over.
RecordOK ==
  \A a \in Results :
    /\ record[a].state = "absent" => record[a] = NoRecord
    /\ record[a].state # "absent" => record[a].event \in SupplierCodes
    /\ record[a].state = "delivered" => record[a].event \in accepted[a]
    /\ a \notin erased =>
         /\ sent[a] \subseteq {record[a].event}
         /\ record[a].state = "absent" => sent[a] = {}
         /\ \A p \in commit[a] : record[a].state # "absent" /\ p[2] = record[a].event

\* A task delivers the event that its attempt's record had when it was queued.
TaskOK ==
  \A t \in Deliverers : delivery[t].pc # "free" =>
    /\ delivery[t].of \in Results /\ delivery[t].event \in SupplierCodes
    /\ delivery[t].of \notin erased =>
         /\ record[delivery[t].of].state # "absent"
         /\ delivery[t].event = record[delivery[t].of].event
    /\ delivery[t].pc = "answered" /\ delivery[t].reply = "ok" =>
         delivery[t].event \in accepted[delivery[t].of]

IsCalling(t, a) == delivery[t].of = a /\ delivery[t].pc \in {"sending", "answered"}

\* One task calls, for a record in state "delivering".
ClaimOK ==
  \A a \in Results : a \notin overran \cup erased => \A t \in Deliverers : IsCalling(t, a) =>
    /\ record[a].state = "delivering"
    /\ \A u \in Deliverers : IsCalling(u, a) => u = t

CallbackIInv == CallbackTypes /\ RecordOK /\ TaskOK /\ ClaimOK

LEMMA CallbackBounds ==
  /\ MaxCallbackRetries \in Nat /\ MaxMishaps \in Nat
  /\ 0 \in 0 .. MaxCallbackRetries /\ 0 \in 0 .. MaxMishaps
  /\ \A n \in 0 .. MaxMishaps : n < MaxMishaps => n + 1 \in 0 .. MaxMishaps
  /\ \A n \in 0 .. MaxCallbackRetries : n # MaxCallbackRetries => n + 1 \in 0 .. MaxCallbackRetries
<1> QED
  BY SupplierCallbacksAssumption

LEMMA RowsBegin == NoTask \in DeliveryRow /\ NoRecord \in RecordRow
<1> QED
  BY CallbackBounds DEF NoTask, NoRecord, DeliveryRow, RecordRow

\* A record is written with its new state and the present time.
LEMMA RecordWritten ==
  ASSUME NEW r \in RecordRow,
         NEW s \in {"absent", "queued", "queue_failed", "delivering", "delivered", "failed"}
  PROVE  /\ [r EXCEPT !.state = s, !.age = 0] \in RecordRow
         /\ [r EXCEPT !.state = s, !.age = 0].state = s
         /\ [r EXCEPT !.state = s, !.age = 0].event = r.event
<1>1. /\ r = [event |-> r.event, age |-> r.age, state |-> r.state]
      /\ r.event \in SupplierCodes \cup {None} /\ 0 \in 0 .. 2
  BY DEF RecordRow
<1>2. [r EXCEPT !.state = s, !.age = 0] = [event |-> r.event, age |-> 0, state |-> s]
  <2>1. [r EXCEPT !.state = s] = [event |-> r.event, age |-> r.age, state |-> s]
    BY <1>1
  <2> DEFINE x == [event |-> r.event, age |-> r.age, state |-> s]
  <2>2. [x EXCEPT !.age = 0] = [event |-> r.event, age |-> 0, state |-> s]
    OBVIOUS
  <2> QED
    BY <2>1, <2>2, Zenon
<1>3. [event |-> r.event, age |-> 0, state |-> s] \in RecordRow
  BY <1>1 DEF RecordRow
<1> QED
  BY <1>2, <1>3

LEMMA CallbackBegins == CallbackInit => CallbackIInv
<1> SUFFICES ASSUME CallbackInit PROVE CallbackIInv
  OBVIOUS
<1>1. CallbackTypes
  BY RowsBegin, CallbackBounds DEF CallbackInit, CallbackTypes, Outcomes
<1>2. RecordOK
  BY DEF CallbackInit, RecordOK, NoRecord
<1>3. TaskOK /\ ClaimOK
  BY DEF CallbackInit, TaskOK, ClaimOK, IsCalling, NoTask
<1> QED
  BY <1>1, <1>2, <1>3 DEF CallbackIInv

LEMMA MishapCounts == ASSUME CallbackIInv, Mishap PROVE mishaps' \in 0 .. MaxMishaps
<1> QED
  BY CallbackBounds DEF Mishap, CallbackIInv, CallbackTypes

\* Steps that change neither records nor tasks.
LEMMA EnvironmentMoves ==
  ASSUME CallbackIInv, NEW a \in Results,
         \/ ReviseOutcome(a) \/ RemoveCallbackUrl(a) \/ LapseRecovery(a)
         \/ \E e \in SupplierCodes : DispatchLost(a, e)
  PROVE  CallbackIInv'
<1>1. mishaps' \in 0 .. MaxMishaps
  BY MishapCounts
  DEF ReviseOutcome, RemoveCallbackUrl, LapseRecovery, DispatchLost, CallbackIInv, CallbackTypes
<1>2. UNCHANGED <<record, delivery, sent, accepted, overran, erased>>
  BY DEF ReviseOutcome, RemoveCallbackUrl, LapseRecovery, DispatchLost
<1>3. /\ commit' \in [Results -> SUBSET Pending]
      /\ \A b \in Results : \A p \in commit'[b] : \E q \in commit[b] : p[2] = q[2]
  <2>1. CASE UNCHANGED commit
    BY <2>1 DEF CallbackIInv, CallbackTypes
  <2>2. ASSUME NEW e \in SupplierCodes, DispatchLost(a, e)
        PROVE  /\ commit' \in [Results -> SUBSET Pending]
               /\ \A b \in Results : \A p \in commit'[b] : \E q \in commit[b] : p[2] = q[2]
    <3>1. PICK next \in {{<<"mark", e>>}, {}} :
            commit' = [commit EXCEPT ![a] = (@ \ {<<"dispatch", e>>}) \cup next]
      BY <2>2 DEF DispatchLost
    <3>2. <<"mark", e>> \in Pending
      BY DEF Pending
    <3>3. \A p \in next : p[2] = e
      OBVIOUS
    <3>4. <<"dispatch", e>> \in commit[a] /\ <<"dispatch", e>>[2] = e
      BY <2>2 DEF DispatchLost
    <3>5. commit \in [Results -> SUBSET Pending] /\ next \subseteq Pending
      BY <3>2 DEF CallbackIInv, CallbackTypes
    <3> QED
      BY <3>1, <3>3, <3>4, <3>5
  <2> QED
    BY <2>1, <2>2 DEF ReviseOutcome, RemoveCallbackUrl, LapseRecovery
<1>4. /\ outcome' \in [Results -> Outcomes] /\ configured' \in [Results -> BOOLEAN]
      /\ newer' \subseteq Results \X Results /\ lapsed' \subseteq Results
  <2>1. CASE ReviseOutcome(a)
    BY <2>1 DEF ReviseOutcome, CallbackIInv, CallbackTypes
  <2>2. CASE \/ RemoveCallbackUrl(a) \/ LapseRecovery(a)
             \/ \E e \in SupplierCodes : DispatchLost(a, e)
    BY <2>2
    DEF RemoveCallbackUrl, LapseRecovery, DispatchLost, attemptVars, CallbackIInv, CallbackTypes
  <2> QED
    BY <2>1, <2>2
<1>5. CallbackTypes'
  BY <1>1, <1>2, <1>3, <1>4 DEF CallbackIInv, CallbackTypes, RecordRow, DeliveryRow
<1>6. RecordOK'
  BY <1>2, <1>3 DEF CallbackIInv, RecordOK
<1>7. TaskOK' /\ ClaimOK'
  BY <1>2 DEF CallbackIInv, TaskOK, ClaimOK, IsCalling
<1> QED
  BY <1>5, <1>6, <1>7 DEF CallbackIInv

\* reconcile_attempt_status: from then on little is known of the attempt.
LEMMA AuditReplaced ==
  ASSUME CallbackIInv, NEW a \in Results, ReplaceAudit(a)
  PROVE  CallbackIInv'
<1>1. mishaps' \in 0 .. MaxMishaps
  BY MishapCounts DEF ReplaceAudit
<1>2. /\ UNCHANGED <<attemptVars, commit, delivery, sent, accepted, overran>>
      /\ erased' = erased \cup {a}
  BY DEF ReplaceAudit
<1>3. /\ record' \in [Results -> RecordRow] /\ record'[a] = NoRecord
      /\ \A b \in Results : b # a => record'[b] = record[b]
  BY RowsBegin DEF ReplaceAudit, CallbackIInv, CallbackTypes
<1>4. CallbackTypes'
  BY <1>1, <1>2, <1>3
  DEF CallbackIInv, CallbackTypes, attemptVars, RecordRow, DeliveryRow
<1>5. RecordOK'
  BY <1>2, <1>3 DEF CallbackIInv, RecordOK, NoRecord
<1>6. TaskOK' /\ ClaimOK'
  BY <1>2, <1>3 DEF CallbackIInv, TaskOK, ClaimOK, IsCalling
<1> QED
  BY <1>4, <1>5, <1>6 DEF CallbackIInv

\* Steps that change one record and no task.
LEMMA RecordMoves ==
  ASSUME CallbackIInv, NEW a \in Results,
         \/ GrowOlder(a) \/ QueueResult(a)
         \/ \E e \in SupplierCodes : MarkQueueFailure(a, e)
  PROVE  CallbackIInv'
<1> USE DEF CallbackIInv
<1>1. UNCHANGED <<attemptVars, delivery, sent, accepted, overran, erased, mishaps>>
  BY DEF GrowOlder, QueueResult, MarkQueueFailure
<1>2. record[a] \in RecordRow
  BY DEF CallbackTypes
<1>3. /\ record' \in [Results -> RecordRow]
      /\ \A b \in Results : b # a => record'[b] = record[b]
  <2>1. CASE GrowOlder(a)
    <3>1. [record[a] EXCEPT !.age = @ + 1] \in RecordRow
      BY <1>2, <2>1 DEF GrowOlder, RecordRow
    <3> QED
      BY <2>1, <3>1 DEF GrowOlder, CallbackTypes
  <2>2. CASE QueueResult(a)
    <3>1. [event |-> outcome[a], state |-> "queued", age |-> 0] \in RecordRow
      BY <2>2 DEF QueueResult, RecordRow
    <3> QED
      BY <2>2, <3>1 DEF QueueResult, CallbackTypes
  <2>3. CASE \E e \in SupplierCodes : MarkQueueFailure(a, e)
    <3> DEFINE y == [record[a] EXCEPT !.state = "queue_failed", !.age = 0]
    <3>1. y \in RecordRow
      BY <1>2, RecordWritten
    <3>2. record' = record \/ record' = [record EXCEPT ![a] = y]
      BY <2>3 DEF MarkQueueFailure, CallbackTypes
    <3> HIDE DEF y
    <3> QED
      BY <3>1, <3>2 DEF CallbackTypes
  <2> QED
    BY <2>1, <2>2, <2>3
<1>4. /\ record'[a].state = "absent" => record'[a] = NoRecord
      /\ record'[a].state # "absent" => record'[a].event \in SupplierCodes
      /\ record[a].state # "absent" => record'[a].event = record[a].event
                                       /\ record'[a].state # "absent"
      /\ record'[a].state = "delivered" => record[a].state = "delivered"
      /\ record[a].state = "delivering" => record'[a].state = "delivering"
  <2>0. /\ record[a].state = "absent" => record[a] = NoRecord
        /\ record[a].state # "absent" => record[a].event \in SupplierCodes
    BY DEF RecordOK
  <2>1. CASE GrowOlder(a)
    <3>1. record'[a] = [record[a] EXCEPT !.age = @ + 1] /\ record[a].state # "absent"
      BY <2>1 DEF GrowOlder, CallbackTypes
    <3> QED
      BY <1>2, <2>0, <3>1 DEF RecordRow
  <2>2. CASE QueueResult(a)
    <3>1. /\ record'[a] = [event |-> outcome[a], state |-> "queued", age |-> 0]
          /\ outcome[a] \in SupplierCodes
      BY <2>2 DEF QueueResult, CallbackTypes
    <3>2. record[a].state # "absent" => record[a].event = outcome[a]
      BY <2>2 DEF QueueResult, SupplierAccepts, NoRecord
    <3>3. record[a].state # "delivering"
      BY <2>2 DEF QueueResult, SupplierAccepts, NoRecord
    <3> QED
      BY <3>1, <3>2, <3>3
  <2>3. CASE \E e \in SupplierCodes : MarkQueueFailure(a, e)
    <3>1. \/ record'[a] = record[a]
          \/ /\ record[a].state = "queued"
             /\ record'[a] = [record[a] EXCEPT !.state = "queue_failed", !.age = 0]
      BY <2>3 DEF MarkQueueFailure, CallbackTypes
    <3> QED
      BY <1>2, <2>0, <3>1 DEF RecordRow
  <2> QED
    BY <2>1, <2>2, <2>3
<1> DEFINE Handed(p) == record'[a].state # "absent" /\ p[2] = record'[a].event
<1>h. QueueResult(a) => Handed(<<"dispatch", outcome[a]>>)
  BY DEF QueueResult, CallbackTypes
<1>5. /\ commit' \in [Results -> SUBSET Pending]
      /\ \A b \in Results : b # a => commit'[b] = commit[b]
      /\ \A p \in commit'[a] : p \in commit[a] \/ Handed(p)
  <2> HIDE DEF Handed
  <2>1. CASE GrowOlder(a)
    BY <2>1 DEF GrowOlder, CallbackTypes
  <2>2. CASE QueueResult(a)
    <3>1. <<"dispatch", outcome[a]>> \in Pending
      BY <2>2 DEF QueueResult, Pending
    <3>2. commit' = [commit EXCEPT ![a] = @ \cup {<<"dispatch", outcome[a]>>}]
      BY <2>2 DEF QueueResult
    <3> QED
      BY <1>h, <2>2, <3>1, <3>2 DEF CallbackTypes
  <2>3. CASE \E e \in SupplierCodes : MarkQueueFailure(a, e)
    <3>1. PICK e \in SupplierCodes : commit' = [commit EXCEPT ![a] = @ \ {<<"mark", e>>}]
      BY <2>3 DEF MarkQueueFailure
    <3> QED
      BY <3>1 DEF CallbackTypes
  <2> QED
    BY <2>1, <2>2, <2>3
<1>6. CallbackTypes'
  BY <1>1, <1>3, <1>5 DEF CallbackTypes, attemptVars, RecordRow, DeliveryRow
<1>7. RecordOK'
  <2>1. a \notin erased =>
          /\ sent[a] \subseteq {record'[a].event}
          /\ record'[a].state = "absent" => sent[a] = {}
          /\ \A p \in commit'[a] : record'[a].state # "absent" /\ p[2] = record'[a].event
    <3>1. a \notin erased =>
            /\ sent[a] \subseteq {record[a].event}
            /\ record[a].state = "absent" => sent[a] = {}
            /\ \A p \in commit[a] : record[a].state # "absent" /\ p[2] = record[a].event
      BY DEF RecordOK
    <3> QED
      BY <1>4, <1>5, <3>1
  <2>2. record'[a].state = "delivered" => record'[a].event \in accepted[a]
    BY <1>4 DEF RecordOK
  <2> QED
    BY <1>1, <1>3, <1>4, <1>5, <2>1, <2>2 DEF RecordOK
<1>8. TaskOK'
  BY <1>1, <1>3, <1>4 DEF TaskOK
<1>9. ClaimOK'
  BY <1>1, <1>3, <1>4 DEF ClaimOK, IsCalling
<1> QED
  BY <1>6, <1>7, <1>8, <1>9

\* A task is queued, queued again, or ends, without a change of the record.
LEMMA TaskMoves ==
  ASSUME CallbackIInv, NEW t \in Deliverers, NEW x \in DeliveryRow,
         delivery' = [delivery EXCEPT ![t] = x],
         \/ x.pc = "free"
         \/ /\ x.pc = "ready" /\ x.of \in Results /\ x.event \in SupplierCodes
            /\ x.of \notin erased => /\ record[x.of].state # "absent"
                                     /\ x.event = record[x.of].event,
         UNCHANGED <<attemptVars, record, sent, accepted, overran, erased>>,
         mishaps' \in 0 .. MaxMishaps,
         commit' \in [Results -> SUBSET Pending],
         \A b \in Results : commit'[b] \subseteq commit[b]
  PROVE  CallbackIInv'
<1> USE DEF CallbackIInv
<1>1. /\ delivery' \in [Deliverers -> DeliveryRow] /\ delivery'[t] = x
      /\ \A u \in Deliverers : u # t => delivery'[u] = delivery[u]
  BY DEF CallbackTypes
<1>2. CallbackTypes'
  BY <1>1 DEF CallbackTypes, attemptVars, RecordRow, DeliveryRow
<1>3. RecordOK'
  BY DEF RecordOK
<1>4. TaskOK'
  BY <1>1 DEF TaskOK
<1>5. ClaimOK'
  BY <1>1 DEF ClaimOK, IsCalling
<1> QED
  BY <1>2, <1>3, <1>4, <1>5

LEMMA TasksQueued ==
  ASSUME CallbackIInv, NEW a \in Results,
         Recover(a) \/ \E e \in SupplierCodes : DispatchCallback(a, e)
  PROVE  CallbackIInv'
<1>1. PICK f \in SupplierCodes :
        /\ a \notin erased => record[a].state # "absent" /\ f = record[a].event
        /\ \E t \in Deliverers : delivery' = Enqueued(t, a, f)
  <2>1. ASSUME NEW e \in SupplierCodes, DispatchCallback(a, e)
        PROVE  \E f \in SupplierCodes :
                 /\ a \notin erased => record[a].state # "absent" /\ f = record[a].event
                 /\ \E t \in Deliverers : delivery' = Enqueued(t, a, f)
    <3>1. a \notin erased => record[a].state # "absent" /\ <<"dispatch", e>>[2] = record[a].event
      BY <2>1 DEF DispatchCallback, CallbackIInv, RecordOK
    <3> QED
      BY <2>1, <3>1 DEF DispatchCallback
  <2>2. CASE Recover(a)
    <3>1. record[a].state # "absent" /\ record[a].event \in SupplierCodes
      BY <2>2 DEF Recover, Batch, Stranded, CallbackIInv, RecordOK
    <3> QED
      BY <2>2, <3>1 DEF Recover
  <2> QED
    BY <2>1, <2>2
<1>2. PICK t \in Deliverers : delivery' = Enqueued(t, a, f)
  BY <1>1
<1> DEFINE x == [NoTask EXCEPT !.pc = "ready", !.of = a, !.event = f]
<1>3. x \in DeliveryRow /\ x.pc = "ready" /\ x.of = a /\ x.event = f
  BY <1>1, CallbackBounds DEF NoTask, DeliveryRow
<1>4. delivery' = [delivery EXCEPT ![t] = x]
  BY <1>2 DEF Enqueued
<1>5. /\ UNCHANGED <<attemptVars, record, sent, accepted, overran, erased, mishaps>>
      /\ commit' \in [Results -> SUBSET Pending]
      /\ \A b \in Results : commit'[b] \subseteq commit[b]
  BY DEF DispatchCallback, Recover, CallbackIInv, CallbackTypes
<1>6. mishaps' \in 0 .. MaxMishaps
  BY <1>5 DEF CallbackIInv, CallbackTypes
<1> HIDE DEF x
<1> QED
  BY <1>1, <1>3, <1>4, <1>5, <1>6, TaskMoves

\* What a retried task becomes.
LEMMA RetriedRow ==
  ASSUME CallbackIInv, NEW t \in Deliverers, delivery[t].pc # "free"
  PROVE  \E x \in DeliveryRow :
           /\ Retried(t) = [delivery EXCEPT ![t] = x]
           /\ x.pc = "free" \/ /\ x.pc = "ready" /\ x.of = delivery[t].of
                               /\ x.event = delivery[t].event
<1>1. delivery[t] \in DeliveryRow
  BY DEF CallbackIInv, CallbackTypes
<1>2. CASE delivery[t].retries = MaxCallbackRetries
  BY <1>2, RowsBegin DEF Retried, NoTask
<1>3. CASE delivery[t].retries # MaxCallbackRetries
  <2> DEFINE x == [delivery[t] EXCEPT !.pc = "ready", !.reply = None, !.retries = @ + 1]
  <2>1. delivery[t].retries + 1 \in 0 .. MaxCallbackRetries
    BY <1>1, <1>3, CallbackBounds DEF DeliveryRow
  <2>2. x \in DeliveryRow /\ x.pc = "ready" /\ x.of = delivery[t].of /\ x.event = delivery[t].event
    BY <1>1, <2>1 DEF DeliveryRow
  <2>3. Retried(t) = [delivery EXCEPT ![t] = x]
    BY <1>3 DEF Retried
  <2> HIDE DEF x
  <2> QED
    BY <2>2, <2>3
<1> QED
  BY <1>2, <1>3

LEMMA TasksInterrupted ==
  ASSUME CallbackIInv, NEW t \in Deliverers, WorkerLost(t) \/ CallbackTimeLimit(t)
  PROVE  CallbackIInv'
<1>1. mishaps' \in 0 .. MaxMishaps /\ delivery[t] \in DeliveryRow
  BY MishapCounts DEF WorkerLost, CallbackTimeLimit, CallbackIInv, CallbackTypes
<1>2. commit' \in [Results -> SUBSET Pending] /\ commit' = commit
  BY DEF WorkerLost, CallbackTimeLimit, CallbackIInv, CallbackTypes
<1>3. CASE CallbackTimeLimit(t)
  <2>1. NoTask.pc = "free"
    BY DEF NoTask
  <2> QED
    BY <1>1, <1>2, <1>3, <2>1, RowsBegin, TaskMoves DEF CallbackTimeLimit
<1>4. CASE WorkerLost(t)
  <2> DEFINE x == [delivery[t] EXCEPT !.pc = "ready", !.reply = None]
  <2>1. x \in DeliveryRow /\ x.pc = "ready" /\ x.of = delivery[t].of /\ x.event = delivery[t].event
    BY <1>1 DEF DeliveryRow
  <2>2. /\ delivery[t].of \in Results /\ delivery[t].event \in SupplierCodes
        /\ delivery[t].of \notin erased => /\ record[delivery[t].of].state # "absent"
                                           /\ delivery[t].event = record[delivery[t].of].event
    BY <1>4 DEF WorkerLost, CallbackIInv, TaskOK
  <2>3. delivery' = [delivery EXCEPT ![t] = x]
    BY <1>4 DEF WorkerLost, CallbackIInv, CallbackTypes
  <2>4. UNCHANGED <<attemptVars, record, sent, accepted, overran, erased>>
    BY <1>4 DEF WorkerLost
  <2> HIDE DEF x
  <2> QED
    BY <1>1, <1>2, <2>1, <2>2, <2>3, <2>4, TaskMoves
<1> QED
  BY <1>3, <1>4

\* _claim_delivery.
LEMMA Claims ==
  ASSUME CallbackIInv, NEW t \in Deliverers, ClaimDelivery(t)
  PROVE  CallbackIInv'
<1> USE DEF CallbackIInv
<1> DEFINE a == delivery[t].of
<1> DEFINE claimed == /\ record[a].event = delivery[t].event
                     /\ Deliverable(record[a]) /\ ~Running(record[a])
<1>1. /\ a \in Results /\ delivery[t].event \in SupplierCodes
      /\ a \notin erased => record[a].state # "absent" /\ delivery[t].event = record[a].event
      /\ delivery[t] \in DeliveryRow /\ record[a] \in RecordRow
  BY DEF ClaimDelivery, TaskOK, CallbackTypes
<1>2. UNCHANGED <<attemptVars, commit, sent, accepted, erased, mishaps>>
  BY DEF ClaimDelivery
<1>3. CASE ~claimed
  <2>1. UNCHANGED <<record, overran>>
    BY <1>3 DEF ClaimDelivery
  <2>2. delivery' = Retried(t) \/ delivery' = [delivery EXCEPT ![t] = NoTask]
    BY <1>3 DEF ClaimDelivery
  <2>3. delivery[t].pc # "free"
    BY DEF ClaimDelivery
  <2>4. PICK x \in DeliveryRow :
          /\ delivery' = [delivery EXCEPT ![t] = x]
          /\ x.pc = "free" \/ (x.pc = "ready" /\ x.of = a /\ x.event = delivery[t].event)
    <3>1. NoTask.pc = "free"
      BY DEF NoTask
    <3> QED
      BY <2>2, <2>3, <3>1, RetriedRow, RowsBegin
  <2>5. mishaps' \in 0 .. MaxMishaps /\ commit' \in [Results -> SUBSET Pending]
    BY <1>2 DEF CallbackTypes
  <2> HIDE DEF CallbackIInv, claimed
  <2> QED
    BY <1>1, <1>2, <2>1, <2>4, <2>5, TaskMoves
<1>4. CASE claimed
  <2>1. /\ record' = [record EXCEPT ![a].state = "delivering", ![a].age = 0]
        /\ delivery' = [delivery EXCEPT ![t].pc = IF configured[a] THEN "sending" ELSE "answered",
                                        ![t].reply = IF configured[a] THEN None ELSE "refused"]
        /\ overran' = IF record[a].age > 0 /\ InFlight(a) # {} THEN overran \cup {a} ELSE overran
    BY <1>1, <1>4 DEF ClaimDelivery
  <2>2. /\ record' \in [Results -> RecordRow]
        /\ record'[a].state = "delivering" /\ record'[a].event = record[a].event
        /\ \A b \in Results : b # a => record'[b] = record[b]
    <3> DEFINE y == [record[a] EXCEPT !.state = "delivering", !.age = 0]
    <3>1. y \in RecordRow /\ y.state = "delivering" /\ y.event = record[a].event
      BY <1>1, RecordWritten
    <3>2. record' = [record EXCEPT ![a] = y]
      BY <1>1, <2>1 DEF CallbackTypes
    <3> HIDE DEF y
    <3> QED
      BY <1>1, <3>1, <3>2 DEF CallbackTypes
  <2>3. /\ delivery' \in [Deliverers -> DeliveryRow]
        /\ delivery'[t].of = a /\ delivery'[t].event = delivery[t].event
        /\ delivery'[t].pc \in {"sending", "answered"} /\ delivery'[t].reply # "ok"
        /\ \A u \in Deliverers : u # t => delivery'[u] = delivery[u]
    <3> DEFINE x == [delivery[t] EXCEPT !.pc = IF configured[a] THEN "sending" ELSE "answered",
                                        !.reply = IF configured[a] THEN None ELSE "refused"]
    <3>1. /\ x \in DeliveryRow /\ x.of = a /\ x.event = delivery[t].event
          /\ x.pc \in {"sending", "answered"} /\ x.reply # "ok"
      BY <1>1 DEF DeliveryRow, None
    <3>2. delivery' = [delivery EXCEPT ![t] = x]
      BY <2>1 DEF CallbackTypes
    <3> HIDE DEF x
    <3> QED
      BY <3>1, <3>2 DEF CallbackTypes
  <2>4. CallbackTypes'
    <3>1. overran' \subseteq Results
      BY <1>1, <2>1 DEF CallbackTypes
    <3>2. UNCHANGED <<outcome, newer, lapsed, configured, commit, sent, accepted, erased, mishaps>>
      BY <1>2 DEF attemptVars
    <3>3. record' \in [Results -> RecordRow] /\ delivery' \in [Deliverers -> DeliveryRow]
      BY <2>2, <2>3
    <3> HIDE DEF a, claimed
    <3> QED
      BY <1>1, <3>1, <3>2, <3>3 DEF CallbackTypes, RecordRow, DeliveryRow
  <2>5. RecordOK'
    <3>1. record[a].event \in SupplierCodes /\ record[a].state # "absent"
      BY <1>1, <1>4 DEF Deliverable
    <3> HIDE DEF a
    <3> QED
      BY <1>1, <1>2, <2>2, <3>1 DEF RecordOK
  <2>6. TaskOK'
    <3> SUFFICES ASSUME NEW u \in Deliverers, delivery'[u].pc # "free"
                 PROVE  /\ delivery'[u].of \in Results /\ delivery'[u].event \in SupplierCodes
                        /\ delivery'[u].of \notin erased' =>
                             /\ record'[delivery'[u].of].state # "absent"
                             /\ delivery'[u].event = record'[delivery'[u].of].event
                        /\ delivery'[u].pc = "answered" /\ delivery'[u].reply = "ok" =>
                             delivery'[u].event \in accepted'[delivery'[u].of]
      BY DEF TaskOK
    <3>0. delivery'[t].event \in SupplierCodes /\ delivery'[t].event = record'[a].event
      BY <1>1, <1>4, <2>2, <2>3
    <3> HIDE DEF a, claimed
    <3>1. CASE u = t
      BY <1>1, <2>2, <2>3, <3>0, <3>1
    <3>2. CASE u # t
      BY <1>2, <2>2, <2>3, <3>2 DEF TaskOK
    <3> QED
      BY <3>1, <3>2
  <2>7. a \notin overran' \cup erased => \A u \in Deliverers : ~IsCalling(u, a)
    <3> SUFFICES ASSUME a \notin overran' \cup erased, NEW u \in Deliverers, IsCalling(u, a)
                 PROVE  FALSE
      OBVIOUS
    <3>1. u \in InFlight(a) /\ a \notin overran
      BY <2>1 DEF IsCalling, InFlight
    <3>2. record[a].state = "delivering"
      BY <1>1, <3>1 DEF ClaimOK
    <3>3. record[a].age > 0
      BY <1>1, <1>4, <3>2 DEF Running, RecordRow
    <3> QED
      BY <2>1, <3>1, <3>3
  <2>8. ClaimOK'
    <3>1. \A b \in Results : b \notin overran' => b \notin overran
      BY <2>1
    <3> HIDE DEF a
    <3> QED
      BY <1>1, <1>2, <2>2, <2>3, <2>7, <3>1 DEF ClaimOK, IsCalling
  <2> QED
    BY <2>4, <2>5, <2>6, <2>8
<1> QED
  BY <1>3, <1>4

\* deliver_supplier_result_callback between the two transactions.
LEMMA SupplierCalled ==
  ASSUME CallbackIInv, NEW t \in Deliverers, CallSupplier(t)
  PROVE  CallbackIInv'
<1> USE DEF CallbackIInv
<1> DEFINE a == delivery[t].of
<1>1. /\ a \in Results /\ delivery[t] \in DeliveryRow /\ delivery[t].event \in SupplierCodes
      /\ a \notin erased => record[a].state # "absent" /\ delivery[t].event = record[a].event
  BY DEF CallSupplier, TaskOK, CallbackTypes
<1>2. PICK reply \in {"ok", "busy", "refused"} :
        /\ delivery' = [delivery EXCEPT ![t].pc = "answered", ![t].reply = reply]
        /\ sent' = [sent EXCEPT ![a] = @ \cup {delivery[t].event}]
        /\ accepted' = IF reply = "ok" THEN [accepted EXCEPT ![a] = @ \cup {delivery[t].event}]
                       ELSE accepted
  BY DEF CallSupplier
<1>3. UNCHANGED <<attemptVars, record, commit, overran, erased, mishaps>>
  BY DEF CallSupplier
<1>4. /\ delivery' \in [Deliverers -> DeliveryRow]
      /\ delivery'[t].of = a /\ delivery'[t].event = delivery[t].event
      /\ delivery'[t].pc = "answered" /\ delivery'[t].reply = reply
      /\ \A u \in Deliverers : u # t => delivery'[u] = delivery[u]
  <2> DEFINE x == [delivery[t] EXCEPT !.pc = "answered", !.reply = reply]
  <2>1. /\ x \in DeliveryRow /\ x.of = a /\ x.event = delivery[t].event
        /\ x.pc = "answered" /\ x.reply = reply
    BY <1>1 DEF DeliveryRow
  <2>2. delivery' = [delivery EXCEPT ![t] = x]
    BY <1>2 DEF CallbackTypes
  <2> HIDE DEF x
  <2> QED
    BY <2>1, <2>2 DEF CallbackTypes
<1>5. /\ sent' \in [Results -> SUBSET SupplierCodes]
      /\ accepted' \in [Results -> SUBSET SupplierCodes]
      /\ a \notin erased => sent'[a] \subseteq {record[a].event}
      /\ reply = "ok" => delivery[t].event \in accepted'[a]
      /\ \A b \in Results : b # a => sent'[b] = sent[b]
      /\ \A b \in Results : accepted[b] \subseteq accepted'[b]
  BY <1>1, <1>2 DEF CallbackTypes, RecordOK
<1>6. CallbackTypes'
  BY <1>3, <1>4, <1>5 DEF CallbackTypes, attemptVars, RecordRow, DeliveryRow
<1>7. RecordOK'
  BY <1>1, <1>3, <1>5 DEF RecordOK
<1>8. TaskOK'
  BY <1>1, <1>3, <1>4, <1>5 DEF TaskOK
<1>9. ClaimOK'
  <2>1. \A u \in Deliverers, b \in Results : IsCalling(u, b)' <=> IsCalling(u, b)
    BY <1>4 DEF IsCalling, CallSupplier
  <2> QED
    BY <1>3, <2>1 DEF ClaimOK
<1> QED
  BY <1>6, <1>7, <1>8, <1>9

\* _finish_delivery.
LEMMA Finishes ==
  ASSUME CallbackIInv, NEW t \in Deliverers, FinishDelivery(t)
  PROVE  CallbackIInv'
<1> USE DEF CallbackIInv
<1> DEFINE a == delivery[t].of
<1>1. /\ a \in Results /\ delivery[t].event \in SupplierCodes
      /\ a \notin erased => record[a].state # "absent" /\ delivery[t].event = record[a].event
      /\ delivery[t] \in DeliveryRow /\ record[a] \in RecordRow /\ delivery[t].pc = "answered"
      /\ delivery[t].reply = "ok" => delivery[t].event \in accepted[a]
  BY DEF FinishDelivery, TaskOK, CallbackTypes
<1>2. UNCHANGED <<attemptVars, commit, sent, accepted, overran, erased, mishaps>>
  BY DEF FinishDelivery
<1>3. PICK x \in DeliveryRow :
        /\ delivery' = [delivery EXCEPT ![t] = x]
        /\ x.pc = "free" \/ (x.pc = "ready" /\ x.of = a /\ x.event = delivery[t].event)
  <2>1. delivery' = Retried(t) \/ delivery' = [delivery EXCEPT ![t] = NoTask]
    BY DEF FinishDelivery
  <2>2. NoTask.pc = "free"
    BY DEF NoTask
  <2> HIDE DEF CallbackIInv
  <2> QED
    BY <1>1, <2>1, <2>2, RetriedRow, RowsBegin
<1>4. /\ delivery' \in [Deliverers -> DeliveryRow] /\ delivery'[t] = x
      /\ \A u \in Deliverers : u # t => delivery'[u] = delivery[u]
  BY <1>3 DEF CallbackTypes
<1>5. /\ record' \in [Results -> RecordRow]
      /\ \/ record'[a] = record[a] /\ a \in erased
         \/ /\ record'[a].state \in {"delivered", "failed"}
            /\ record'[a].event = record[a].event /\ record[a].event = delivery[t].event
            /\ record'[a].state = "delivered" => delivery[t].reply = "ok"
      /\ \A b \in Results : b # a => record'[b] = record[b]
  <2>1. CASE record[a].event # delivery[t].event
    BY <1>1, <2>1 DEF FinishDelivery, CallbackTypes
  <2>2. CASE record[a].event = delivery[t].event
    <3>0. PICK end \in {"delivered", "failed"} :
            /\ end = FinishedState(delivery[t].reply)
            /\ end = "delivered" => delivery[t].reply = "ok"
      BY DEF FinishedState
    <3>1. PICK y \in RecordRow :
            /\ record' = [record EXCEPT ![a] = y]
            /\ y.state \in {"delivered", "failed"} /\ y.event = record[a].event
            /\ y.state = "delivered" => delivery[t].reply = "ok"
      <4> DEFINE z == [record[a] EXCEPT !.state = end, !.age = 0]
      <4>1. record' = [record EXCEPT ![a] = z]
        BY <1>1, <2>2, <3>0 DEF FinishDelivery, CallbackTypes
      <4>2. z \in RecordRow /\ z.state = end /\ z.event = record[a].event
        <5>1. end \in {"absent", "queued", "queue_failed", "delivering", "delivered", "failed"}
          OBVIOUS
        <5> HIDE DEF CallbackIInv, a
        <5> QED
          BY <1>1, <5>1, RecordWritten
      <4> HIDE DEF z
      <4> QED
        BY <3>0, <4>1, <4>2
    <3>2. /\ record' \in [Results -> RecordRow] /\ record'[a] = y
          /\ \A b \in Results : b # a => record'[b] = record[b]
      BY <1>1, <3>1 DEF CallbackTypes
    <3> HIDE DEF a
    <3> QED
      BY <2>2, <3>1, <3>2
  <2> QED
    BY <2>1, <2>2
<1>6. CallbackTypes'
  BY <1>2, <1>4, <1>5 DEF CallbackTypes, attemptVars, RecordRow, DeliveryRow
<1>7. RecordOK'
  BY <1>1, <1>2, <1>5 DEF RecordOK
<1>8. TaskOK'
  BY <1>1, <1>2, <1>3, <1>4, <1>5 DEF TaskOK
<1>9. ClaimOK'
  <2>1. a \notin overran \cup erased => \A u \in Deliverers : u # t => ~IsCalling(u, a)
    BY <1>1 DEF ClaimOK, IsCalling
  <2> HIDE DEF a
  <2> QED
    BY <1>2, <1>3, <1>4, <1>5, <2>1 DEF ClaimOK, IsCalling
<1> QED
  BY <1>6, <1>7, <1>8, <1>9

LEMMA CallbackStep == CallbackIInv /\ [CallbackNext]_callbackVars => CallbackIInv'
<1>1. ASSUME CallbackIInv, UNCHANGED callbackVars PROVE CallbackIInv'
  BY <1>1 DEF callbackVars, attemptVars, CallbackIInv, CallbackTypes, RecordRow, DeliveryRow,
              RecordOK, TaskOK, ClaimOK, IsCalling
<1>2. ASSUME CallbackIInv, CallbackNext PROVE CallbackIInv'
  BY <1>2, EnvironmentMoves, AuditReplaced, RecordMoves, TasksQueued, TasksInterrupted, Claims,
     SupplierCalled, Finishes
  DEF CallbackNext
<1> QED
  BY <1>1, <1>2

LEMMA CallbackInductive == CallbackSpec => []CallbackIInv
<1> QED
  BY CallbackBegins, CallbackStep, PTL DEF CallbackSpec

LEMMA AtMostOne == ASSUME NEW S, \A x, y \in S : x = y PROVE Cardinality(S) =< 1
<1>1. S = {} \/ \E x \in S : S = {x}
  OBVIOUS
<1>2. CASE S = {}
  BY <1>2, FS_EmptySet
<1>3. CASE \E x \in S : S = {x}
  <2>1. PICK x : S = {x}
    BY <1>3
  <2>2. Cardinality({x}) = 1
    BY FS_Singleton
  <2> QED
    BY <2>1, <2>2
<1> QED
  BY <1>1, <1>2, <1>3

LEMMA CallbackKept == CallbackIInv => CallbackInv
<1> SUFFICES ASSUME CallbackIInv PROVE CallbackInv
  OBVIOUS
<1>1. CallbackTypeOK
  BY DEF CallbackIInv, CallbackTypes, CallbackTypeOK, RecordRow, DeliveryRow
<1>2. OneCallPerClaim
  <2> SUFFICES ASSUME NEW a \in Results, a \notin overran \cup erased
               PROVE  Cardinality(InFlight(a)) =< 1
    BY DEF OneCallPerClaim
  <2>1. \A t, u \in InFlight(a) : t = u
    BY DEF CallbackIInv, ClaimOK, IsCalling, InFlight
  <2> QED
    BY <2>1, AtMostOne
<1>3. SupplierHearsOneResult
  <2> SUFFICES ASSUME NEW a \in Results, a \notin erased PROVE Cardinality(sent[a]) =< 1
    BY DEF CallbackIInv, RecordOK, SupplierHearsOneResult
  <2>1. \A x, y \in sent[a] : x = y
    BY DEF CallbackIInv, RecordOK
  <2> QED
    BY <2>1, AtMostOne
<1> QED
  BY <1>1, <1>2, <1>3 DEF CallbackInv

(****************************************************************************)
(* For any number of attempts and delivery tasks, deliver_supplier_result_  *)
(* callback marks only what the supplier accepted, and until a late poll     *)
(* replaces the attempt's audit it sends one result per attempt, from one    *)
(* task at a time unless a claim was outlived.                               *)
(****************************************************************************)
THEOREM CallbacksCorrect == CallbackSpec => []CallbackInv
<1> QED
  BY CallbackInductive, CallbackKept, PTL

LEMMA DeliveredStep ==
  CallbackIInv /\ [CallbackNext]_callbackVars =>
    [\A a \in Results \ (overran' \cup erased') :
       record[a].state = "delivered" => record'[a].state = "delivered"]_callbackVars
<1>1. ASSUME CallbackIInv, CallbackNext, NEW a \in Results, a \notin overran' \cup erased',
             record[a].state = "delivered"
      PROVE  record'[a].state = "delivered"
  <2> USE <1>1
  <2>1. record \in [Results -> RecordRow]
    BY DEF CallbackIInv, CallbackTypes
  <2>2. ASSUME NEW b \in Results,
               \/ ReplaceAudit(b) \/ GrowOlder(b) \/ QueueResult(b)
               \/ \E e \in SupplierCodes : MarkQueueFailure(b, e)
        PROVE  record'[a] = record[a]
    <3>1. a # b \/ record' = record
      <4>1. CASE ReplaceAudit(b)
        BY <4>1 DEF ReplaceAudit
      <4>2. CASE GrowOlder(b) \/ QueueResult(b)
        BY <4>2 DEF GrowOlder, QueueResult, SupplierAccepts, NoRecord
      <4>3. CASE \E e \in SupplierCodes : MarkQueueFailure(b, e)
        BY <4>3 DEF MarkQueueFailure
      <4> QED
        BY <2>2, <4>1, <4>2, <4>3
    <3> QED
      BY <2>1, <2>2, <3>1 DEF ReplaceAudit, GrowOlder, QueueResult, MarkQueueFailure
  <2>3. ASSUME NEW t \in Deliverers, ClaimDelivery(t) PROVE record'[a] = record[a]
    <3>1. record' # record => delivery[t].of # a
      BY <2>3 DEF ClaimDelivery, Deliverable
    <3> QED
      BY <2>1, <2>3, <3>1 DEF ClaimDelivery
  <2>4. ASSUME NEW t \in Deliverers, FinishDelivery(t) PROVE record'[a] = record[a]
    <3>1. delivery[t].of # a
      <4>1. a \notin overran \cup erased /\ delivery[t].pc = "answered"
        BY <2>4 DEF FinishDelivery
      <4> QED
        BY <4>1 DEF CallbackIInv, ClaimOK, IsCalling
    <3> QED
      BY <2>1, <2>4, <3>1 DEF FinishDelivery
  <2>5. CASE UNCHANGED record
    BY <2>5
  <2> QED
    BY <2>2, <2>3, <2>4, <2>5
    DEF CallbackNext, ReviseOutcome, RemoveCallbackUrl, LapseRecovery, DispatchCallback,
        DispatchLost, Recover, CallSupplier, WorkerLost, CallbackTimeLimit
<1> QED
  BY <1>1

(****************************************************************************)
(* _finish_delivery never takes back a delivered result, unless two workers *)
(* were calling the supplier for the attempt. Only an answer of the provider *)
(* stored in place of the audit removes it.                                  *)
(****************************************************************************)
THEOREM DeliveryFinal == CallbackSpec => DeliveredStands
<1> QED
  BY DeliveredStep, CallbackInductive, PTL DEF CallbackSpec, DeliveredStands

-----------------------------------------------------------------------------
(* ExportJobs *)

ExportStatus == {"absent", "deleted", "queued", "running", "completed", "failed"}
ExportRow == [status : ExportStatus, query : Queries \cup {"none"}, downloaded : BOOLEAN,
              expired : BOOLEAN]
AskingRow == [pc : {"idle", "create", "enqueue"}, query : Queries \cup {"none"},
              job : Jobs \cup {"none"}]
BuilderRow == [pc : {"idle", "building", "written", "replaced"}, job : Jobs \cup {"none"}]

ExportTypes ==
  /\ export \in [Jobs -> ExportRow] /\ file \in [Jobs -> {"none", "temporary", "whole"}]
  /\ message \in [Jobs -> 0 .. 2] /\ asking \in [Requests -> AskingRow]
  /\ builder \in [Builders -> BuilderRow]
  /\ cleaner \in [pc : {"idle", "delete", "unlink"}, keys : SUBSET Jobs]
  /\ leaked \subseteq Jobs /\ exportFaults \in 0 .. MaxExportFaults

\* Until its task is queued, a new row is known to the request that created it.
AskingOK ==
  /\ \A j \in Jobs : /\ Exists(j) => export[j].query \in Queries
                     /\ export[j].status = "absent" => message[j] = 0
  /\ \A r \in Requests :
       /\ asking[r].pc # "idle" => asking[r].query \in Queries
       /\ asking[r].pc # "enqueue" => asking[r].job = "none"
       /\ asking[r].pc = "enqueue" =>
            /\ asking[r].job \in Jobs
            /\ export[asking[r].job].status = "queued" /\ message[asking[r].job] = 0
            /\ ~export[asking[r].job].expired
            /\ \A s \in Requests : asking[s].job = asking[r].job => s = r

\* A row that is built is running, or has been deleted meanwhile.
BuilderOK ==
  \A b \in Builders :
    /\ builder[b].pc = "idle" => builder[b].job = "none"
    /\ builder[b].pc # "idle" =>
         /\ builder[b].job \in Jobs
         /\ export[builder[b].job].status \in {"running", "deleted"}
         /\ \A c \in Builders : builder[c].job = builder[b].job => c = b

\* What a file is, for the row and the clean-up, and for the builder.
FileOfJob(j) ==
  /\ export[j].status = "absent" => file[j] = "none"
  /\ export[j].status = "completed" => file[j] = "whole"
  /\ j \in Unlinking =>
       /\ export[j].status = "deleted"
       /\ file[j] = "temporary" => j \in leaked \/ \E b \in Builders : builder[b].job = j

FileOfBuilder(b, j) ==
  builder[b].pc = "replaced" /\ builder[b].job = j =>
    /\ file[j] # "temporary"
    /\ file[j] = "none" => ~Exists(j)
    /\ file[j] # "none" /\ ~Exists(j) => j \in leaked \cup Unlinking

FileOK == \A j \in Jobs : FileOfJob(j) /\ \A b \in Builders : FileOfBuilder(b, j)

ExportIInv == ExportTypes /\ AskingOK /\ BuilderOK /\ FileOK /\ NoFileForgotten

LEMMA ExportBounds ==
  /\ MaxExportFaults \in Nat /\ "none" \notin Jobs /\ 0 \in 0 .. MaxExportFaults
  /\ \A n \in 0 .. MaxExportFaults : n < MaxExportFaults => n + 1 \in 0 .. MaxExportFaults
<1> QED
  BY ExportJobsAssumption

LEMMA ExportBegins == ExportInit => ExportIInv
<1> SUFFICES ASSUME ExportInit PROVE ExportIInv
  OBVIOUS
<1>1. /\ NoJob \in ExportRow /\ NotAsking \in AskingRow /\ NotBuilding \in BuilderRow
      /\ NotCleaning \in [pc : {"idle", "delete", "unlink"}, keys : SUBSET Jobs] /\ NotCleaning.keys = {}
  BY DEF NoJob, NotAsking, NotBuilding, NotCleaning, ExportRow, ExportStatus, AskingRow, BuilderRow
<1>2. ExportTypes
  BY <1>1, ExportBounds DEF ExportInit, ExportTypes
<1>3. AskingOK
  BY ExportBounds DEF ExportInit, AskingOK, Exists, NoJob, NotAsking
<1>4. BuilderOK
  BY DEF ExportInit, BuilderOK, NotBuilding
<1>5. FileOK /\ NoFileForgotten
  BY <1>1 DEF ExportInit, FileOK, FileOfJob, Unlinking, FileOfBuilder, NoFileForgotten, NoJob, NotBuilding
<1> QED
  BY <1>2, <1>3, <1>4, <1>5 DEF ExportIInv

LEMMA FaultCounts == ASSUME ExportIInv, Fault PROVE exportFaults' \in 0 .. MaxExportFaults
<1> QED
  BY ExportBounds DEF Fault, ExportIInv, ExportTypes

LEMMA StatusWritten ==
  ASSUME NEW row \in ExportRow, NEW status \in ExportStatus
  PROVE  LET x == [row EXCEPT !.status = status]
         IN  x \in ExportRow /\ x.status = status /\ x.query = row.query /\ x.expired = row.expired
<1> QED
  BY DEF ExportRow

-----------------------------------------------------------------------------
\* export_job_create: the look-up, and a request that dies after its commit.
LEMMA Asked ==
  ASSUME ExportIInv, NEW r \in Requests, LookUpExport(r) \/ RequestKilled(r)
  PROVE  ExportIInv'
<1> USE DEF ExportIInv
<1>1. UNCHANGED <<export, file, message, builder, cleaner, leaked>>
  BY DEF LookUpExport, RequestKilled
<1>2. exportFaults' \in 0 .. MaxExportFaults
  BY FaultCounts DEF LookUpExport, RequestKilled, ExportTypes
<1>3. PICK x \in AskingRow : /\ asking' = [asking EXCEPT ![r] = x]
                             /\ x.pc # "idle" => x.query \in Queries
                             /\ x.pc # "enqueue" /\ x.job = "none"
  <2>1. CASE RequestKilled(r)
    <3>1. NotAsking \in AskingRow /\ NotAsking.pc = "idle" /\ NotAsking.job = "none"
      BY DEF NotAsking, AskingRow
    <3> QED
      BY <2>1, <3>1 DEF RequestKilled
  <2>2. CASE LookUpExport(r)
    <3>1. PICK q \in Queries :
            asking' = [asking EXCEPT ![r] = [pc |-> "create", query |-> q, job |-> "none"]]
      BY <2>2 DEF LookUpExport
    <3>2. [pc |-> "create", query |-> q, job |-> "none"] \in AskingRow
      BY DEF AskingRow
    <3> QED
      BY <3>1, <3>2
  <2> QED
    BY <2>1, <2>2
<1>4. /\ asking' \in [Requests -> AskingRow] /\ asking'[r] = x
      /\ \A s \in Requests : s # r => asking'[s] = asking[s]
  BY <1>3 DEF ExportTypes
<1>5. ExportTypes'
  BY <1>1, <1>2, <1>4 DEF ExportTypes, ExportRow, AskingRow, BuilderRow
<1>6. AskingOK'
  BY <1>1, <1>3, <1>4, ExportBounds DEF AskingOK, Exists
<1>7. BuilderOK' /\ FileOK' /\ NoFileForgotten'
  BY <1>1 DEF BuilderOK, FileOK, FileOfJob, Unlinking, FileOfBuilder, NoFileForgotten, Exists
<1> QED
  BY <1>5, <1>6, <1>7

LEMMA Created ==
  ASSUME ExportIInv, NEW r \in Requests, CreateExport(r)
  PROVE  ExportIInv'
<1> USE DEF ExportIInv
<1>1. UNCHANGED <<file, message, builder, cleaner, leaked, exportFaults>>
  BY DEF CreateExport
<1>2. PICK j \in Jobs :
        /\ export[j] = NoJob
        /\ export' = [export EXCEPT ![j] = [NoJob EXCEPT !.status = "queued",
                                                         !.query = asking[r].query]]
        /\ asking' = [asking EXCEPT ![r].pc = "enqueue", ![r].job = j]
  BY DEF CreateExport
<1>3. asking[r].query \in Queries /\ asking[r] \in AskingRow
  BY DEF CreateExport, AskingOK, ExportTypes
<1>4. /\ export' \in [Jobs -> ExportRow]
      /\ export'[j].status = "queued" /\ ~export'[j].expired /\ export'[j].query \in Queries
      /\ \A i \in Jobs : i # j => export'[i] = export[i]
  <2> DEFINE x == [NoJob EXCEPT !.status = "queued", !.query = asking[r].query]
  <2>1. x \in ExportRow /\ x.status = "queued" /\ ~x.expired /\ x.query \in Queries
    BY <1>3 DEF NoJob, ExportRow, ExportStatus
  <2>2. export' = [export EXCEPT ![j] = x]
    BY <1>2
  <2> HIDE DEF x
  <2> QED
    BY <2>1, <2>2 DEF ExportTypes
<1>5. /\ asking' \in [Requests -> AskingRow]
      /\ asking'[r].pc = "enqueue" /\ asking'[r].job = j /\ asking'[r].query = asking[r].query
      /\ \A s \in Requests : s # r => asking'[s] = asking[s]
  <2> DEFINE x == [asking[r] EXCEPT !.pc = "enqueue", !.job = j]
  <2>1. x \in AskingRow /\ x.pc = "enqueue" /\ x.job = j /\ x.query = asking[r].query
    BY <1>3 DEF AskingRow
  <2>2. asking' = [asking EXCEPT ![r] = x]
    BY <1>2 DEF ExportTypes
  <2> HIDE DEF x
  <2> QED
    BY <2>1, <2>2 DEF ExportTypes
<1>6. export[j].status = "absent"
  BY <1>2 DEF NoJob
<1>7. ExportTypes'
  BY <1>1, <1>4, <1>5 DEF ExportTypes, ExportRow, AskingRow, BuilderRow
<1>8. AskingOK'
  <2>1. message[j] = 0
    BY <1>6 DEF AskingOK
  <2> QED
    BY <1>1, <1>3, <1>4, <1>5, <1>6, <2>1, ExportBounds DEF AskingOK, Exists
<1>9. BuilderOK'
  BY <1>1, <1>4, <1>6 DEF BuilderOK
<1>10. FileOK' /\ NoFileForgotten'
  BY <1>1, <1>4, <1>6 DEF FileOK, FileOfJob, Unlinking, FileOfBuilder, NoFileForgotten, BuilderOK, Exists
<1> QED
  BY <1>7, <1>8, <1>9, <1>10

\* The end of export_job_create: the task is queued, or the broker refuses it.
LEMMA Queued ==
  ASSUME ExportIInv, NEW r \in Requests, EnqueueBuild(r) \/ EnqueueRefused(r)
  PROVE  ExportIInv'
<1> USE DEF ExportIInv
<1> DEFINE j == asking[r].job
<1>1. /\ j \in Jobs /\ export[j].status = "queued" /\ export[j] \in ExportRow
      /\ \A s \in Requests : asking[s].job = j => s = r
  BY DEF EnqueueBuild, EnqueueRefused, AskingOK, ExportTypes
<1>2. UNCHANGED <<file, builder, cleaner, leaked>>
  BY DEF EnqueueBuild, EnqueueRefused
<1>3. exportFaults' \in 0 .. MaxExportFaults
  BY FaultCounts DEF EnqueueBuild, EnqueueRefused, ExportTypes
<1>4. /\ asking' \in [Requests -> AskingRow]
      /\ asking'[r].pc = "idle" /\ asking'[r].job = "none"
      /\ \A s \in Requests : s # r => asking'[s] = asking[s]
  <2>1. NotAsking \in AskingRow /\ NotAsking.pc = "idle" /\ NotAsking.job = "none"
    BY DEF NotAsking, AskingRow
  <2> QED
    BY <2>1 DEF EnqueueBuild, EnqueueRefused, ExportTypes
<1>5. /\ export' \in [Jobs -> ExportRow]
      /\ export'[j].status \in {"queued", "failed"} /\ export'[j].query = export[j].query
      /\ \A i \in Jobs : i # j => export'[i] = export[i]
  <2>1. CASE EnqueueBuild(r)
    BY <1>1, <2>1 DEF EnqueueBuild, ExportTypes
  <2>2. CASE EnqueueRefused(r)
    <3> DEFINE x == [export[j] EXCEPT !.status = "failed"]
    <3>1. x \in ExportRow /\ x.status = "failed" /\ x.query = export[j].query
      BY <1>1, StatusWritten DEF ExportStatus
    <3>2. export' = [export EXCEPT ![j] = x]
      BY <1>1, <2>2 DEF EnqueueRefused, Exists
    <3> HIDE DEF x
    <3> QED
      BY <1>1, <3>1, <3>2 DEF ExportTypes
  <2> QED
    BY <2>1, <2>2
<1>6. /\ message' \in [Jobs -> 0 .. 2]
      /\ \A i \in Jobs : i # j => message'[i] = message[i]
  BY <1>1 DEF EnqueueBuild, EnqueueRefused, ExportTypes
<1> HIDE DEF j
<1>7. ExportTypes'
  BY <1>2, <1>3, <1>4, <1>5, <1>6 DEF ExportTypes, ExportRow, AskingRow, BuilderRow
<1>8. AskingOK'
  BY <1>1, <1>4, <1>5, <1>6, ExportBounds DEF AskingOK, Exists, j
<1>9. BuilderOK'
  BY <1>1, <1>2, <1>5 DEF BuilderOK
<1>10. FileOK' /\ NoFileForgotten'
  BY <1>1, <1>2, <1>5 DEF FileOK, FileOfJob, Unlinking, FileOfBuilder, NoFileForgotten, BuilderOK, Exists
<1> QED
  BY <1>7, <1>8, <1>9, <1>10

\* A download, the passing of time, a duplicated message.
LEMMA JobMoves ==
  ASSUME ExportIInv, NEW j \in Jobs, DownloadExport(j) \/ ExpireExport(j) \/ DuplicateMessage(j)
  PROVE  ExportIInv'
<1> USE DEF ExportIInv
<1>1. UNCHANGED <<file, asking, builder, cleaner, leaked>>
  BY DEF DownloadExport, ExpireExport, DuplicateMessage
<1>2. exportFaults' \in 0 .. MaxExportFaults
  BY FaultCounts DEF DownloadExport, ExpireExport, DuplicateMessage, ExportTypes
<1>3. /\ export' \in [Jobs -> ExportRow]
      /\ \A i \in Jobs : /\ export'[i].status = export[i].status
                         /\ export'[i].query = export[i].query
                         /\ i # j => export'[i] = export[i]
      /\ export'[j].expired # export[j].expired => \A r \in Requests : asking[r].job # j
  <2>1. export[j] \in ExportRow
    BY DEF ExportTypes
  <2>2. PICK x \in ExportRow :
          /\ export' = [export EXCEPT ![j] = x]
          /\ x.status = export[j].status /\ x.query = export[j].query
          /\ x.expired # export[j].expired => \A r \in Requests : asking[r].job # j
    <3>1. CASE DownloadExport(j)
      <4> DEFINE x == [export[j] EXCEPT !.downloaded = TRUE]
      <4>1. x \in ExportRow /\ x.status = export[j].status /\ x.query = export[j].query
            /\ x.expired = export[j].expired
        BY <2>1 DEF ExportRow
      <4>2. export' = [export EXCEPT ![j] = x]
        BY <3>1 DEF DownloadExport
      <4> HIDE DEF x
      <4> QED
        BY <4>1, <4>2
    <3>2. CASE ExpireExport(j)
      <4> DEFINE x == [export[j] EXCEPT !.expired = TRUE]
      <4>1. x \in ExportRow /\ x.status = export[j].status /\ x.query = export[j].query
        BY <2>1 DEF ExportRow
      <4>2. export' = [export EXCEPT ![j] = x] /\ \A r \in Requests : asking[r].job # j
        BY <3>2 DEF ExpireExport
      <4> HIDE DEF x
      <4> QED
        BY <4>1, <4>2
    <3>3. CASE DuplicateMessage(j)
      <4>1. export' = [export EXCEPT ![j] = export[j]]
        BY <3>3 DEF DuplicateMessage, ExportTypes
      <4> QED
        BY <2>1, <4>1
    <3> QED
      BY <3>1, <3>2, <3>3
  <2> QED
    BY <2>2 DEF ExportTypes
<1>4. /\ message' \in [Jobs -> 0 .. 2]
      /\ \A i \in Jobs : message[i] = 0 => message'[i] = 0
  BY DEF DownloadExport, ExpireExport, DuplicateMessage, ExportTypes
<1>5. ExportTypes'
  BY <1>1, <1>2, <1>3, <1>4 DEF ExportTypes, ExportRow, AskingRow, BuilderRow
<1>6. AskingOK'
  <2> SUFFICES ASSUME NEW r \in Requests, asking[r].pc = "enqueue"
               PROVE  ~export'[asking[r].job].expired
    BY <1>1, <1>3, <1>4 DEF AskingOK, Exists
  <2> QED
    BY <1>3 DEF AskingOK
<1>7. BuilderOK' /\ FileOK' /\ NoFileForgotten'
  BY <1>1, <1>3 DEF BuilderOK, FileOK, FileOfJob, Unlinking, FileOfBuilder, NoFileForgotten, Exists
<1> QED
  BY <1>5, <1>6, <1>7

-----------------------------------------------------------------------------
\* The claim of build_export_job.
LEMMA Started ==
  ASSUME ExportIInv, NEW b \in Builders, StartBuild(b)
  PROVE  ExportIInv'
<1> USE DEF ExportIInv
<1>1. UNCHANGED <<file, asking, cleaner, leaked, exportFaults>>
  BY DEF StartBuild
<1>2. PICK j \in Jobs :
        /\ message[j] > 0 /\ message' = [message EXCEPT ![j] = @ - 1]
        /\ IF Claimable(j)
             THEN /\ export' = [export EXCEPT ![j].status = "running"]
                  /\ builder' = [builder EXCEPT ![b] = [pc |-> "building", job |-> j]]
             ELSE UNCHANGED <<export, builder>>
  BY DEF StartBuild
<1>3. /\ message' \in [Jobs -> 0 .. 2]
      /\ \A i \in Jobs : message[i] = 0 => message'[i] = 0
      /\ \A r \in Requests : asking[r].pc = "enqueue" => asking[r].job # j
  BY <1>2 DEF ExportTypes, AskingOK
<1>4. CASE ~Claimable(j)
  <2>1. UNCHANGED <<export, builder>>
    BY <1>2, <1>4
  <2>2. ExportTypes'
    BY <1>1, <1>3, <2>1 DEF ExportTypes, ExportRow, AskingRow, BuilderRow
  <2>3. AskingOK'
    BY <1>1, <1>3, <2>1 DEF AskingOK, Exists
  <2>4. BuilderOK' /\ FileOK' /\ NoFileForgotten'
    BY <1>1, <2>1 DEF BuilderOK, FileOK, FileOfJob, Unlinking, FileOfBuilder, NoFileForgotten, Exists
  <2> QED
    BY <2>2, <2>3, <2>4
<1>5. CASE Claimable(j)
  <2>1. /\ export' \in [Jobs -> ExportRow]
        /\ export'[j].status = "running" /\ export'[j].query = export[j].query
        /\ \A i \in Jobs : i # j => export'[i] = export[i]
    <3> DEFINE x == [export[j] EXCEPT !.status = "running"]
    <3>1. x \in ExportRow /\ x.status = "running" /\ x.query = export[j].query
      BY StatusWritten DEF ExportTypes, ExportStatus
    <3>2. export' = [export EXCEPT ![j] = x]
      BY <1>2, <1>5
    <3> HIDE DEF x
    <3> QED
      BY <3>1, <3>2 DEF ExportTypes
  <2>2. /\ builder' \in [Builders -> BuilderRow]
        /\ builder[b].pc = "idle" /\ builder'[b].pc = "building" /\ builder'[b].job = j
        /\ \A c \in Builders : c # b => builder'[c] = builder[c]
    BY <1>2, <1>5 DEF StartBuild, NotBuilding, ExportTypes, BuilderRow
  <2>3. export[j].status = "queued"
    BY <1>5 DEF Claimable
  <2>4. ExportTypes'
    BY <1>1, <1>3, <2>1, <2>2 DEF ExportTypes, ExportRow, AskingRow, BuilderRow
  <2>5. AskingOK'
    BY <1>1, <1>3, <2>1, <2>3 DEF AskingOK, Exists
  <2>6. BuilderOK'
    BY <2>1, <2>2, <2>3, ExportBounds DEF BuilderOK
  <2>7. FileOK'
    BY <1>1, <2>1, <2>2, <2>3, ExportBounds DEF FileOK, FileOfJob, Unlinking, FileOfBuilder, BuilderOK, Exists
  <2>8. NoFileForgotten'
    BY <1>1, <2>1, <2>2, <2>3, ExportBounds DEF NoFileForgotten, Unlinking, BuilderOK, Exists
  <2> QED
    BY <2>4, <2>5, <2>6, <2>7, <2>8
<1> QED
  BY <1>4, <1>5

\* The workbook, first under its temporary name.
LEMMA Built ==
  ASSUME ExportIInv, NEW b \in Builders, WriteTemporary(b) \/ ReplaceFile(b)
  PROVE  ExportIInv'
<1> USE DEF ExportIInv
<1> DEFINE j == builder[b].job
<1>1. UNCHANGED <<export, message, asking, cleaner, exportFaults>>
  BY DEF WriteTemporary, ReplaceFile
<1>2. /\ j \in Jobs /\ export[j].status \in {"running", "deleted"} /\ builder[b] \in BuilderRow
      /\ \A c \in Builders : builder[c].job = j => c = b
  BY DEF WriteTemporary, ReplaceFile, BuilderOK, ExportTypes
<1>3. PICK x \in BuilderRow : /\ builder' = [builder EXCEPT ![b] = x]
                              /\ x.job = j /\ x.pc \in {"written", "replaced"}
                              /\ x.pc = "written" <=> WriteTemporary(b)
                              /\ x.pc = "replaced" <=> ReplaceFile(b)
  <2>1. CASE WriteTemporary(b)
    <3> DEFINE x == [builder[b] EXCEPT !.pc = "written"]
    <3>1. x \in BuilderRow /\ x.job = j /\ x.pc = "written" /\ builder' = [builder EXCEPT ![b] = x]
      BY <1>2, <2>1 DEF WriteTemporary, BuilderRow
    <3>2. ~ReplaceFile(b)
      BY <2>1 DEF WriteTemporary, ReplaceFile
    <3> HIDE DEF x
    <3> QED
      BY <2>1, <3>1, <3>2
  <2>2. CASE ReplaceFile(b)
    <3> DEFINE x == [builder[b] EXCEPT !.pc = "replaced"]
    <3>1. x \in BuilderRow /\ x.job = j /\ x.pc = "replaced" /\ builder' = [builder EXCEPT ![b] = x]
      BY <1>2, <2>2 DEF ReplaceFile, BuilderRow
    <3>2. ~WriteTemporary(b)
      BY <2>2 DEF WriteTemporary, ReplaceFile
    <3> HIDE DEF x
    <3> QED
      BY <2>2, <3>1, <3>2
  <2> QED
    BY <2>1, <2>2
<1>4. /\ builder' \in [Builders -> BuilderRow]
      /\ builder'[b].job = j /\ builder'[b].pc = x.pc /\ builder'[b].pc # "idle"
      /\ \A c \in Builders : c # b => builder'[c] = builder[c]
      /\ \A c \in Builders : builder'[c].job = builder[c].job
  BY <1>3 DEF ExportTypes
<1>5. /\ file' \in [Jobs -> {"none", "temporary", "whole"}]
      /\ file'[j] # "none"
      /\ ReplaceFile(b) => file'[j] = "whole"
      /\ \A i \in Jobs : i # j => file'[i] = file[i]
  BY <1>2 DEF WriteTemporary, ReplaceFile, Replaced, ExportTypes
<1>6. /\ leaked' \subseteq Jobs /\ leaked \subseteq leaked'
      /\ ReplaceFile(b) => Exists(j) \/ j \in leaked'
  BY <1>2 DEF WriteTemporary, ReplaceFile, ExportTypes
<1> HIDE DEF j
<1>7. ExportTypes'
  BY <1>1, <1>4, <1>5, <1>6 DEF ExportTypes, ExportRow, AskingRow, BuilderRow
<1>8. AskingOK' /\ BuilderOK'
  <2>1. AskingOK'
    BY <1>1 DEF AskingOK, Exists
  <2>2. BuilderOK'
    BY <1>1, <1>2, <1>4 DEF BuilderOK
  <2> QED
    BY <2>1, <2>2
<1>9. FileOK'
  <2> SUFFICES ASSUME NEW i \in Jobs
               PROVE  FileOfJob(i)' /\ \A c \in Builders : FileOfBuilder(c, i)'
    BY DEF FileOK
  <2>1. FileOfJob(i) /\ \A c \in Builders : FileOfBuilder(c, i)
    BY DEF FileOK
  <2>2. CASE i = j
    <3>1. FileOfJob(i)'
      BY <1>1, <1>2, <1>4, <2>1, <2>2 DEF FileOfJob, Unlinking
    <3>2. \A c \in Builders : c # b => builder'[c].job # i
      BY <1>2, <1>4, <2>2
    <3>3. FileOfBuilder(b, i)'
      BY <1>1, <1>3, <1>4, <1>5, <1>6, <2>2 DEF FileOfBuilder, Unlinking, Exists
    <3> QED
      BY <3>1, <3>2, <3>3 DEF FileOfBuilder, Unlinking
  <2>3. CASE i # j
    <3>1. FileOfJob(i)'
      BY <1>1, <1>4, <1>5, <1>6, <2>1, <2>3 DEF FileOfJob, Unlinking
    <3>2. \A c \in Builders : FileOfBuilder(c, i)'
      BY <1>1, <1>4, <1>5, <1>6, <2>1, <2>3 DEF FileOfBuilder, Unlinking, Exists
    <3> QED
      BY <3>1, <3>2
  <2> QED
    BY <2>2, <2>3
<1>10. NoFileForgotten'
  BY <1>1, <1>4, <1>5, <1>6 DEF NoFileForgotten, Unlinking, Exists
<1> QED
  BY <1>7, <1>8, <1>9, <1>10

\* The end of a build: completed, failed, or with its process.
LEMMA BuildEnded ==
  ASSUME ExportIInv, NEW b \in Builders, CompleteBuild(b) \/ BuildFails(b) \/ BuilderKilled(b)
  PROVE  ExportIInv'
<1> USE DEF ExportIInv
<1> DEFINE j == builder[b].job
<1>1. UNCHANGED <<file, message, asking, cleaner>>
  BY DEF CompleteBuild, BuildFails, BuilderKilled
<1>2. exportFaults' \in 0 .. MaxExportFaults
  BY FaultCounts DEF CompleteBuild, BuildFails, BuilderKilled, ExportTypes
<1>3. /\ j \in Jobs /\ export[j].status \in {"running", "deleted"} /\ export[j] \in ExportRow
      /\ \A c \in Builders : builder[c].job = j => c = b
  BY DEF CompleteBuild, BuildFails, BuilderKilled, BuilderOK, ExportTypes
<1>4. /\ builder' \in [Builders -> BuilderRow] /\ builder'[b].pc = "idle" /\ builder'[b].job = "none"
      /\ \A c \in Builders : c # b => builder'[c] = builder[c]
  <2>1. NotBuilding \in BuilderRow /\ NotBuilding.pc = "idle" /\ NotBuilding.job = "none"
    BY DEF NotBuilding, BuilderRow
  <2>2. builder' = [builder EXCEPT ![b] = NotBuilding]
    BY DEF CompleteBuild, BuildFails, BuilderKilled, EndBuild
  <2> QED
    BY <2>1, <2>2 DEF ExportTypes
<1>5. PICK status \in {"running", "deleted", "failed", "completed"} :
        /\ export' = [export EXCEPT ![j].status = status]
        /\ status = "deleted" <=> export[j].status = "deleted"
        /\ status = "completed" => CompleteBuild(b)
  <2>1. CASE Exists(j) /\ CompleteBuild(b)
    BY <1>3, <2>1 DEF CompleteBuild, EndBuild, Exists
  <2>2. CASE Exists(j) /\ BuildFails(b)
    BY <1>3, <2>2 DEF BuildFails, EndBuild, Exists
  <2>3. CASE ~Exists(j) \/ BuilderKilled(b)
    <3>1. export' = export
      BY <2>3 DEF CompleteBuild, BuildFails, BuilderKilled, EndBuild
    <3>2. [export[j] EXCEPT !.status = export[j].status] = export[j]
      BY <1>3 DEF ExportRow
    <3>3. export = [export EXCEPT ![j] = export[j]]
      BY DEF ExportTypes
    <3>4. export' = [export EXCEPT ![j].status = export[j].status]
      BY <3>1, <3>2, <3>3
    <3> QED
      BY <1>3, <3>4
  <2> QED
    BY <2>1, <2>2, <2>3
<1>6. /\ export' \in [Jobs -> ExportRow]
      /\ export'[j].status = status /\ export'[j].query = export[j].query
      /\ \A i \in Jobs : i # j => export'[i] = export[i]
  <2> DEFINE x == [export[j] EXCEPT !.status = status]
  <2>1. export' = [export EXCEPT ![j] = x] /\ status \in ExportStatus
    BY <1>5 DEF ExportStatus
  <2> HIDE DEF j
  <2>2. x \in ExportRow /\ x.status = status /\ x.query = export[j].query
    BY <1>3, <2>1, StatusWritten
  <2> HIDE DEF x
  <2> QED
    BY <1>3, <2>1, <2>2 DEF ExportTypes
<1>7. /\ leaked' \subseteq Jobs /\ leaked \subseteq leaked'
      /\ \/ j \in leaked'
         \/ builder[b].pc = "replaced"
         \/ Exists(j) /\ file[j] # "temporary"
      /\ CompleteBuild(b) => builder[b].pc = "replaced"
  BY <1>3 DEF CompleteBuild, BuildFails, BuilderKilled, ExportTypes
<1>8. /\ file[j] = "temporary" => j \in leaked'
      /\ file[j] # "none" /\ ~Exists(j) => j \in leaked' \cup Unlinking
      /\ CompleteBuild(b) /\ Exists(j) => file[j] = "whole"
  <2>1. FileOfBuilder(b, j) /\ file[j] \in {"none", "temporary", "whole"}
    BY <1>3 DEF FileOK, ExportTypes
  <2>2. builder[b].pc = "replaced" =>
          /\ file[j] # "temporary"
          /\ file[j] = "none" => ~Exists(j)
          /\ file[j] # "none" /\ ~Exists(j) => j \in leaked \cup Unlinking
    BY <2>1 DEF FileOfBuilder, Unlinking
  <2> HIDE DEF j, ExportIInv
  <2> QED
    BY <1>7, <2>1, <2>2
<1> HIDE DEF j
<1>11. export'[j].status \notin {"absent", "deleted"} <=> Exists(j)
  BY <1>3, <1>5, <1>6 DEF Exists
<1>12. ExportTypes'
  BY <1>1, <1>2, <1>4, <1>6, <1>7 DEF ExportTypes, ExportRow, AskingRow, BuilderRow
<1>13. AskingOK'
  BY <1>1, <1>3, <1>5, <1>6 DEF AskingOK, Exists
<1>14. BuilderOK'
  BY <1>3, <1>4, <1>6, ExportBounds DEF BuilderOK
<1>15. FileOK'
  <2> SUFFICES ASSUME NEW i \in Jobs
               PROVE  FileOfJob(i)' /\ \A c \in Builders : FileOfBuilder(c, i)'
    BY DEF FileOK
  <2>1. FileOfJob(i) /\ \A c \in Builders : FileOfBuilder(c, i)
    BY DEF FileOK
  <2>2. CASE i = j
    <3>1. \A c \in Builders : builder'[c].job # i
      BY <1>3, <1>4, <2>2, ExportBounds
    <3>2. FileOfJob(i)'
      BY <1>1, <1>3, <1>5, <1>6, <1>8, <2>1, <2>2 DEF FileOfJob, Unlinking, Exists
    <3> QED
      BY <3>1, <3>2 DEF FileOfBuilder, Unlinking
  <2>3. CASE i # j
    <3>1. FileOfJob(i)'
      <4>1. \A c \in Builders : builder[c].job = i => builder'[c].job = i
        BY <1>4, <2>3 DEF j
      <4> QED
        BY <1>1, <1>6, <1>7, <2>1, <2>3, <4>1 DEF FileOfJob, Unlinking
    <3>2. \A c \in Builders : FileOfBuilder(c, i)'
      BY <1>1, <1>4, <1>6, <1>7, <2>1, <2>3 DEF FileOfBuilder, Unlinking, Exists
    <3> QED
      BY <3>1, <3>2
  <2> QED
    BY <2>2, <2>3
<1>16. NoFileForgotten'
  <2> SUFFICES ASSUME NEW i \in Jobs, file'[i] # "none", ~Exists(i)'
               PROVE  \/ i \in leaked' \cup Unlinking'
                      \/ \E c \in Builders : builder'[c].job = i
    BY DEF NoFileForgotten, Unlinking
  <2>1. CASE i = j
    BY <1>1, <1>8, <1>11, <2>1 DEF Unlinking, Exists
  <2>2. CASE i # j
    <3>1. \A c \in Builders : builder[c].job = i => builder'[c].job = i
      BY <1>4, <2>2 DEF j
    <3>2. ~Exists(i) /\ file[i] # "none"
      BY <1>1, <1>6, <2>2 DEF Exists
    <3> QED
      BY <1>1, <1>7, <3>1, <3>2 DEF NoFileForgotten, Unlinking
  <2> QED
    BY <2>1, <2>2
<1> QED
  BY <1>12, <1>13, <1>14, <1>15, <1>16

-----------------------------------------------------------------------------
\* cleanup_expired_export_jobs deletes rows first.
LEMMA KeysListed == ExportIInv /\ ListExpired => ExportIInv'
<1> SUFFICES ASSUME ExportIInv, ListExpired PROVE ExportIInv'
  OBVIOUS
<1> USE DEF ExportIInv
<1>1. UNCHANGED <<export, file, message, asking, builder, leaked, exportFaults>>
  BY DEF ListExpired
<1>2. /\ cleaner' \in [pc : {"idle", "delete", "unlink"}, keys : SUBSET Jobs]
      /\ Unlinking' = {} /\ Unlinking = {}
  BY DEF ListExpired, Expired, Unlinking, NotCleaning
<1>3. ExportTypes' /\ AskingOK' /\ BuilderOK'
  BY <1>1, <1>2
  DEF ExportTypes, ExportRow, AskingRow, BuilderRow, AskingOK, BuilderOK, Exists
<1>4. FileOK' /\ NoFileForgotten'
  BY <1>1, <1>2 DEF FileOK, FileOfJob, FileOfBuilder, NoFileForgotten, Exists
<1> QED
  BY <1>3, <1>4

LEMMA Deleted == ExportIInv /\ DeleteExpired => ExportIInv'
<1> SUFFICES ASSUME ExportIInv, DeleteExpired PROVE ExportIInv'
  OBVIOUS
<1> USE DEF ExportIInv
<1> DEFINE gone == Expired \cap cleaner.keys
<1>1. UNCHANGED <<file, message, asking, builder, exportFaults>>
  BY DEF DeleteExpired
<1>2. /\ gone \subseteq Jobs /\ Unlinking = {}
      /\ cleaner' = [pc |-> "unlink", keys |-> gone]
      /\ leaked' = leaked \cup {j \in gone : file[j] = "temporary"}
      /\ \A j \in gone : Exists(j) /\ export[j].expired
  BY DEF DeleteExpired, Expired, Unlinking
<1>4. /\ export' \in [Jobs -> ExportRow]
      /\ \A j \in gone : export'[j].status = "deleted"
      /\ \A j \in Jobs : j \notin gone => export'[j] = export[j]
  <2> DEFINE x == [NoJob EXCEPT !.status = "deleted"]
  <2>1. x \in ExportRow /\ x.status = "deleted"
    BY DEF NoJob, ExportRow, ExportStatus
  <2>2. export' = [j \in Jobs |-> IF j \in gone THEN x ELSE export[j]]
    BY DEF DeleteExpired
  <2> HIDE DEF x, gone
  <2> QED
    BY <1>2, <2>1, <2>2 DEF ExportTypes
<1> HIDE DEF gone
<1>3. /\ cleaner' \in [pc : {"idle", "delete", "unlink"}, keys : SUBSET Jobs]
      /\ Unlinking' = gone
  BY <1>2 DEF Unlinking
<1>5. ExportTypes'
  BY <1>1, <1>2, <1>3, <1>4 DEF ExportTypes, ExportRow, AskingRow, BuilderRow
<1>6. AskingOK'
  <2>1. \A r \in Requests : asking[r].pc = "enqueue" => asking[r].job \notin gone
    BY <1>2 DEF AskingOK
  <2> QED
    BY <1>1, <1>4, <2>1 DEF AskingOK, Exists
<1>7. BuilderOK'
  BY <1>1, <1>4 DEF BuilderOK
<1>8. FileOK'
  BY <1>1, <1>2, <1>3, <1>4 DEF FileOK, FileOfJob, FileOfBuilder, Exists
<1>9. NoFileForgotten'
  BY <1>1, <1>2, <1>3, <1>4 DEF NoFileForgotten, Exists
<1> QED
  BY <1>5, <1>6, <1>7, <1>8, <1>9

\* ... and then their files, unless it dies.
LEMMA Unlinks == ExportIInv /\ (UnlinkFiles \/ CleanerKilled) => ExportIInv'
<1> SUFFICES ASSUME ExportIInv, UnlinkFiles \/ CleanerKilled PROVE ExportIInv'
  OBVIOUS
<1> USE DEF ExportIInv
<1>1. UNCHANGED <<export, message, asking, builder>>
  BY DEF UnlinkFiles, CleanerKilled
<1>2. exportFaults' \in 0 .. MaxExportFaults
  BY FaultCounts DEF UnlinkFiles, CleanerKilled, ExportTypes
<1>3. /\ cleaner' \in [pc : {"idle", "delete", "unlink"}, keys : SUBSET Jobs] /\ Unlinking' = {}
  BY DEF UnlinkFiles, CleanerKilled, NotCleaning, Unlinking
<1>4. /\ leaked' \subseteq Jobs /\ leaked \subseteq leaked'
      /\ file' \in [Jobs -> {"none", "temporary", "whole"}]
      /\ \A j \in Jobs :
           /\ file'[j] = file[j] \/ (file'[j] = "none" /\ j \in Unlinking)
           /\ j \in Unlinking => j \in leaked' \/ file'[j] = "none" \/ file'[j] = "temporary"
  BY DEF UnlinkFiles, CleanerKilled, Unlinked, Unlinking, ExportTypes
<1>5. ExportTypes'
  BY <1>1, <1>2, <1>3, <1>4 DEF ExportTypes, ExportRow, AskingRow, BuilderRow
<1>6. AskingOK' /\ BuilderOK'
  BY <1>1 DEF AskingOK, BuilderOK, Exists
<1>7. ASSUME NEW j \in Jobs PROVE FileOfJob(j)' /\ \A b \in Builders : FileOfBuilder(b, j)'
  <2>1. FileOfJob(j) /\ \A b \in Builders : FileOfBuilder(b, j)
    BY DEF FileOK
  <2>2. FileOfJob(j)'
    BY <1>1, <1>3, <1>4, <2>1 DEF FileOfJob, Unlinking
  <2>3. \A b \in Builders : FileOfBuilder(b, j)'
    BY <1>1, <1>3, <1>4, <2>1 DEF FileOfJob, Unlinking, FileOfBuilder, Exists
  <2> QED
    BY <2>2, <2>3
<1>8. FileOK'
  BY <1>7 DEF FileOK
<1>9. NoFileForgotten'
  BY <1>1, <1>3, <1>4 DEF NoFileForgotten, Unlinking, FileOK, FileOfJob, Exists
<1> QED
  BY <1>5, <1>6, <1>8, <1>9

LEMMA ExportStep == ExportIInv /\ [ExportNext]_exportVars => ExportIInv'
<1>1. ASSUME ExportIInv, UNCHANGED exportVars PROVE ExportIInv'
  BY <1>1 DEF exportVars, ExportIInv, ExportTypes, ExportRow, AskingRow, BuilderRow, AskingOK,
              BuilderOK, FileOK, FileOfJob, Unlinking, FileOfBuilder, NoFileForgotten, Exists
<1>2. ASSUME ExportIInv, ExportNext PROVE ExportIInv'
  BY <1>2, Asked, Created, Queued, JobMoves, Started, Built, BuildEnded, KeysListed,
     Deleted, Unlinks
  DEF ExportNext
<1> QED
  BY <1>1, <1>2

LEMMA ExportInductive == ExportSpec => []ExportIInv
<1> QED
  BY ExportBegins, ExportStep, PTL DEF ExportSpec

LEMMA ExportKept == ExportIInv => ExportInv
<1> SUFFICES ASSUME ExportIInv PROVE ExportInv
  OBVIOUS
<1> USE DEF ExportIInv
<1>1. ExportTypeOK
  BY DEF ExportTypes, ExportTypeOK, AskingOK, ExportRow, ExportStatus, BuilderRow
<1>2. ServedHasFile
  BY DEF ServedHasFile, Served, FileOK, FileOfJob, Unlinking
<1>3. OneBuilderPerJob
  BY DEF OneBuilderPerJob, BuilderOK
<1> QED
  BY <1>1, <1>2, <1>3 DEF ExportInv

(****************************************************************************)
(* build_export_job and cleanup_expired_export_jobs, for any number of      *)
(* jobs and processes: one builder per job, a file behind every row that    *)
(* can be downloaded, a row or a dead process behind every file.            *)
(****************************************************************************)
THEOREM ExportsCorrect == ExportSpec => []ExportInv
<1> QED
  BY ExportInductive, ExportKept, PTL

-----------------------------------------------------------------------------
(* FinalIds *)

UploadRow == [client : Buying, month : Months, decision : Decisions,
              applied : {Cardinality(A) : A \in SUBSET Journeys}]
Active == {i \in Imports : import[i] # NoImport}

FinalTypes ==
  /\ ended \in [Journeys -> Lifecycles] /\ final \in [Journeys -> Verdicts]
  /\ trail \in [Journeys -> Seq(FinalItem)] /\ uploads \in Seq(UploadRow)
  /\ import \in [Imports -> Transaction \cup {NoImport}]
  /\ begun \in 0 .. MaxUploads

\* Every upload row was one transaction, every import at work is another.
BegunOK == IsFiniteSet(Active) /\ Len(uploads) + Cardinality(Active) =< begun

\* No row has two holders.
LocksOK ==
  \A i, j \in Imports : i # j => /\ ClientRows(i) \cap ClientRows(j) = {}
                                 /\ AttemptRows(i) \cap AttemptRows(j) = {}

\* What an import has read of the rows it holds is still so; what a repair has
\* read without their locks is, where the client's row covers the attempt.
ReadStands(i) ==
  import[i] # NoImport =>
    /\ import[i].at # "others" => import[i].omitted = {}
    /\ import[i].at = "others" => /\ \A a \in AttemptRows(i) : import[i].found[a] = final[a]
                                  /\ \A a \in import[i].omitted : final[a] = ""
    /\ import[i].repair => \A a \in Listed(i) : HomeClient[a] = SurveyClient[a] =>
                             HomeClient[a] = import[i].client /\ final[a] = ""

FinalRecords == TrailExplainsVerdict /\ OmissionOverridesNothing /\ RepairRejectsOnlyPending
FinalIInv ==
  FinalTypes /\ BegunOK /\ LocksOK /\ (\A i \in Imports : ReadStands(i)) /\ FinalRecords

LEMMA BegunBounds ==
  \A n \in 0 .. MaxUploads : n \in Nat /\ (n < MaxUploads => n + 1 \in 0 .. MaxUploads)
<1>1. MaxUploads \in Nat
  BY FinalAssumption
<1> QED
  BY <1>1

LEMMA OneMoreBegun == \A k, n, b \in Nat : k + n =< b => k + (n + 1) =< b + 1
<1> QED
  OBVIOUS

LEMMA OneLessActive == \A k, n, b \in Nat : k + n =< b => (k + 1) + (n - 1) =< b
<1> QED
  OBVIOUS

LEMMA UploadBounds ==
  /\ 0 \in 0 .. MaxUploads
  /\ HomeClient \in [Journeys -> Buying] /\ Unmatched \notin Journeys
  /\ \A f \in Files : f \subseteq Journeys \cup {Unmatched}
<1> QED
  BY FinalAssumption

LEMMA IdleImport == NoImport.at = "none" /\ NoImport \notin Transaction
                    /\ \A x \in Transaction : x.at # "none"
<1>1. NoImport.at = "none"
  BY DEF NoImport
<1>2. \A x \in Transaction : x.at # "none"
  BY DEF Transaction
<1> QED
  BY <1>1, <1>2

LEMMA FinalBegins == FinalInit => FinalIInv
<1> SUFFICES ASSUME FinalInit PROVE FinalIInv
  OBVIOUS
<1>0. \A a \in Journeys : trail[a] = <<>> /\ DOMAIN trail[a] = {}
  <2>1. DOMAIN <<>> = {}
    OBVIOUS
  <2> QED
    BY <2>1, Zenon DEF FinalInit
<1>1. FinalTypes
  <2>1. begun \in 0 .. MaxUploads
    BY UploadBounds DEF FinalInit
  <2>2. \A S : <<>> \in Seq(S)
    OBVIOUS
  <2>3. trail \in [Journeys -> Seq(FinalItem)] /\ uploads \in Seq(UploadRow)
    BY <2>2, Zenon DEF FinalInit
  <2>4. ended \in [Journeys -> Lifecycles] /\ final \in [Journeys -> Verdicts]
    BY DEF FinalInit, Lifecycles, Verdicts
  <2> QED
    BY <2>1, <2>3, <2>4 DEF FinalInit, FinalTypes
<1>2. BegunOK
  <2>1. Active = {} /\ Len(uploads) = 0 /\ begun = 0
    BY DEF FinalInit, Active
  <2> QED
    BY <2>1, FS_EmptySet DEF BegunOK
<1>3. LocksOK
  BY IdleImport DEF FinalInit, LocksOK, ClientRows, AttemptRows
<1>4. \A i \in Imports : ReadStands(i)
  BY DEF FinalInit, ReadStands
<1>5. FinalRecords
  <2>1. \A a \in Journeys : final[a] = ""
    BY DEF FinalInit
  <2> QED
    BY <1>0, <2>1 DEF FinalRecords, TrailExplainsVerdict, OmissionOverridesNothing,
                      RepairRejectsOnlyPending
<1> QED
  BY <1>1, <1>2, <1>3, <1>4, <1>5 DEF FinalIInv

\* A transaction begins.
LEMMA ImportBegins ==
  ASSUME FinalIInv, NEW i \in Imports, NEW c \in Buying, NEW m \in Months, NEW d \in Decisions,
         NEW f \in SUBSET (Journeys \cup {Unmatched}), NEW repair \in BOOLEAN,
         Begin(i, c, m, d, f, repair),
         repair => \A a \in f \cap Journeys : HomeClient[a] = SurveyClient[a] =>
                     HomeClient[a] = c /\ final[a] = ""
  PROVE  FinalIInv'
<1> USE DEF FinalIInv
<1> DEFINE x == [at |-> "client", client |-> c, month |-> m, decision |-> d, file |-> f,
                 omitted |-> {}, found |-> [a \in Journeys |-> ""], repair |-> repair]
<1>1. /\ x \in Transaction /\ x.at = "client" /\ x.client = c /\ x.file = f /\ x.omitted = {}
      /\ x.repair = repair /\ x # NoImport
  BY DEF Transaction, Verdicts, Decisions, NoImport
<1>2. /\ import' = [import EXCEPT ![i] = x] /\ import[i] = NoImport
      /\ begun < MaxUploads /\ begun' = begun + 1 /\ MayLockClient(i, c)
      /\ UNCHANGED <<ended, final, trail, uploads>>
  BY DEF Begin
<1> HIDE DEF x
<1>3. /\ import' \in [Imports -> Transaction \cup {NoImport}] /\ import'[i] = x
      /\ \A j \in Imports : j # i => import'[j] = import[j]
  BY <1>1, <1>2 DEF FinalTypes
<1>4. FinalTypes'
  BY <1>2, <1>3, BegunBounds DEF FinalTypes
<1>5. BegunOK'
  <2>1. Active' = Active \cup {i} /\ i \notin Active
    BY <1>1, <1>2, <1>3 DEF Active
  <2>2. IsFiniteSet(Active') /\ Cardinality(Active') = Cardinality(Active) + 1
    BY <2>1, FS_AddElement DEF BegunOK
  <2>3. Len(uploads) \in Nat /\ begun \in Nat /\ Cardinality(Active) \in Nat
    <3>1. Cardinality(Active) \in Nat
      BY FS_CardinalityType DEF BegunOK
    <3>2. Len(uploads) \in Nat
      BY LenProperties DEF FinalTypes
    <3>3. begun \in Nat
      BY BegunBounds DEF FinalTypes
    <3> QED
      BY <3>1, <3>2, <3>3
  <2>4. Len(uploads) + (Cardinality(Active) + 1) =< begun + 1
    BY <2>3, OneMoreBegun, Zenon DEF BegunOK
  <2> QED
    BY <1>2, <2>2, <2>4, Zenon DEF BegunOK
<1>6. LocksOK'
  <2>1. ClientRows(i)' = {c} /\ AttemptRows(i)' = {}
    BY <1>1, <1>3 DEF ClientRows, AttemptRows
  <2>2. \A j \in Imports \ {i} : ClientRows(j)' = ClientRows(j) /\ AttemptRows(j)' = AttemptRows(j)
    BY <1>3 DEF ClientRows, AttemptRows, Listed
  <2>3. \A j \in Imports \ {i} : c \notin ClientRows(j)
    BY <1>2 DEF MayLockClient, ClientsFree
  <2> SUFFICES ASSUME NEW j \in Imports, NEW k \in Imports, j # k
               PROVE  /\ ClientRows(j)' \cap ClientRows(k)' = {}
                      /\ AttemptRows(j)' \cap AttemptRows(k)' = {}
    BY DEF LocksOK
  <2>4. CASE j = i
    BY <2>1, <2>2, <2>3, <2>4
  <2>5. CASE k = i
    BY <2>1, <2>2, <2>3, <2>5
  <2>6. CASE j # i /\ k # i
    BY <2>2, <2>6 DEF LocksOK
  <2> QED
    BY <2>4, <2>5, <2>6
<1>7. ASSUME NEW j \in Imports PROVE ReadStands(j)'
  <2>1. CASE j = i
    BY <1>1, <1>2, <1>3, <2>1 DEF ReadStands, Listed
  <2>2. CASE j # i
    <3>1. ReadStands(j) /\ import'[j] = import[j] /\ final' = final
      BY <1>2, <1>3, <2>2
    <3> HIDE DEF FinalIInv
    <3> QED
      BY <3>1 DEF ReadStands, Listed, AttemptRows
  <2> QED
    BY <2>1, <2>2
<1>8. FinalRecords'
  BY <1>2 DEF FinalRecords, TrailExplainsVerdict, OmissionOverridesNothing, RepairRejectsOnlyPending
<1> QED
  BY <1>4, <1>5, <1>6, <1>7, <1>8

LEMMA ImportsBegin ==
  ASSUME FinalIInv, NEW i \in Imports,
         \/ \E c \in Buying, m \in Months, d \in Decisions :
              \E f \in Files : Upload(i, c, m, d, f)
         \/ \E u \in DOMAIN uploads : Repair(i, u)
  PROVE  FinalIInv'
<1>1. CASE \E c \in Buying, m \in Months, d \in Decisions : \E f \in Files : Upload(i, c, m, d, f)
  BY <1>1, ImportBegins, UploadBounds DEF Upload
<1>2. ASSUME NEW u \in DOMAIN uploads, Repair(i, u) PROVE FinalIInv'
  <2> DEFINE c == uploads[u].client
             m == uploads[u].month
             f == PendingCompletes(c, m)
  <2>1. c \in Buying /\ m \in Months
    <3>1. uploads[u] \in UploadRow
      BY <1>2, ElementOfSeq DEF FinalIInv, FinalTypes
    <3> QED
      BY <3>1 DEF UploadRow
  <2>2. f \in SUBSET (Journeys \cup {Unmatched})
    BY DEF PendingCompletes
  <2>3. \A a \in f : (HomeClient[a] = SurveyClient[a] => HomeClient[a] = c) /\ final[a] = ""
    BY DEF PendingCompletes, Undecided, AttemptMatchesClient
  <2>4. Begin(i, c, m, "rejected", f, TRUE)
    BY <1>2 DEF Repair
  <2> HIDE DEF c, m, f
  <2>5. "rejected" \in Decisions
    BY DEF Decisions
  <2> QED
    BY <2>1, <2>2, <2>3, <2>4, <2>5, ImportBegins
<1> QED
  BY <1>1, <1>2

\* A transaction goes away: its rows are free again.
LEMMA ImportGone ==
  ASSUME FinalIInv, NEW i \in Imports, RepairRefused(i) \/ DeadlockVictim(i)
  PROVE  FinalIInv'
<1> USE DEF FinalIInv
<1>1. /\ import' = [import EXCEPT ![i] = NoImport]
      /\ UNCHANGED <<ended, final, trail, uploads, begun>>
  BY DEF RepairRefused, DeadlockVictim
<1>2. /\ import' \in [Imports -> Transaction \cup {NoImport}] /\ import'[i] = NoImport
      /\ \A j \in Imports : j # i => import'[j] = import[j]
  BY <1>1 DEF FinalTypes
<1>3. FinalTypes'
  BY <1>1, <1>2 DEF FinalTypes
<1>4. BegunOK'
  <2>1. Active' = Active \ {i}
    BY <1>2 DEF Active
  <2>2. IsFiniteSet(Active') /\ Cardinality(Active') =< Cardinality(Active)
    BY <2>1, FS_Subset DEF BegunOK
  <2>3. Cardinality(Active) \in Nat /\ Cardinality(Active') \in Nat
    BY <2>2, FS_CardinalityType DEF BegunOK
  <2>4. Len(uploads) \in Nat /\ begun \in Nat
    BY LenProperties, BegunBounds DEF FinalTypes
  <2> QED
    BY <1>1, <2>2, <2>3, <2>4 DEF BegunOK
<1>5. LocksOK'
  <2>1. ClientRows(i)' = {} /\ AttemptRows(i)' = {}
    BY <1>2, IdleImport DEF ClientRows, AttemptRows
  <2>2. \A j \in Imports \ {i} : ClientRows(j)' = ClientRows(j) /\ AttemptRows(j)' = AttemptRows(j)
    BY <1>2 DEF ClientRows, AttemptRows, Listed
  <2> QED
    BY <2>1, <2>2 DEF LocksOK
<1>6. ASSUME NEW j \in Imports PROVE ReadStands(j)'
  <2>1. CASE j = i
    BY <1>2, <2>1 DEF ReadStands
  <2>2. CASE j # i
    <3>1. ReadStands(j) /\ import'[j] = import[j] /\ final' = final
      BY <1>1, <1>2, <2>2
    <3> HIDE DEF FinalIInv
    <3> QED
      BY <3>1 DEF ReadStands, Listed, AttemptRows
  <2> QED
    BY <2>1, <2>2
<1>7. FinalRecords'
  BY <1>1 DEF FinalRecords, TrailExplainsVerdict, OmissionOverridesNothing, RepairRejectsOnlyPending
<1> QED
  BY <1>3, <1>4, <1>5, <1>6, <1>7

\* The locking reads.
LEMMA ImportLocks ==
  ASSUME FinalIInv, NEW i \in Imports, LockListed(i) \/ LockOthers(i)
  PROVE  FinalIInv'
<1> USE DEF FinalIInv
<1>1. /\ UNCHANGED <<ended, final, trail, uploads, begun>>
      /\ import[i] \in Transaction /\ import[i].at \in {"client", "listed"}
      /\ MayLock(i)
  BY IdleImport DEF LockListed, LockOthers, FinalTypes
<1>2. Omitted(i) \subseteq Journeys /\ \A a \in Omitted(i) : final[a] = ""
  BY DEF Omitted, PendingCompletes, Undecided
<1>3. PICK x \in Transaction :
        /\ import' = [import EXCEPT ![i] = x]
        /\ x.client = import[i].client /\ x.file = import[i].file /\ x.repair = import[i].repair
        /\ \/ /\ import[i].at = "client" /\ x.at = "listed" /\ x.omitted = {}
           \/ /\ import[i].at = "listed" /\ x.at = "others" /\ x.omitted = Omitted(i)
              /\ x.found = final
  <2>1. CASE LockListed(i)
    <3> DEFINE x == [import[i] EXCEPT !.at = "listed"]
    <3>1. /\ x \in Transaction /\ x.client = import[i].client /\ x.file = import[i].file
          /\ x.repair = import[i].repair /\ x.at = "listed" /\ x.omitted = import[i].omitted
      BY <1>1 DEF Transaction
    <3>2. import[i].omitted = {} /\ import[i].at = "client"
      BY <1>1, <2>1, IdleImport DEF LockListed, ReadStands
    <3>3. import' = [import EXCEPT ![i] = x]
      BY <2>1 DEF LockListed
    <3> HIDE DEF x
    <3> QED
      BY <3>1, <3>2, <3>3
  <2>2. CASE LockOthers(i)
    <3> DEFINE x == [import[i] EXCEPT !.at = "others", !.omitted = Omitted(i), !.found = final]
    <3>1. /\ x \in Transaction /\ x.client = import[i].client /\ x.file = import[i].file
          /\ x.repair = import[i].repair /\ x.at = "others" /\ x.omitted = Omitted(i)
          /\ x.found = final
      BY <1>1, <1>2 DEF Transaction, FinalTypes
    <3>2. import[i].at = "listed"
      BY <2>2 DEF LockOthers
    <3>3. import' = [import EXCEPT ![i] = x]
      BY <2>2 DEF LockOthers
    <3> HIDE DEF x
    <3> QED
      BY <3>1, <3>2, <3>3
  <2> QED
    BY <2>1, <2>2
<1>4. /\ import' \in [Imports -> Transaction \cup {NoImport}] /\ import'[i] = x
      /\ \A j \in Imports : j # i => import'[j] = import[j]
  BY <1>3 DEF FinalTypes
<1>5. FinalTypes'
  BY <1>1, <1>4 DEF FinalTypes
<1>6. BegunOK'
  <2>1. Active' = Active
    BY <1>1, <1>3, <1>4, IdleImport DEF Active
  <2> QED
    BY <1>1, <2>1 DEF BegunOK
<1>7. \A j \in Imports \ {i} : ClientRows(j)' = ClientRows(j) /\ AttemptRows(j)' = AttemptRows(j)
  BY <1>4 DEF ClientRows, AttemptRows, Listed
<1>8. /\ ClientRows(i)' \subseteq ClientRows(i) \cup {HomeClient[a] : a \in Wants(i)}
      /\ AttemptRows(i)' \subseteq AttemptRows(i) \cup Wants(i)
  <2>1. CASE import[i].at = "client"
    <3>1. Wants(i) = Listed(i) /\ AttemptRows(i)' = Listed(i)
          /\ ClientRows(i)' = {import[i].client} \cup {HomeClient[a] : a \in Listed(i)}
          /\ import[i].client \in ClientRows(i)
      BY <1>3, <1>4, <2>1 DEF Wants, AttemptRows, ClientRows, Listed
    <3> QED
      BY <3>1
  <2>2. CASE import[i].at = "listed"
    <3>1. import[i].omitted = {}
      BY <1>1, <2>2, IdleImport DEF ReadStands
    <3>2. /\ Wants(i) = Omitted(i) /\ AttemptRows(i) = Listed(i)
          /\ AttemptRows(i)' = Listed(i) \cup Omitted(i)
          /\ ClientRows(i) = {import[i].client} \cup {HomeClient[a] : a \in Listed(i)}
          /\ ClientRows(i)' = {import[i].client}
                              \cup {HomeClient[a] : a \in Listed(i) \cup Omitted(i)}
      BY <1>3, <1>4, <2>2, <3>1 DEF Wants, AttemptRows, ClientRows, Listed
    <3> QED
      BY <3>2
  <2> QED
    BY <1>1, <2>1, <2>2
<1>9. LocksOK'
  <2>1. \A j \in Imports \ {i} : /\ Wants(i) \cap AttemptRows(j) = {}
                                 /\ {HomeClient[a] : a \in Wants(i)} \cap ClientRows(j) = {}
    BY <1>1 DEF MayLock, AttemptsFree, ClientsFree
  <2> SUFFICES ASSUME NEW j \in Imports, NEW k \in Imports, j # k
               PROVE  /\ ClientRows(j)' \cap ClientRows(k)' = {}
                      /\ AttemptRows(j)' \cap AttemptRows(k)' = {}
    BY DEF LocksOK
  <2>2. /\ ClientRows(j) \cap ClientRows(k) = {}
        /\ AttemptRows(j) \cap AttemptRows(k) = {}
    BY DEF LocksOK
  <2>3. CASE j = i
    BY <1>7, <1>8, <2>1, <2>2, <2>3
  <2>4. CASE k = i
    BY <1>7, <1>8, <2>1, <2>2, <2>4
  <2>5. CASE j # i /\ k # i
    BY <1>7, <2>2, <2>5
  <2> QED
    BY <2>3, <2>4, <2>5
<1>10. ASSUME NEW j \in Imports PROVE ReadStands(j)'
  <2>1. CASE j = i
    <3>1. x.repair => \A a \in x.file \cap Journeys : HomeClient[a] = SurveyClient[a] =>
                        HomeClient[a] = x.client /\ final[a] = ""
      BY <1>1, <1>3, IdleImport DEF ReadStands, Listed
    <3>2. import'[i] = x /\ final' = final /\ Listed(i)' = x.file \cap Journeys
      BY <1>1, <1>4 DEF Listed
    <3>3. /\ x.at # "others" => x.omitted = {}
          /\ x.at = "others" => x.found = final /\ \A a \in x.omitted : final[a] = ""
      BY <1>2, <1>3
    <3> HIDE DEF FinalIInv
    <3> QED
      BY <2>1, <3>1, <3>2, <3>3 DEF ReadStands
  <2>2. CASE j # i
    <3>1. ReadStands(j) /\ import'[j] = import[j] /\ final' = final
      BY <1>1, <1>4, <2>2
    <3> HIDE DEF FinalIInv
    <3> QED
      BY <3>1 DEF ReadStands, Listed, AttemptRows
  <2> QED
    BY <2>1, <2>2
<1>11. FinalRecords'
  BY <1>1 DEF FinalRecords, TrailExplainsVerdict, OmissionOverridesNothing, RepairRejectsOnlyPending
<1> QED
  BY <1>5, <1>6, <1>9, <1>10, <1>11

\* A callback ends a journey meanwhile.
LEMMA JourneyEnds ==
  ASSUME FinalIInv, NEW a \in Journeys, NEW s \in Lifecycles, Ends(a, s)
  PROVE  FinalIInv'
<1> USE DEF FinalIInv
<1>1. UNCHANGED <<final, trail, uploads, import, begun>> /\ ended' \in [Journeys -> Lifecycles]
  BY DEF Ends, FinalTypes
<1>2. FinalTypes'
  BY <1>1 DEF FinalTypes
<1>3. BegunOK' /\ LocksOK'
  <2>1. Active' = Active
    BY <1>1 DEF Active
  <2>2. \A i \in Imports : /\ ClientRows(i)' = ClientRows(i)
                           /\ AttemptRows(i)' = AttemptRows(i)
    BY <1>1 DEF ClientRows, AttemptRows, Listed
  <2>3. BegunOK'
    BY <1>1, <2>1 DEF BegunOK
  <2>4. LocksOK'
    BY <2>2 DEF LocksOK
  <2> QED
    BY <2>3, <2>4
<1>4. \A i \in Imports : ReadStands(i)'
  BY <1>1 DEF ReadStands, Listed, AttemptRows
<1>5. FinalRecords'
  BY <1>1 DEF FinalRecords, TrailExplainsVerdict, OmissionOverridesNothing, RepairRejectsOnlyPending
<1> QED
  BY <1>2, <1>3, <1>4, <1>5

\* What one item, and a whole trail, must say of the attempt it is of.
ItemOK(x, a, verdict) ==
  /\ x.previous = verdict
  /\ x.why = "omitted" => verdict = ""
  /\ x.why = "repair" /\ HomeClient[a] = SurveyClient[a] => verdict = ""

Explains(t, a, verdict) ==
  /\ \A n \in DOMAIN t :
       /\ t[n].previous = IF n = 1 THEN "" ELSE t[n - 1].applied
       /\ t[n].why = "omitted" => t[n].previous = ""
       /\ t[n].why = "repair" /\ HomeClient[a] = SurveyClient[a] => t[n].previous = ""
  /\ verdict = IF t = <<>> THEN "" ELSE Last(t).applied

LEMMA ExplainsItems ==
  ASSUME NEW t, NEW a, NEW verdict
  PROVE  Explains(t, a, verdict) <=>
           /\ \A n \in DOMAIN t : ItemOK(t[n], a, IF n = 1 THEN "" ELSE t[n - 1].applied)
           /\ verdict = IF t = <<>> THEN "" ELSE Last(t).applied
<1> QED
  BY Zenon DEF Explains, ItemOK

TrailOK(a) == Explains(trail[a], a, final[a])

LEMMA TrailsOK == FinalRecords <=> \A a \in Journeys : TrailOK(a)
<1> QED
  BY DEF FinalRecords, TrailOK, Explains, TrailExplainsVerdict, OmissionOverridesNothing,
         RepairRejectsOnlyPending

LEMMA Appended ==
  ASSUME NEW S, NEW t \in Seq(S), NEW e \in S
  PROVE  /\ Append(t, e) \in Seq(S) /\ Append(t, e) # <<>> /\ Last(Append(t, e)) = e
         /\ DOMAIN Append(t, e) = 1 .. Len(t) + 1 /\ DOMAIN t = 1 .. Len(t) /\ Len(t) \in Nat
         /\ Append(t, e)[Len(t) + 1] = e
         /\ \A n \in 1 .. Len(t) : Append(t, e)[n] = t[n]
         /\ t = <<>> <=> Len(t) = 0
         /\ Last(t) = t[Len(t)]
<1> QED
  BY AppendProperties, LenProperties, EmptySeq DEF Last

LEMMA GrownByOne ==
  ASSUME NEW k \in Nat, NEW t, NEW u, NEW e, u[k + 1] = e, \A n \in 1 .. k : u[n] = t[n],
         NEW n \in 1 .. k + 1
  PROVE  \/ /\ n \in 1 .. k /\ u[n] = t[n] /\ (n # 1 => u[n - 1] = t[n - 1])
         \/ /\ u[n] = e /\ (n = 1 <=> k = 0) /\ (n # 1 => u[n - 1] = t[k])
<1>1. CASE n \in 1 .. k
  <2>1. n # 1 => u[n - 1] = t[n - 1]
    BY <1>1
  <2> QED
    BY <1>1, <2>1
<1>2. CASE n = k + 1
  <2>1. n = 1 <=> k = 0
    BY <1>2
  <2>2. n # 1 => u[n - 1] = t[k]
    BY <1>2
  <2> QED
    BY <1>2, <2>1, <2>2
<1> QED
  BY <1>1, <1>2

LEMMA TrailGrows ==
  ASSUME NEW t \in Seq(FinalItem), NEW a, NEW verdict, Explains(t, a, verdict),
         NEW e \in FinalItem, ItemOK(e, a, verdict)
  PROVE  Explains(Append(t, e), a, e.applied)
<1> DEFINE k == Len(t)
           u == Append(t, e)
<1>1. /\ k \in Nat /\ u # <<>> /\ Last(u) = e /\ DOMAIN u = 1 .. k + 1 /\ DOMAIN t = 1 .. k
      /\ u[k + 1] = e /\ \A n \in 1 .. k : u[n] = t[n]
      /\ t = <<>> <=> k = 0
      /\ Last(t) = t[k]
  <2>1. t \in Seq(FinalItem) /\ e \in FinalItem
    OBVIOUS
  <2> QED
    BY <2>1, Appended
<1> HIDE DEF k, u
<1>2. \A n \in 1 .. k : ItemOK(t[n], a, IF n = 1 THEN "" ELSE t[n - 1].applied)
  <2>1. \A n \in DOMAIN t : ItemOK(t[n], a, IF n = 1 THEN "" ELSE t[n - 1].applied)
    BY ExplainsItems, Zenon
  <2> QED
    BY <1>1, <2>1, Zenon
<1>3. ItemOK(e, a, IF k = 0 THEN "" ELSE t[k].applied)
  <2>1. verdict = IF t = <<>> THEN "" ELSE Last(t).applied
    BY DEF Explains
  <2>2. verdict = IF k = 0 THEN "" ELSE t[k].applied
    BY <1>1, <2>1
  <2> QED
    BY <2>2, Zenon
<1>4. ASSUME NEW n \in 1 .. k + 1
      PROVE  \/ /\ n \in 1 .. k /\ u[n] = t[n] /\ (n # 1 => u[n - 1] = t[n - 1])
             \/ /\ u[n] = e /\ (n = 1 <=> k = 0) /\ (n # 1 => u[n - 1] = t[k])
  BY <1>1, GrownByOne
<1>5. ASSUME NEW n \in 1 .. k + 1
      PROVE  ItemOK(u[n], a, IF n = 1 THEN "" ELSE u[n - 1].applied)
  <2>1. CASE n \in 1 .. k /\ u[n] = t[n] /\ (n # 1 => u[n - 1] = t[n - 1])
    <3>1. (IF n = 1 THEN "" ELSE u[n - 1].applied) = IF n = 1 THEN "" ELSE t[n - 1].applied
      BY <2>1, Zenon
    <3> QED
      BY <1>2, <2>1, <3>1, Zenon
  <2>2. CASE u[n] = e /\ (n = 1 <=> k = 0) /\ (n # 1 => u[n - 1] = t[k])
    <3>1. (IF n = 1 THEN "" ELSE u[n - 1].applied) = IF k = 0 THEN "" ELSE t[k].applied
      BY <2>2, Zenon
    <3> QED
      BY <1>3, <2>2, <3>1, Zenon
  <2> QED
    BY <1>4, <2>1, <2>2, Zenon
<1>6. Explains(u, a, e.applied)
  <2>1. \A n \in DOMAIN u : ItemOK(u[n], a, IF n = 1 THEN "" ELSE u[n - 1].applied)
    BY <1>1, <1>5, Zenon
  <2>2. e.applied = IF u = <<>> THEN "" ELSE Last(u).applied
    BY <1>1, Zenon
  <2> QED
    BY <2>1, <2>2, ExplainsItems, Zenon
<1> QED
  BY <1>6 DEF u

\* import_final_ids writes its decisions and commits.
LEMMA DecisionsApplied ==
  ASSUME FinalIInv, NEW i \in Imports, Apply(i)
  PROVE  FinalIInv'
<1> USE DEF FinalIInv
<1> DEFINE decided == Eligible(i) \cup import[i].omitted
           item(a) == [previous |-> import[i].found[a], applied |-> Applied(i, a),
                       why |-> Reason(i, a)]
           upload == [client |-> import[i].client, month |-> import[i].month,
                      decision |-> import[i].decision, applied |-> Cardinality(Eligible(i))]
<1>1. /\ import[i] \in Transaction /\ import[i].at = "others" /\ ReadStands(i)
      /\ decided \subseteq AttemptRows(i) /\ decided \subseteq Journeys
      /\ Eligible(i) \subseteq Listed(i) /\ Listed(i) \subseteq Journeys
  BY IdleImport DEF Apply, FinalTypes, Transaction, Eligible, AttemptRows, Listed
<1>2. /\ final' = [a \in Journeys |-> IF a \in decided THEN Applied(i, a) ELSE final[a]]
      /\ trail' = [a \in Journeys |-> IF a \in decided THEN Append(trail[a], item(a))
                                      ELSE trail[a]]
      /\ uploads' = Append(uploads, upload)
      /\ import' = [import EXCEPT ![i] = NoImport]
      /\ UNCHANGED <<ended, begun>>
  BY DEF Apply
<1>3. ASSUME NEW a \in decided
      PROVE  /\ item(a) \in FinalItem /\ item(a).applied = Applied(i, a)
             /\ ItemOK(item(a), a, final[a])
  <2>1. Applied(i, a) \in Decisions /\ import[i].found \in [Journeys -> Verdicts]
    BY <1>1 DEF Applied, Decisions, Transaction
  <2>2. /\ Reason(i, a) \in {"listed", "omitted", "repair"}
        /\ Reason(i, a) = "omitted" <=> a \in import[i].omitted
        /\ Reason(i, a) = "repair" => import[i].repair /\ a \notin import[i].omitted
    BY DEF Reason
  <2>3. import[i].found[a] = final[a] /\ (a \in import[i].omitted => final[a] = "")
    BY <1>1, IdleImport DEF ReadStands
  <2>4. import[i].repair /\ a \notin import[i].omitted /\ HomeClient[a] = SurveyClient[a] =>
          final[a] = ""
    BY <1>1, IdleImport DEF ReadStands
  <2>5. a \in Journeys
    BY <1>1
  <2> QED
    BY <2>1, <2>2, <2>3, <2>4, <2>5 DEF FinalItem, ItemOK
<1>4. upload \in UploadRow
  BY <1>1 DEF UploadRow, Transaction
<1> HIDE DEF decided, item, upload
<1>5. /\ import' \in [Imports -> Transaction \cup {NoImport}] /\ import'[i] = NoImport
      /\ \A j \in Imports : j # i => import'[j] = import[j]
  BY <1>2 DEF FinalTypes
<1>6. FinalTypes'
  <2>1. \A a \in decided : Applied(i, a) \in Verdicts
    BY <1>3 DEF FinalItem, Verdicts
  <2>2. final' \in [Journeys -> Verdicts]
    BY <1>2, <2>1 DEF FinalTypes
  <2>3. trail' \in [Journeys -> Seq(FinalItem)]
    <3>1. \A a \in Journeys : trail[a] \in Seq(FinalItem)
      BY DEF FinalTypes
    <3>2. \A a \in decided : a \in Journeys => Append(trail[a], item(a)) \in Seq(FinalItem)
      BY <1>3, <3>1, AppendProperties
    <3> QED
      BY <1>2, <3>1, <3>2
  <2>4. uploads' \in Seq(UploadRow)
    BY <1>2, <1>4, AppendProperties DEF FinalTypes
  <2> QED
    BY <1>2, <1>5, <2>2, <2>3, <2>4 DEF FinalTypes
<1>7. BegunOK'
  <2>1. Active' = Active \ {i} /\ i \in Active
    BY <1>1, <1>5, IdleImport DEF Active
  <2>2. IsFiniteSet(Active') /\ Cardinality(Active') = Cardinality(Active) - 1
    BY <2>1, FS_RemoveElement DEF BegunOK
  <2>3. Len(uploads') = Len(uploads) + 1
    BY <1>2, <1>4, AppendProperties DEF FinalTypes
  <2>4. Len(uploads) \in Nat /\ Cardinality(Active) \in Nat /\ begun \in Nat
    <3>1. Cardinality(Active) \in Nat
      BY FS_CardinalityType DEF BegunOK
    <3>2. Len(uploads) \in Nat
      BY LenProperties DEF FinalTypes
    <3>3. begun \in Nat
      BY BegunBounds DEF FinalTypes
    <3> QED
      BY <3>1, <3>2, <3>3
  <2>5. (Len(uploads) + 1) + (Cardinality(Active) - 1) =< begun
    BY <2>4, OneLessActive, Zenon DEF BegunOK
  <2> QED
    BY <1>2, <2>2, <2>3, <2>5, Zenon DEF BegunOK
<1>8. LocksOK'
  <2>1. ClientRows(i)' = {} /\ AttemptRows(i)' = {}
    BY <1>5, IdleImport DEF ClientRows, AttemptRows
  <2>2. \A j \in Imports \ {i} : ClientRows(j)' = ClientRows(j) /\ AttemptRows(j)' = AttemptRows(j)
    BY <1>5 DEF ClientRows, AttemptRows, Listed
  <2> QED
    BY <2>1, <2>2 DEF LocksOK
<1>9. ASSUME NEW j \in Imports PROVE ReadStands(j)'
  <2>1. CASE j = i
    BY <1>5, <2>1 DEF ReadStands
  <2>2. CASE j # i /\ import[j] # NoImport
    <3>1. /\ ReadStands(j) /\ import'[j] = import[j] /\ import[j] \in Transaction
          /\ AttemptRows(i) \cap AttemptRows(j) = {} /\ ClientRows(i) \cap ClientRows(j) = {}
      BY <1>5, <2>2 DEF LocksOK, FinalTypes
    <3>2. \A a \in Journeys : a \notin AttemptRows(i) => final'[a] = final[a]
      BY <1>1, <1>2
    <3>3. import[j].at = "others" =>
            /\ \A a \in AttemptRows(j) : a \in Journeys /\ final'[a] = final[a]
            /\ import[j].omitted \subseteq AttemptRows(j)
      BY <3>1, <3>2 DEF AttemptRows, Listed, Transaction
    <3>4. ASSUME NEW a \in Listed(j), HomeClient[a] = import[j].client PROVE final'[a] = final[a]
      <4>1. a \in Journeys /\ import[j].client \in ClientRows(j)
        BY <3>1, IdleImport DEF Listed, ClientRows
      <4>2. a \in AttemptRows(i) => HomeClient[a] \in ClientRows(i)
        BY <1>1 DEF AttemptRows, ClientRows
      <4> QED
        BY <3>1, <3>2, <3>4, <4>1, <4>2
    <3> HIDE DEF FinalIInv
    <3> QED
      BY <3>1, <3>3, <3>4 DEF ReadStands, Listed, AttemptRows
  <2>3. CASE j # i /\ import[j] = NoImport
    BY <1>5, <2>3 DEF ReadStands
  <2> QED
    BY <2>1, <2>2, <2>3
<1>10. FinalRecords'
  <2> SUFFICES ASSUME NEW a \in Journeys PROVE TrailOK(a)'
    BY DEF FinalRecords, TrailOK, Explains, TrailExplainsVerdict, OmissionOverridesNothing,
           RepairRejectsOnlyPending
  <2>1. TrailOK(a) /\ FinalTypes
    BY TrailsOK
  <2>2. CASE a \in decided
    <3>1. trail'[a] = Append(trail[a], item(a)) /\ final'[a] = Applied(i, a)
      BY <1>2, <2>2
    <3>2. trail[a] \in Seq(FinalItem)
      BY DEF FinalTypes
    <3>3. Explains(Append(trail[a], item(a)), a, item(a).applied)
      BY <1>3, <2>1, <2>2, <3>2, TrailGrows DEF TrailOK
    <3> QED
      BY <1>3, <2>2, <3>1, <3>3 DEF TrailOK
  <2>3. CASE a \notin decided
    <3>1. trail'[a] = trail[a] /\ final'[a] = final[a]
      BY <1>2, <2>3
    <3> QED
      BY <2>1, <3>1 DEF TrailOK
  <2> QED
    BY <2>2, <2>3
<1> QED
  BY <1>6, <1>7, <1>8, <1>9, <1>10

LEMMA FinalStep == FinalIInv /\ [FinalNext]_finalVars => FinalIInv'
<1>1. ASSUME FinalIInv, UNCHANGED finalVars PROVE FinalIInv'
  <2>1. FinalTypes' /\ BegunOK' /\ LocksOK'
    <3>1. /\ ended' = ended /\ final' = final /\ trail' = trail /\ uploads' = uploads
          /\ import' = import /\ begun' = begun
      BY <1>1 DEF finalVars
    <3>2. FinalTypes'
      BY <1>1, <3>1 DEF FinalIInv, FinalTypes
    <3>3. BegunOK'
      BY <1>1, <3>1 DEF FinalIInv, BegunOK, Active
    <3>4. LocksOK'
      BY <1>1, <3>1 DEF FinalIInv, LocksOK, ClientRows, AttemptRows, Listed
    <3> QED
      BY <3>2, <3>3, <3>4
  <2>2. ASSUME NEW i \in Imports PROVE ReadStands(i)'
    <3>1. ReadStands(i) /\ import' = import /\ final' = final
      BY <1>1 DEF finalVars, FinalIInv
    <3> QED
      BY <3>1 DEF ReadStands, Listed, AttemptRows
  <2>3. FinalRecords'
    BY <1>1 DEF finalVars, FinalIInv, FinalRecords, TrailExplainsVerdict,
                OmissionOverridesNothing, RepairRejectsOnlyPending
  <2> QED
    BY <2>1, <2>2, <2>3 DEF FinalIInv
<1>2. ASSUME FinalIInv, FinalNext PROVE FinalIInv'
  BY <1>2, ImportsBegin, ImportLocks, ImportGone, DecisionsApplied, JourneyEnds
  DEF FinalNext, ImportStep
<1> QED
  BY <1>1, <1>2

LEMMA FinalInductive == FinalSpec => []FinalIInv
<1> QED
  BY FinalBegins, FinalStep, PTL DEF FinalSpec

LEMMA FinalKept == FinalIInv => FinalInv
<1> SUFFICES ASSUME FinalIInv PROVE FinalTypeOK
  BY DEF FinalIInv, FinalInv, FinalRecords
<1>1. ASSUME NEW a \in Journeys, NEW n \in DOMAIN trail[a] PROVE trail[a][n] \in FinalItem
  BY ElementOfSeq, LenProperties DEF FinalIInv, FinalTypes
<1>2. Len(uploads) =< begun
  <2>1. Len(uploads) \in Nat
    BY LenProperties DEF FinalIInv, FinalTypes
  <2>2. Cardinality(Active) \in Nat
    BY FS_CardinalityType DEF FinalIInv, BegunOK
  <2>3. begun \in Nat
    BY BegunBounds DEF FinalIInv, FinalTypes
  <2> QED
    BY <2>1, <2>2, <2>3 DEF FinalIInv, BegunOK
<1> QED
  BY <1>1, <1>2 DEF FinalTypeOK, FinalIInv, FinalTypes

(****************************************************************************)
(* import_final_ids and the repair command, for any clients, months, files  *)
(* and number of imports at once: the items account for every verdict, and  *)
(* an omission or a repair takes no decision back.                          *)
(****************************************************************************)
THEOREM FinalIdsCorrect == FinalSpec => []FinalInv
<1> QED
  BY FinalInductive, FinalKept, PTL

-----------------------------------------------------------------------------
(* MCJobs *)

\* The components share no state: a step of one leaves the others alone.
LEMMA JobsSteps ==
  [JobsNext]_jobsVars => /\ [CallbackNext]_callbackVars /\ [ExportNext]_exportVars
                         /\ [CacheLeaseNext]_leaseVars /\ [FinalNext]_finalVars
                         /\ [FeedNext]_feedVars
<1> QED
  BY Zenon DEF JobsNext, jobsVars

LEMMA JobsInductive ==
  JobsSpec => /\ []CallbackIInv /\ []ExportIInv /\ []LeaseIInv /\ []FinalIInv /\ []FeedIInv
<1>1. JobsInit => CallbackIInv /\ ExportIInv /\ LeaseIInv /\ FinalIInv /\ FeedIInv
  BY CallbackBegins, ExportBegins, LeaseBegins, FinalBegins, FeedBegins DEF JobsInit
<1>2. (CallbackIInv /\ ExportIInv /\ LeaseIInv /\ FinalIInv /\ FeedIInv) /\ [JobsNext]_jobsVars =>
        (CallbackIInv /\ ExportIInv /\ LeaseIInv /\ FinalIInv /\ FeedIInv)'
  BY JobsSteps, CallbackStep, ExportStep, LeaseStep, FinalStep, FeedStep
<1> QED
  BY <1>1, <1>2, PTL DEF JobsSpec

(****************************************************************************)
(* All of the background work side by side, as MCJobs composes it: every    *)
(* component keeps its invariant whichever component the steps are of.      *)
(****************************************************************************)
THEOREM JobsCorrect ==
  JobsSpec => [](CallbackInv /\ ExportInv /\ LeaseInv /\ FinalInv /\ FeedInv)
<1> QED
  BY JobsInductive, CallbackKept, ExportKept, LockKept, FinalKept, FeedKept, PTL

(****************************************************************************)
(* A delivered result (_finish_delivery) and the newest data under a cache  *)
(* key (safe_cache_compare_delete) are not lost again in any behaviour of   *)
(* the background work, but for the exceptions their definitions name.      *)
(****************************************************************************)
THEOREM JobsStand == JobsSpec => JobsNeverGoBack
<1> QED
  BY JobsInductive, JobsSteps, NewestStep, DeliveredStep, PTL
  DEF JobsSpec, JobsNeverGoBack, DeliveredStands, EntryNeverGoesBack
=============================================================================
