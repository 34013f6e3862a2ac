------------------------------- MODULE SharedCache -------------------------------
(***************************************************************************)
(* The shared caches of what a viewer may see.  A change of access rotates a *)
(* generation number once inside its transaction and once after the commit.  *)
(* A request loads the viewer's profile in the middleware, then reads the    *)
(* generation, then the snapshot stored under it or, of the database, the    *)
(* rows the profile leads to, then the generation again for the key of its   *)
(* report, which it looks up or builds (CacheLease models how).  Permissions *)
(* and visibility are two caches that follow this one protocol.              *)
(***************************************************************************)
EXTENDS Integers, FiniteSets

CONSTANTS
  Grants,          \* what one part of the access may say
  AccessWriters,   \* transactions that change it
  CacheRequests,   \* requests of the viewer, one per id
  MaxGenerations,  \* bound: no eviction once so many generations were used
  MaxCacheFaults   \* bound: rotations lost, evictions inside a rotation

ASSUME SharedCacheAssumption ==
  Grants # {} /\ {MaxGenerations, MaxCacheFaults} \subseteq Nat

VARIABLES
  granted,      \* committed access
  writers,      \* per writer: step, generation read
  generation,   \* the counter in Redis, 0 when evicted
  lastSeed,     \* history: the largest generation ever used
  snapshots,    \* cached snapshots [gen, grant, early]
  reports,      \* cached payloads [key, built]
  asks,         \* per request: step, generation, profile, snapshot, key, answer
  overtaken,    \* history: requests whose profile was replaced before they read the generation
  cacheFaults

cacheVars ==
  <<granted, writers, generation, lastSeed, snapshots, reports, asks, overtaken, cacheFaults>>

\* The viewer's own profile with its role and units, and the rows read through
\* it: the role's functions, the overrides, the profiles of other users.
Access == [profile : Grants, rows : Grants]

WriterSteps == {"idle", "rotating", "open", "committed", "rerotating", "ended"}
AskSteps == {"new", "profiled", "permission", "missed", "loaded", "scoped", "keyed", "served"}
NoKey == [gen |-> 0, print |-> {}]
NewAsk == [at |-> "new", gen |-> 0, profile |-> {}, grant |-> {}, key |-> NoKey, answer |-> {}]

CacheTypeOK ==
  /\ granted \in Access
  /\ writers \in [AccessWriters -> [at : WriterSteps, read : 0 .. lastSeed]]
  /\ generation \in 0 .. lastSeed
  /\ \A s \in snapshots : s.gen \in 1 .. lastSeed /\ s.grant \in Access /\ s.early \in BOOLEAN
  /\ \A r \in reports : r.built \in Access /\ r.key.gen <= lastSeed
  /\ \A q \in CacheRequests :
       /\ asks[q].at \in AskSteps /\ asks[q].gen <= lastSeed
       /\ asks[q].profile \subseteq Grants
       /\ asks[q].grant \subseteq Access /\ Cardinality(asks[q].grant) <= 1
       /\ asks[q].at = "served" => asks[q].answer # {}
  /\ overtaken \subseteq CacheRequests
  /\ cacheFaults \in 0 .. MaxCacheFaults

CacheInit ==
  /\ granted \in Access
  /\ writers = [w \in AccessWriters |-> [at |-> "idle", read |-> 0]]
  /\ generation = 1 /\ lastSeed = 1
  /\ snapshots = {} /\ reports = {}
  /\ asks = [q \in CacheRequests |-> NewAsk] /\ overtaken = {}
  /\ cacheFaults = 0

CacheFault == cacheFaults < MaxCacheFaults /\ cacheFaults' = cacheFaults + 1

-----------------------------------------------------------------------------
(* safe_cache_generation, safe_cache_increment *)

\* Faulty: a missing generation is used as it is.
UnseededGeneration == generation
\* A missing generation is seeded with a number never used before.
SeededGeneration == IF generation = 0 THEN lastSeed + 1 ELSE generation
ReadGeneration == generation' = SeededGeneration /\ lastSeed' = IF generation = 0 THEN lastSeed + 1 ELSE lastSeed

\* add(default) if the key is gone, then incr.
Incremented(default) == (IF generation = 0 THEN default ELSE generation) + 1
Increment(default) ==
  /\ generation' = Incremented(default)
  /\ lastSeed' = IF Incremented(default) > lastSeed THEN Incremented(default) ELSE lastSeed

-----------------------------------------------------------------------------
(* A change of access: _invalidate_now_and_after_commit *)

WriterAt(w, step) == writers[w].at = step
WriterUnchanged == UNCHANGED <<snapshots, reports, asks>>
AccessUnchanged == UNCHANGED <<granted, overtaken>>

\* A row is saved inside a transaction; its signal reads the generation.
WriteAccess(w) ==
  /\ WriterAt(w, "idle")
  /\ writers' = [writers EXCEPT ![w].at = "rotating", ![w].read = SeededGeneration]
  /\ ReadGeneration /\ WriterUnchanged /\ AccessUnchanged /\ UNCHANGED cacheFaults

RotateNow(w) ==
  /\ WriterAt(w, "rotating")
  /\ Increment(writers[w].read)
  /\ writers' = [writers EXCEPT ![w].at = "open", ![w].read = 0]
  /\ WriterUnchanged /\ AccessUnchanged /\ UNCHANGED cacheFaults

\* What it wrote is seen from here on.
CommitAccess(w) ==
  /\ WriterAt(w, "open")
  /\ \E g \in Access \ {granted} :
       /\ granted' = g
       /\ overtaken' = IF g.profile = granted.profile THEN overtaken
                       ELSE overtaken \cup {q \in CacheRequests : asks[q].at = "profiled"}
  /\ writers' = [writers EXCEPT ![w].at = "committed"]
  /\ WriterUnchanged /\ UNCHANGED <<generation, lastSeed, cacheFaults>>

RollbackAccess(w) ==
  /\ WriterAt(w, "open")
  /\ writers' = [writers EXCEPT ![w].at = "ended"]
  /\ WriterUnchanged /\ AccessUnchanged /\ UNCHANGED <<generation, lastSeed, cacheFaults>>

\* Faulty: no rotation after the commit.
RotatesAfterCommitNot == FALSE
RotatesAfterCommit == TRUE

AfterCommit(w) ==
  /\ WriterAt(w, "committed")
  /\ IF RotatesAfterCommit
     THEN /\ writers' = [writers EXCEPT ![w].at = "rerotating", ![w].read = SeededGeneration]
          /\ ReadGeneration
     ELSE /\ writers' = [writers EXCEPT ![w].at = "ended"]
          /\ UNCHANGED <<generation, lastSeed>>
  /\ WriterUnchanged /\ AccessUnchanged /\ UNCHANGED cacheFaults

RotateAgain(w) ==
  /\ WriterAt(w, "rerotating")
  /\ Increment(writers[w].read)
  /\ writers' = [writers EXCEPT ![w].at = "ended", ![w].read = 0]
  /\ WriterUnchanged /\ AccessUnchanged /\ UNCHANGED cacheFaults

\* The increment fails, or the process ends between commit and rotation.
RotationLost(w) ==
  /\ WriterAt(w, "rerotating") /\ CacheFault
  /\ writers' = [writers EXCEPT ![w].at = "ended"]
  /\ WriterUnchanged /\ AccessUnchanged /\ UNCHANGED <<generation, lastSeed>>

Rotating == \E w \in AccessWriters : writers[w].at \in {"rotating", "rerotating"}

\* Redis evicts the counter.
EvictGeneration ==
  /\ generation # 0 /\ lastSeed < MaxGenerations
  /\ generation' = 0
  /\ IF Rotating THEN CacheFault ELSE UNCHANGED cacheFaults
  /\ WriterUnchanged /\ AccessUnchanged /\ UNCHANGED <<writers, lastSeed>>

\* Snapshots live PERMISSION_CACHE_TTL_SECONDS.
ExpireSnapshot ==
  /\ \E s \in snapshots : snapshots' = snapshots \ {s}
  /\ AccessUnchanged /\ UNCHANGED <<writers, generation, lastSeed, reports, asks, cacheFaults>>

-----------------------------------------------------------------------------
(* A request: VendorPanelAccessMiddleware, effective_permission_codes or    *)
(* activity_visible_user_ids, then report_viewer_scope *)

AskAt(q, step) == asks[q].at = step
RequestUnchanged == AccessUnchanged /\ UNCHANGED <<writers, cacheFaults>>

\* employee_profile_for_user, once for the request.
ReadProfile(q) ==
  /\ AskAt(q, "new")
  /\ asks' = [asks EXCEPT ![q].at = "profiled", ![q].profile = {granted.profile}]
  /\ RequestUnchanged /\ UNCHANGED <<generation, lastSeed, snapshots, reports>>

ReadPermissionGeneration(q) ==
  /\ AskAt(q, "profiled")
  /\ ReadGeneration
  /\ asks' = [asks EXCEPT ![q].at = "permission", ![q].gen = SeededGeneration]
  /\ RequestUnchanged /\ UNCHANGED <<snapshots, reports>>

LookUpSnapshot(q) ==
  /\ AskAt(q, "permission")
  /\ LET hits == {s \in snapshots : s.gen = asks[q].gen} IN
     asks' = IF hits = {} THEN [asks EXCEPT ![q].at = "missed"]
             ELSE [asks EXCEPT ![q].at = "scoped", ![q].profile = {},
                               ![q].grant = {s.grant : s \in hits}]
  /\ RequestUnchanged /\ UNCHANGED <<generation, lastSeed, snapshots, reports>>

\* The profile is the one loaded first; the rows it leads to are read now.
LoadFromDatabase(q) ==
  /\ AskAt(q, "missed")
  /\ asks' = [asks EXCEPT ![q].at = "loaded", ![q].profile = {},
                          ![q].grant = {[profile |-> p, rows |-> granted.rows] : p \in asks[q].profile}]
  /\ RequestUnchanged /\ UNCHANGED <<generation, lastSeed, snapshots, reports>>

\* Faulty: stored under the generation read after the database.
StoredUnderLate(q) == generation
StoredUnder(q) == asks[q].gen

StoreSnapshot(q) ==
  /\ AskAt(q, "loaded")
  /\ snapshots' = {s \in snapshots : s.gen # StoredUnder(q)}
                  \cup {[gen |-> StoredUnder(q), grant |-> g, early |-> q \in overtaken] : g \in asks[q].grant}
  /\ asks' = [asks EXCEPT ![q].at = "scoped"]
  /\ RequestUnchanged /\ UNCHANGED <<generation, lastSeed, reports>>

\* Faulty: the generation alone stands for the snapshot.
FingerprintNone(q) == {}
\* The key is bound to the snapshot of the request itself.
Fingerprint(q) == asks[q].grant

BuildKey(q) ==
  /\ AskAt(q, "scoped")
  /\ ReadGeneration
  /\ asks' = [asks EXCEPT ![q].at = "keyed", ![q].gen = 0,
                          ![q].key = [gen |-> SeededGeneration, print |-> Fingerprint(q)]]
  /\ RequestUnchanged /\ UNCHANGED <<snapshots, reports>>

-----------------------------------------------------------------------------
(* cached_report_payload, cached_user_metadata *)

Cached(q) == {r \in reports : r.key = asks[q].key}

\* The payload is selected under the permissions the request resolved.
Answered(q) == IF Cached(q) # {} THEN {r.built : r \in Cached(q)} ELSE asks[q].grant

ServeReport(q) ==
  /\ AskAt(q, "keyed")
  /\ reports' = {r \in reports : r.key # asks[q].key}
                \cup {[key |-> asks[q].key, built |-> g] : g \in Answered(q)}
  /\ asks' = [asks EXCEPT ![q].at = "served", ![q].answer = Answered(q), ![q].key = NoKey]
  /\ RequestUnchanged /\ UNCHANGED <<generation, lastSeed, snapshots>>

ExpireReport ==
  /\ \E r \in reports : reports' = reports \ {r}
  /\ AccessUnchanged /\ UNCHANGED <<writers, generation, lastSeed, snapshots, asks, cacheFaults>>

CacheNext ==
  \/ \E w \in AccessWriters :
       \/ WriteAccess(w) \/ RotateNow(w) \/ CommitAccess(w) \/ RollbackAccess(w)
       \/ AfterCommit(w) \/ RotateAgain(w) \/ RotationLost(w)
  \/ EvictGeneration \/ ExpireSnapshot \/ ExpireReport
  \/ \E q \in CacheRequests :
       \/ ReadProfile(q) \/ ReadPermissionGeneration(q) \/ LookUpSnapshot(q) \/ LoadFromDatabase(q)
       \/ StoreSnapshot(q) \/ BuildKey(q) \/ ServeReport(q)

CacheSpec == CacheInit /\ [][CacheNext]_cacheVars

-----------------------------------------------------------------------------
(* Properties *)

Unrotated == \E w \in AccessWriters : writers[w].at \in {"committed", "rerotating"}

Findable == {s \in snapshots : s.gen = generation}

\* A snapshot a request can still find agrees with the committed access, unless
\* a change is between its commit and its second rotation or a rotation was
\* lost: in the rows always, and in the profile too unless the request that
\* stored it had loaded the profile before a change and read the generation
\* after it: the code stores such a snapshot.
SnapshotsFollowAccess ==
  cacheFaults = 0 /\ ~ Unrotated =>
    \A s \in Findable : /\ s.grant.rows = granted.rows
                        /\ s.early \/ s.grant.profile = granted.profile

\* A report is only answered with data selected for the permissions the request
\* itself resolved, whatever commits and rotations fall between its steps.
ReportMatchesSnapshot ==
  \A q \in CacheRequests :
    asks[q].at = "served" => asks[q].answer = asks[q].grant

\* What safe_cache_generation and the double rotation are for: neither a
\* snapshot nor a report outlives the access it was made for, but for the
\* profile a request carries past a change.
CacheInv == CacheTypeOK /\ SnapshotsFollowAccess /\ ReportMatchesSnapshot
=============================================================================
