---------------------------- MODULE InventorySync ----------------------------
(***************************************************************************)
(* How one run turns a provider's inventory into survey rows.  InnovateMR's *)
(* run writes bounded batches and then closes the live rows that do not     *)
(* carry its marker; the run of an installed adapter merges and closes in   *)
(* one transaction, by a cutoff.  Task runs hold the lease of SyncSchedule; *)
(* runs started by a request or a management command hold nothing.          *)
(***************************************************************************)
EXTENDS Naturals, FiniteSets, FiniteSetsExt

CONSTANTS
  Keys,       \* source keys of the integration
  Runs,       \* runs that may be in flight together
  Leased,     \* the runs among them that take the lease
  Paths,      \* TRUE: InnovateMR's path; FALSE: an installed adapter's
  BatchSize,  \* rows of one write batch
  MaxClock,   \* bound: clock readings of InnovateMR's path
  MaxMerging, \* bound: clock readings of an adapter's path
  MaxMarker   \* bound: markers of batched runs

ASSUME InventoryAssumption ==
  /\ Leased \subseteq Runs
  /\ Paths \subseteq BOOLEAN
  /\ BatchSize \in Nat \ {0}
  /\ MaxClock \in Nat \ {0}
  /\ MaxMerging \in Nat \ {0}
  /\ MaxMarker \in Nat

VARIABLES
  batched,   \* the path of the integration's provider
  clock,     \* the host clock, in the unit of the markers
  allocated,  \* the surveys the provider has allocated to us
  row,       \* the Survey row of each key
  syncRun,       \* each run in flight
  alone      \* history: the runs that no other run has overlapped

inventoryVars == <<batched, clock, allocated, row, syncRun, alone>>

LastReading == IF batched THEN MaxClock ELSE MaxMerging

Times == 0 .. LastReading + MaxMarker + 1

InventoryRow == [status : {"absent", "live", "closed"}, seen : Times]

\* "full" has the full inventory only, "write" has all of it and "batch" has
\* read the rows of one batch: which are missing and which differ.
SyncRun ==
  [pc       : {"idle", "full", "page", "write", "batch"},
   now      : Times,
   marker   : Times,
   snapshot : SUBSET Keys,
   todo     : SUBSET Keys,
   batch    : SUBSET Keys,
   missing  : SUBSET Keys,
   changed  : SUBSET Keys]

Idle == [pc |-> "idle", now |-> 0, marker |-> 0, snapshot |-> {}, todo |-> {},
         batch |-> {}, missing |-> {}, changed |-> {}]

InventoryTypeOK ==
  /\ batched \in Paths
  /\ clock \in 0 .. LastReading
  /\ allocated \subseteq Keys
  /\ row \in [Keys -> InventoryRow]
  /\ syncRun \in [Runs -> SyncRun]
  /\ alone \subseteq Runs
  /\ \A r \in Runs :
       /\ syncRun[r].batch \cap syncRun[r].todo = {}
       /\ syncRun[r].batch \cup syncRun[r].todo \subseteq syncRun[r].snapshot
       /\ syncRun[r].missing \cup syncRun[r].changed \subseteq syncRun[r].batch

InventoryInit ==
  /\ batched \in Paths
  /\ clock = 1
  /\ allocated \in SUBSET Keys
  /\ row = [k \in Keys |-> [status |-> "absent", seen |-> 0]]
  /\ syncRun = [r \in Runs |-> Idle]
  /\ alone = {}

Active == {r \in Runs : syncRun[r].pc # "idle"}
Stored == {k \in Keys : row[k].status # "absent"}
Live   == {k \in Keys : row[k].status = "live"}

-----------------------------------------------------------------------------
(* Around the run *)

ClockTicks ==
  /\ clock < LastReading
  /\ clock' = clock + 1
  /\ UNCHANGED <<batched, allocated, row, syncRun, alone>>

\* The provider allocates, closes or withdraws surveys.
UpstreamChanges ==
  /\ \E now \in SUBSET Keys : allocated' = now
  /\ UNCHANGED <<batched, clock, row, syncRun, alone>>

\* A provider error, a lost unique-key race, a kill: what is committed stays.
Fail(r) ==
  /\ r \in Active
  /\ syncRun' = [syncRun EXCEPT ![r] = Idle]
  /\ UNCHANGED <<batched, clock, allocated, row, alone>>

\* Faulty: the marker is the clock.
ClockMarker == clock

\* Every row's last_seen_at is below the marker that a batched run takes.
BatchMarker ==
  LET seen == {row[k].seen : k \in Stored} IN
  IF seen # {} /\ clock <= Max(seen) THEN Max(seen) + 1 ELSE clock

Marker == IF batched THEN BatchMarker ELSE clock + 1

BeginSync(r) ==
  /\ syncRun[r].pc = "idle"
  /\ r \in Leased => Active \cap Leased = {}
  /\ Marker <= LastReading + MaxMarker
  /\ syncRun' = [syncRun EXCEPT ![r] = [Idle EXCEPT !.pc = "full",
                                            !.now = clock,
                                            !.marker = Marker]]
  /\ alone' = IF Active = {} THEN {r} ELSE {}
  /\ UNCHANGED <<batched, clock, allocated, row>>

-----------------------------------------------------------------------------
(* sync_surveys: InnovateMR *)

FetchFull(r) ==
  /\ batched
  /\ syncRun[r].pc = "full"
  /\ syncRun' = [syncRun EXCEPT ![r].pc = "page", ![r].snapshot = allocated]
  /\ UNCHANGED <<batched, clock, allocated, row, alone>>

\* merge_inventory keeps a survey that either endpoint returned.
FetchPaged(r) ==
  /\ syncRun[r].pc = "page"
  /\ syncRun' = [syncRun EXCEPT ![r].pc = "write",
                        ![r].snapshot = @ \cup allocated,
                        ![r].todo = syncRun[r].snapshot \cup allocated]
  /\ UNCHANGED <<batched, clock, allocated, row, alone>>

\* Faulty: the offset does not advance.
SameOffset(r, batch) == syncRun[r].todo

NextOffset(r, batch) == syncRun[r].todo \ batch

\* The rows of one batch are read outside the transaction that writes them.  A
\* stored row differs when it is not live, and may differ otherwise.
ReadBatch(r, batch) ==
  /\ batched
  /\ syncRun[r].pc = "write"
  /\ batch \subseteq syncRun[r].todo
  /\ Cardinality(batch) = Min({BatchSize, Cardinality(syncRun[r].todo)})
  /\ batch # {}
  /\ \E changed \in SUBSET (batch \cap Stored) :
       /\ (batch \cap Stored) \ Live \subseteq changed
       /\ syncRun' = [syncRun EXCEPT ![r].pc = "batch",
                             ![r].batch = batch,
                             ![r].todo = NextOffset(r, batch),
                             ![r].missing = batch \ Stored,
                             ![r].changed = changed]
  /\ UNCHANGED <<batched, clock, allocated, row, alone>>

Stamped(r) == syncRun[r].batch

\* Creates, updates and heartbeats of one batch commit together; a row that
\* another run has created since breaks the batch, and Fail follows.
WriteBatch(r) ==
  /\ syncRun[r].pc = "batch"
  /\ syncRun[r].missing \cap Stored = {}
  /\ row' = [k \in Keys |->
               [status |-> IF k \in syncRun[r].missing \cup syncRun[r].changed
                             THEN "live" ELSE row[k].status,
                seen   |-> IF k \in Stamped(r) THEN syncRun[r].marker ELSE row[k].seen]]
  /\ syncRun' = [syncRun EXCEPT ![r] = [@ EXCEPT !.pc = "write", !.batch = {},
                                         !.missing = {}, !.changed = {}]]
  /\ UNCHANGED <<batched, clock, allocated, alone>>

\* Live rows without this run's marker are closed; the run is over.
CloseUnmarked(r) ==
  /\ batched
  /\ syncRun[r].pc = "write"
  /\ syncRun[r].todo = {}
  /\ row' = [k \in Keys |->
               IF k \in Live /\ row[k].seen # syncRun[r].marker
                 THEN [row[k] EXCEPT !.status = "closed"] ELSE row[k]]
  /\ syncRun' = [syncRun EXCEPT ![r] = Idle]
  /\ UNCHANGED <<batched, clock, allocated, alone>>

-----------------------------------------------------------------------------
(* sync_client_integration: installed adapters *)

\* The fetch takes longer than the clock's resolution.
FetchInventory(r) ==
  /\ ~batched
  /\ syncRun[r].pc = "full"
  /\ clock > syncRun[r].now
  /\ syncRun' = [syncRun EXCEPT ![r].pc = "write", ![r].snapshot = allocated]
  /\ UNCHANGED <<batched, clock, allocated, row, alone>>

\* Faulty: the test of a batched run.
OtherMarker(k, r) == row[k].seen # syncRun[r].marker
\* Faulty: a row seen at the cutoff stays.
SeenBefore(k, r) == row[k].seen < syncRun[r].now

Outdated(k, r) == row[k].seen <= syncRun[r].now

\* One transaction stamps the snapshot and closes what it does not hold.
MergeInventory(r) ==
  LET s == syncRun[r].snapshot IN
  /\ ~batched
  /\ syncRun[r].pc = "write"
  /\ row' = [k \in Keys |->
               IF k \in s THEN [status |-> "live", seen |-> syncRun[r].marker]
               ELSE IF k \in Live /\ Outdated(k, r)
                 THEN [row[k] EXCEPT !.status = "closed"]
                 ELSE row[k]]
  /\ syncRun' = [syncRun EXCEPT ![r] = Idle]
  /\ UNCHANGED <<batched, clock, allocated, alone>>

-----------------------------------------------------------------------------

InventoryNext ==
  \/ ClockTicks
  \/ UpstreamChanges
  \/ \E r \in Runs :
       \/ BeginSync(r)
       \/ FetchFull(r)
       \/ FetchPaged(r)
       \/ \E batch \in SUBSET Keys : ReadBatch(r, batch)
       \/ WriteBatch(r)
       \/ CloseUnmarked(r)
       \/ FetchInventory(r)
       \/ MergeInventory(r)
       \/ Fail(r)

InventorySpec == InventoryInit /\ [][InventoryNext]_inventoryVars

-----------------------------------------------------------------------------
(* Properties *)

\* Run r ends by closing rows.
Closes(r) == CloseUnmarked(r) \/ MergeInventory(r)

(***************************************************************************)
(* docs/synchronization.md, step 6: a run closes rows that are absent from  *)
(* its complete snapshot, and no others.                                    *)
(***************************************************************************)
OnlyMissingClosed ==
  [][\A r \in Runs :
       Closes(r) => (Live \ {k \in Keys : row'[k].status = "live"})
                      \cap syncRun[r].snapshot = {}]_inventoryVars

(***************************************************************************)
(* A run that nothing overlapped leaves exactly its snapshot live, whatever *)
(* failed, killed or overlapping runs left behind before it.                *)
(***************************************************************************)
CleanRunRepairs ==
  [][\A r \in alone :
       Closes(r) => {k \in Keys : row'[k].status = "live"} = syncRun[r].snapshot]_inventoryVars

(***************************************************************************)
(* provider_services.py: "A newer concurrent snapshot must never be closed  *)
(* by this older worker."  No merge closes a row that carries the marker of *)
(* a run started later.                                                     *)
(***************************************************************************)
NewerSnapshotStands ==
  [][\A r \in Runs, k \in Keys :
       (MergeInventory(r) /\ row[k].status = "live" /\ row[k].seen > syncRun[r].marker)
       => row'[k].status = "live"]_inventoryVars

(***************************************************************************)
(* Synchronization converges: what overlap and failure left behind is put   *)
(* right by the next run that nothing overlaps, and an older run undoes     *)
(* nothing that a newer one wrote.                                          *)
(***************************************************************************)
RunsConverge == CleanRunRepairs /\ NewerSnapshotStands
=============================================================================
