--------------------------- MODULE Inventory_proofs ---------------------------
(****************************************************************************)
(* What is kept in step with the providers (the inventory runs, a Toluna    *)
(* survey with its quota and notifications, a member's profile), for any    *)
(* number of runs, surveys, notifications, requests and faults, and these   *)
(* side by side with the adapters' feed as MCInventory composes them.       *)
(****************************************************************************)
EXTENDS MCInventory, SurveyFeed_proofs, FiniteSetTheorems, WellFoundedInduction, TLAPS

(****************************************************************************)
(* InventorySync.  A batched run commits its rows batch by batch, so the    *)
(* invariant says what the rows look like half-way, while nothing overlaps  *)
(* the run; an adapter's run commits once, so it only matters that it finds *)
(* every row outdated.                                                      *)
(****************************************************************************)
\* What batched run x has written: its snapshot without what it still has to do.
Wrote(x) ==
  IF x.pc \in {"write", "batch"} THEN x.snapshot \ (x.todo \cup x.batch) ELSE {}

\* What it has written is live under its marker and everything else that is stored
\* is older; the batch it has read is as it has read it.
BatchedAlone(x, rows) ==
  /\ \A k \in Wrote(x) : rows[k].status = "live" /\ rows[k].seen = x.marker
  /\ \A k \in Keys \ Wrote(x) : rows[k].status # "absent" => rows[k].seen < x.marker
  /\ x.pc = "batch" =>
       \A k \in x.batch : /\ k \in x.missing <=> rows[k].status = "absent"
                          /\ rows[k].status = "closed" => k \in x.changed

\* An adapter's run finds every row outdated.
MergingAlone(x, rows) == \A k \in Keys : rows[k].seen <= x.now

AloneOK ==
  /\ \A r \in alone : Active \subseteq {r}
  /\ \A r \in alone \cap Active :
       IF batched THEN BatchedAlone(syncRun[r], row) ELSE MergingAlone(syncRun[r], row)

\* Which path a run is on, and the clock readings it has taken.
PathOK(x) ==
  /\ x.pc # "batch" => x.batch = {}
  /\ x.pc \in {"full", "page"} => x.todo = {}
  /\ x.pc \in {"page", "batch"} => batched
  /\ ~batched /\ x.pc # "idle" => x.marker = x.now + 1
  /\ ~batched /\ x.pc = "full" => x.now <= clock
  /\ ~batched /\ x.pc = "write" => x.now < clock

RunTyped(x) ==
  /\ x \in SyncRun
  /\ x.batch \cap x.todo = {}
  /\ x.batch \cup x.todo \subseteq x.snapshot
  /\ x.missing \cup x.changed \subseteq x.batch

SyncIInv ==
  /\ InventoryTypeOK
  /\ \A r \in Runs : PathOK(syncRun[r])
  /\ ~batched => \A k \in Keys : row[k].seen <= clock
  /\ AloneOK

LEMMA SyncBounds ==
  /\ MaxClock \in Nat /\ MaxMerging \in Nat /\ MaxMarker \in Nat
  /\ LastReading \in Nat /\ LastReading >= 1
  /\ \A t \in Times : t \in Nat
  /\ \A t \in Nat : t <= LastReading + MaxMarker + 1 => t \in Times
  /\ Leased \subseteq Runs
<1>1. /\ MaxClock \in Nat /\ MaxMerging \in Nat /\ MaxMarker \in Nat /\ Leased \subseteq Runs
      /\ MaxClock >= 1 /\ MaxMerging >= 1
  BY InventoryAssumption
<1>2. LastReading \in Nat /\ LastReading >= 1
  BY <1>1 DEF LastReading
<1> QED
  BY <1>1, <1>2 DEF Times

LEMMA RunsTyped == InventoryTypeOK => \A r \in Runs : RunTyped(syncRun[r])
BY DEF InventoryTypeOK, RunTyped

\* A step of one run: its own entry and rows may change.
LEMMA OneRun ==
  ASSUME SyncIInv, NEW r \in Runs, NEW x, RunTyped(x), PathOK(x),
         syncRun' = [syncRun EXCEPT ![r] = x],
         UNCHANGED <<batched, clock, allocated>>,
         row' \in [Keys -> InventoryRow],
         ~batched => \A k \in Keys : row'[k].seen <= clock,
         alone' \subseteq Runs,
         \A q \in alone' : Active' \subseteq {q},
         \A q \in alone' \cap Active' : q = r,
         r \in alone' /\ x.pc # "idle" =>
           IF batched THEN BatchedAlone(x, row') ELSE MergingAlone(x, row')
  PROVE  SyncIInv'
<1> USE DEF SyncIInv
<1>1. Times' = Times /\ LastReading' = LastReading
  BY DEF Times, LastReading
<1>2. InventoryRow' = InventoryRow /\ SyncRun' = SyncRun
  BY <1>1 DEF InventoryRow, SyncRun
<1>3. syncRun' \in [Runs -> SyncRun] /\ syncRun'[r] = x
      /\ \A q \in Runs \ {r} : syncRun'[q] = syncRun[q]
  BY DEF InventoryTypeOK, RunTyped
<1>4. \A q \in Runs : RunTyped(syncRun'[q])
  BY <1>3, RunsTyped
<1>5. InventoryTypeOK'
  <2>1. \A q \in Runs :
          /\ syncRun'[q].batch \cap syncRun'[q].todo = {}
          /\ syncRun'[q].batch \cup syncRun'[q].todo \subseteq syncRun'[q].snapshot
          /\ syncRun'[q].missing \cup syncRun'[q].changed \subseteq syncRun'[q].batch
    BY <1>4 DEF RunTyped
  <2> QED
    BY <1>1, <1>2, <1>3, <2>1 DEF InventoryTypeOK
<1>6. \A q \in Runs : PathOK(syncRun[q])'
  BY <1>3 DEF PathOK
<1>7. (~batched => \A k \in Keys : row[k].seen <= clock)'
  OBVIOUS
<1>8. AloneOK'
  <2> SUFFICES ASSUME NEW q \in alone' \cap Active'
               PROVE  IF batched THEN BatchedAlone(syncRun'[q], row')
                      ELSE MergingAlone(syncRun'[q], row')
    BY DEF AloneOK, BatchedAlone, MergingAlone, Wrote
  <2>1. q = r /\ syncRun'[q] = x /\ x.pc # "idle"
    BY <1>3 DEF Active
  <2> QED
    BY <2>1
<1> QED
  BY <1>5, <1>6, <1>7, <1>8

LEMMA SyncBegins == InventoryInit => SyncIInv
<1> SUFFICES ASSUME InventoryInit PROVE SyncIInv
  OBVIOUS
<1>1. 0 \in Times
  BY SyncBounds
<1>2. RunTyped(Idle) /\ PathOK(Idle) /\ Idle.pc = "idle"
  BY <1>1 DEF Idle, RunTyped, SyncRun, PathOK
<1>3. \A r \in Runs : syncRun[r] = Idle
  BY DEF InventoryInit
<1>4. InventoryTypeOK
  <2>1. clock \in 0 .. LastReading
    BY SyncBounds DEF InventoryInit
  <2>2. row \in [Keys -> InventoryRow]
    BY <1>1 DEF InventoryInit, InventoryRow
  <2>3. syncRun \in [Runs -> SyncRun]
    BY <1>2 DEF InventoryInit, RunTyped
  <2>4. batched \in Paths /\ allocated \subseteq Keys /\ alone \subseteq Runs
    BY DEF InventoryInit
  <2> QED
    BY <1>2, <1>3, <2>1, <2>2, <2>3, <2>4 DEF InventoryTypeOK, RunTyped
<1>5. \A r \in Runs : PathOK(syncRun[r])
  BY <1>2, <1>3
<1>6. \A k \in Keys : row[k].seen <= clock
  BY DEF InventoryInit
<1>7. AloneOK
  BY DEF InventoryInit, AloneOK
<1> QED
  BY <1>4, <1>5, <1>6, <1>7 DEF SyncIInv

\* A step of a run in flight.
LEMMA Continues ==
  ASSUME SyncIInv, NEW r \in Runs, r \in Active, NEW x, RunTyped(x), PathOK(x),
         syncRun' = [syncRun EXCEPT ![r] = x],
         UNCHANGED <<batched, clock, allocated, alone>>,
         row' \in [Keys -> InventoryRow],
         ~batched => \A k \in Keys : row'[k].seen <= clock,
         r \in alone /\ x.pc # "idle" =>
           IF batched THEN BatchedAlone(x, row') ELSE MergingAlone(x, row')
  PROVE  SyncIInv'
<1>1. alone' \subseteq Runs
  BY DEF SyncIInv, InventoryTypeOK
<1>2. Active' \subseteq Active
  BY DEF Active, SyncIInv, InventoryTypeOK
<1>3. \A q \in alone' : Active' \subseteq {q}
  BY <1>2 DEF SyncIInv, AloneOK
<1>4. \A q \in alone' \cap Active' : q = r
  BY <1>2 DEF SyncIInv, AloneOK
<1> QED
  BY <1>1, <1>3, <1>4, OneRun

\* What a run in flight that nothing overlaps may rely on.
LEMMA WhileAlone ==
  ASSUME SyncIInv, NEW r \in Runs, r \in Active
  PROVE  /\ RunTyped(syncRun[r]) /\ PathOK(syncRun[r])
         /\ r \in alone => IF batched THEN BatchedAlone(syncRun[r], row)
                           ELSE MergingAlone(syncRun[r], row)
         /\ row \in [Keys -> InventoryRow]
         /\ ~batched => \A k \in Keys : row[k].seen <= clock
         /\ \A k \in Keys : row[k].seen \in Nat
<1>1. RunTyped(syncRun[r])
  BY RunsTyped DEF SyncIInv
<1>2. row \in [Keys -> InventoryRow]
  BY DEF SyncIInv, InventoryTypeOK
<1>3. \A k \in Keys : row[k].seen \in Nat
  BY <1>2, SyncBounds DEF InventoryRow
<1> QED
  BY <1>1, <1>2, <1>3 DEF SyncIInv, AloneOK

LEMMA IdleTyped == RunTyped(Idle) /\ Idle.pc = "idle" /\ PathOK(Idle)
<1>1. 0 \in Times
  BY SyncBounds
<1> QED
  BY <1>1 DEF Idle, RunTyped, SyncRun, PathOK

\* The fetches: nothing is written yet.
LEMMA Fetched ==
  ASSUME SyncIInv, NEW r \in Runs,
         Fail(r) \/ FetchFull(r) \/ FetchPaged(r) \/ FetchInventory(r)
  PROVE  SyncIInv'
<1>1. r \in Active /\ allocated \subseteq Keys
      /\ UNCHANGED <<batched, clock, allocated, row, alone>>
  BY DEF Fail, FetchFull, FetchPaged, FetchInventory, Active, SyncIInv, InventoryTypeOK
<1>2. /\ RunTyped(syncRun[r]) /\ PathOK(syncRun[r])
      /\ r \in alone => IF batched THEN BatchedAlone(syncRun[r], row)
                        ELSE MergingAlone(syncRun[r], row)
      /\ row' \in [Keys -> InventoryRow]
      /\ ~batched => \A k \in Keys : row'[k].seen <= clock
  BY <1>1, WhileAlone
<1>3. CASE Fail(r)
  <2>1. syncRun' = [syncRun EXCEPT ![r] = Idle]
    BY <1>3 DEF Fail
  <2> QED
    BY <1>1, <1>2, <2>1, IdleTyped, Continues
<1>4. CASE FetchFull(r)
  <2>1. PICK x \in SyncRun : x = [syncRun[r] EXCEPT !.pc = "page", !.snapshot = allocated]
    BY <1>1, <1>2 DEF RunTyped, SyncRun
  <2>2. /\ x.pc = "page" /\ x.snapshot = allocated /\ x.now = syncRun[r].now
        /\ x.marker = syncRun[r].marker /\ x.todo = {} /\ x.batch = {}
        /\ x.missing = {} /\ x.changed = {} /\ batched /\ syncRun[r].pc = "full"
    BY <1>2, <1>4, <2>1 DEF RunTyped, SyncRun, PathOK, FetchFull
  <2>3. RunTyped(x) /\ PathOK(x)
    BY <2>2 DEF RunTyped, PathOK
  <2>4. r \in alone => BatchedAlone(x, row')
    BY <1>1, <1>2, <2>2 DEF BatchedAlone, Wrote
  <2>5. syncRun' = [syncRun EXCEPT ![r] = x]
    BY <1>4, <2>1 DEF FetchFull, SyncIInv, InventoryTypeOK
  <2> QED
    BY <1>1, <1>2, <2>2, <2>3, <2>4, <2>5, Continues
<1>5. CASE FetchPaged(r)
  <2> DEFINE all == syncRun[r].snapshot \cup allocated
  <2>1. PICK x \in SyncRun :
          x = [syncRun[r] EXCEPT !.pc = "write", !.snapshot = all, !.todo = all]
    BY <1>1, <1>2 DEF RunTyped, SyncRun
  <2>2. /\ x.pc = "write" /\ x.snapshot = x.todo /\ x.now = syncRun[r].now
        /\ x.marker = syncRun[r].marker /\ x.batch = {}
        /\ x.missing = {} /\ x.changed = {} /\ batched /\ syncRun[r].pc = "page"
    BY <1>2, <1>5, <2>1 DEF RunTyped, SyncRun, PathOK, FetchPaged
  <2>3. RunTyped(x) /\ PathOK(x)
    BY <2>2 DEF RunTyped, PathOK
  <2>4. r \in alone => BatchedAlone(x, row')
    BY <1>1, <1>2, <2>2 DEF BatchedAlone, Wrote
  <2>5. syncRun' = [syncRun EXCEPT ![r] = x]
    BY <1>5, <2>1 DEF FetchPaged, SyncIInv, InventoryTypeOK
  <2> QED
    BY <1>1, <1>2, <2>2, <2>3, <2>4, <2>5, Continues
<1>6. CASE FetchInventory(r)
  <2>1. PICK x \in SyncRun : x = [syncRun[r] EXCEPT !.pc = "write", !.snapshot = allocated]
    BY <1>1, <1>2 DEF RunTyped, SyncRun
  <2>2. /\ x.pc = "write" /\ x.snapshot = allocated /\ x.now = syncRun[r].now
        /\ x.marker = syncRun[r].marker /\ x.todo = {} /\ x.batch = {}
        /\ x.missing = {} /\ x.changed = {} /\ ~batched /\ syncRun[r].pc = "full"
        /\ clock > syncRun[r].now
    BY <1>2, <1>6, <2>1 DEF RunTyped, SyncRun, PathOK, FetchInventory
  <2>3. RunTyped(x) /\ PathOK(x)
    <3>1. syncRun[r].now \in Nat /\ clock \in Nat
      BY <1>2, SyncBounds DEF RunTyped, SyncRun, SyncIInv, InventoryTypeOK
    <3> QED
      BY <1>2, <2>2, <3>1 DEF RunTyped, PathOK
  <2>4. r \in alone => MergingAlone(x, row')
    BY <1>1, <1>2, <2>2 DEF MergingAlone
  <2>5. syncRun' = [syncRun EXCEPT ![r] = x]
    BY <1>6, <2>1 DEF FetchInventory, SyncIInv, InventoryTypeOK
  <2> QED
    BY <1>1, <1>2, <2>2, <2>3, <2>4, <2>5, Continues
<1> QED
  BY <1>3, <1>4, <1>5, <1>6

LEMMA ReadsBatch ==
  ASSUME SyncIInv, NEW r \in Runs, NEW part \in SUBSET Keys, ReadBatch(r, part)
  PROVE  SyncIInv'
<1>1. /\ r \in Active /\ batched /\ syncRun[r].pc = "write" /\ part \subseteq syncRun[r].todo
      /\ UNCHANGED <<batched, clock, allocated, row, alone>>
  BY DEF ReadBatch, Active
<1>2. /\ RunTyped(syncRun[r]) /\ PathOK(syncRun[r])
      /\ r \in alone => BatchedAlone(syncRun[r], row)
      /\ row \in [Keys -> InventoryRow] /\ row' \in [Keys -> InventoryRow]
  BY <1>1, WhileAlone
<1>3. PICK changed \in SUBSET (part \cap Stored) :
        /\ (part \cap Stored) \ Live \subseteq changed
        /\ syncRun' = [syncRun EXCEPT ![r].pc = "batch", ![r].batch = part,
                         ![r].todo = NextOffset(r, part),
                         ![r].missing = part \ Stored, ![r].changed = changed]
  BY DEF ReadBatch
<1>4. PICK x \in SyncRun :
        x = [syncRun[r] EXCEPT !.pc = "batch", !.batch = part,
               !.todo = syncRun[r].todo \ part, !.missing = part \ Stored,
               !.changed = changed]
  BY <1>2 DEF RunTyped, SyncRun
<1>5. /\ x.pc = "batch" /\ x.batch = part /\ x.todo = syncRun[r].todo \ part
      /\ x.missing = part \ Stored /\ x.changed = changed
      /\ x.snapshot = syncRun[r].snapshot /\ x.marker = syncRun[r].marker
      /\ syncRun[r].batch = {}
  BY <1>1, <1>2, <1>4 DEF RunTyped, SyncRun, PathOK
<1>6. RunTyped(x) /\ PathOK(x)
  BY <1>1, <1>2, <1>5 DEF RunTyped, PathOK
<1>7. r \in alone => BatchedAlone(x, row')
  <2>1. Wrote(x) = Wrote(syncRun[r])
    BY <1>1, <1>5 DEF Wrote
  <2>2. \A k \in x.batch : /\ k \in x.missing <=> row'[k].status = "absent"
                           /\ row'[k].status = "closed" => k \in x.changed
    BY <1>1, <1>2, <1>3, <1>5 DEF Stored, Live, InventoryRow
  <2> QED
    BY <1>1, <1>2, <1>5, <2>1, <2>2 DEF BatchedAlone
<1>8. syncRun' = [syncRun EXCEPT ![r] = x]
  BY <1>3, <1>4 DEF NextOffset, SyncIInv, InventoryTypeOK
<1> QED
  BY <1>1, <1>2, <1>6, <1>7, <1>8, Continues

LEMMA WritesBatch ==
  ASSUME SyncIInv, NEW r \in Runs, WriteBatch(r)
  PROVE  SyncIInv'
<1>1. r \in Active /\ UNCHANGED <<batched, clock, allocated, alone>> /\ syncRun[r].pc = "batch"
  BY DEF WriteBatch, Active
<1>2. /\ RunTyped(syncRun[r]) /\ PathOK(syncRun[r]) /\ batched
      /\ r \in alone => BatchedAlone(syncRun[r], row)
      /\ row \in [Keys -> InventoryRow]
  BY <1>1, WhileAlone DEF PathOK
<1>3. PICK x \in SyncRun :
        x = [syncRun[r] EXCEPT !.pc = "write", !.batch = {}, !.missing = {}, !.changed = {}]
  BY <1>2 DEF RunTyped, SyncRun
<1>4. /\ x.pc = "write" /\ x.batch = {} /\ x.missing = {} /\ x.changed = {}
      /\ x.todo = syncRun[r].todo /\ x.snapshot = syncRun[r].snapshot
      /\ x.marker = syncRun[r].marker
  BY <1>2, <1>3 DEF RunTyped, SyncRun
<1>5. RunTyped(x) /\ PathOK(x)
  BY <1>2, <1>4 DEF RunTyped, PathOK
<1>6. \A k \in Keys :
        /\ row'[k].status = IF k \in syncRun[r].missing \cup syncRun[r].changed
                              THEN "live" ELSE row[k].status
        /\ row'[k].seen = IF k \in syncRun[r].batch THEN syncRun[r].marker ELSE row[k].seen
  BY DEF WriteBatch, Stamped
<1>7. row' \in [Keys -> InventoryRow]
  <2>1. syncRun[r].marker \in Times
    BY <1>2 DEF RunTyped, SyncRun
  <2> QED
    BY <1>2, <2>1 DEF WriteBatch, Stamped, InventoryRow
<1>8. r \in alone => BatchedAlone(x, row')
  <2> SUFFICES ASSUME r \in alone PROVE BatchedAlone(x, row')
    OBVIOUS
  <2>1. Wrote(x) = Wrote(syncRun[r]) \cup syncRun[r].batch
        /\ Wrote(syncRun[r]) \cap syncRun[r].batch = {}
        /\ Wrote(x) \subseteq Keys
    BY <1>1, <1>2, <1>4 DEF Wrote, RunTyped, SyncRun
  <2>2. BatchedAlone(syncRun[r], row)
    BY <1>2
  <2>3. ASSUME NEW k \in Wrote(x)
        PROVE  row'[k].status = "live" /\ row'[k].seen = x.marker
    <3>1. CASE k \in syncRun[r].batch
      <4>1. row[k].status \in {"absent", "live", "closed"}
        BY <1>2, <2>1 DEF InventoryRow
      <4> QED
        BY <1>1, <1>4, <1>6, <2>1, <2>2, <3>1, <4>1 DEF BatchedAlone
    <3>2. CASE k \notin syncRun[r].batch
      BY <1>2, <1>4, <1>6, <2>1, <2>2, <3>2 DEF BatchedAlone, RunTyped
    <3> QED
      BY <3>1, <3>2
  <2>4. ASSUME NEW k \in Keys \ Wrote(x), row'[k].status # "absent"
        PROVE  row'[k].seen < x.marker
    BY <1>2, <1>4, <1>6, <2>1, <2>2, <2>4 DEF BatchedAlone, RunTyped
  <2> QED
    BY <1>4, <2>3, <2>4 DEF BatchedAlone
<1>9. syncRun' = [syncRun EXCEPT ![r] = x]
  BY <1>3 DEF WriteBatch, SyncIInv, InventoryTypeOK
<1> QED
  BY <1>1, <1>2, <1>4, <1>5, <1>7, <1>8, <1>9, Continues

\* The last step of a run, on either path.
LEMMA RunCloses ==
  ASSUME SyncIInv, NEW r \in Runs, Closes(r)
  PROVE  SyncIInv'
<1>1. /\ r \in Active /\ syncRun[r].pc = "write" /\ UNCHANGED <<batched, clock, allocated, alone>>
      /\ syncRun' = [syncRun EXCEPT ![r] = Idle]
  BY DEF Closes, CloseUnmarked, MergeInventory, Active
<1>2. /\ RunTyped(syncRun[r]) /\ PathOK(syncRun[r])
      /\ row \in [Keys -> InventoryRow]
      /\ ~batched => \A k \in Keys : row[k].seen <= clock
      /\ syncRun[r].marker \in Times /\ syncRun[r].now \in Nat /\ clock \in Nat
  BY <1>1, WhileAlone, SyncBounds DEF RunTyped, SyncRun, SyncIInv, InventoryTypeOK
<1>3. CASE CloseUnmarked(r)
  <2>1. row' \in [Keys -> InventoryRow] /\ batched
    BY <1>2, <1>3 DEF CloseUnmarked, InventoryRow
  <2> QED
    BY <1>1, <2>1, IdleTyped, Continues
<1>4. CASE MergeInventory(r)
  <2>1. row' \in [Keys -> InventoryRow] /\ ~batched
    BY <1>2, <1>4 DEF MergeInventory, InventoryRow
  <2>2. \A k \in Keys : row'[k].seen = syncRun[r].marker \/ row'[k].seen = row[k].seen
    BY <1>2, <1>4 DEF MergeInventory, InventoryRow
  <2>3. syncRun[r].marker <= clock
    BY <1>1, <1>2, <2>1 DEF PathOK
  <2>4. \A k \in Keys : row'[k].seen <= clock
    BY <1>2, <2>1, <2>2, <2>3
  <2> QED
    BY <1>1, <2>1, <2>4, IdleTyped, Continues
<1> QED
  BY <1>3, <1>4 DEF Closes

\* A nonempty set of numbers up to a bound has a greatest one.
LEMMA Newest ==
  ASSUME NEW N \in Nat, NEW T \in SUBSET (0 .. N), T # {}
  PROVE  \E m \in T : \A n \in T : n <= m
<1> DEFINE U == {N - n : n \in T}
<1>1. \A n \in T : n \in Nat /\ N - n \in Nat
  OBVIOUS
<1>2. U \subseteq Nat /\ U # {}
  BY <1>1
<1>3. PICK x \in U : \A y \in U : ~(<<y, x>> \in OpToRel(<, Nat))
  <2> HIDE DEF U
  <2> QED
    BY <1>2, NatLessThanWellFounded, WFMin
<1>4. PICK m \in T : x = N - m
  BY <1>3
<1>5. ASSUME NEW n \in T PROVE n <= m
  <2>1. N - n \in U /\ N - n \in Nat /\ x \in Nat /\ n \in Nat /\ m \in Nat
    BY <1>1, <1>2, <1>3
  <2>2. ~(N - n < x)
    BY <2>1, <1>3 DEF OpToRel
  <2> QED
    BY <1>1, <1>4, <2>1, <2>2
<1> QED
  BY <1>5

\* A batched run's marker is above every stored row's.
LEMMA MarkerAbove ==
  ASSUME SyncIInv
  PROVE  /\ BatchMarker \in Nat
         /\ \A k \in Stored : row[k].seen < BatchMarker
<1> DEFINE seen == {row[k].seen : k \in Stored}
           top == LastReading + MaxMarker + 1
<1>1. clock \in Nat /\ top \in Nat /\ \A k \in Keys : row[k].seen \in 0 .. top
  BY SyncBounds DEF SyncIInv, InventoryTypeOK, InventoryRow, Times
<1>2. seen \in SUBSET (0 .. top)
  BY <1>1 DEF Stored
<1>3. \A k \in Stored : row[k].seen \in seen
  OBVIOUS
<1>4. BatchMarker = IF seen # {} /\ clock <= Max(seen) THEN Max(seen) + 1 ELSE clock
  BY DEF BatchMarker
<1> HIDE DEF seen, top
<1>5. CASE seen = {}
  BY <1>1, <1>3, <1>4, <1>5
<1>6. CASE seen # {}
  <2>1. \E m \in seen : \A n \in seen : n <= m
    BY <1>1, <1>2, <1>6, Newest
  <2>2. \A n \in seen : n \in Nat
    BY <1>2
  <2>3. Max(seen) \in seen /\ \A n \in seen : Max(seen) >= n
    BY <2>1, <2>2 DEF Max
  <2>4. Max(seen) \in Nat
    BY <2>2, <2>3
  <2>5. BatchMarker \in Nat /\ Max(seen) < BatchMarker
    BY <1>1, <1>4, <1>6, <2>4
  <2> QED
    BY <1>3, <2>2, <2>3, <2>4, <2>5
<1> QED
  BY <1>5, <1>6

LEMMA RunBegins ==
  ASSUME SyncIInv, NEW r \in Runs, BeginSync(r)
  PROVE  SyncIInv'
<1>1. /\ syncRun[r].pc = "idle" /\ UNCHANGED <<batched, clock, allocated, row>>
      /\ Marker <= LastReading + MaxMarker
      /\ alone' = IF Active = {} THEN {r} ELSE {}
  BY DEF BeginSync
<1>2. /\ row \in [Keys -> InventoryRow] /\ clock \in 0 .. LastReading /\ clock \in Nat
      /\ ~batched => \A k \in Keys : row[k].seen <= clock
  BY SyncBounds DEF SyncIInv, InventoryTypeOK
<1>3. Marker \in Nat
  BY <1>2, MarkerAbove DEF Marker
<1>4. Marker \in Times /\ clock \in Times
  <2>1. Marker <= LastReading + MaxMarker + 1 /\ clock <= LastReading + MaxMarker + 1
    BY <1>1, <1>2, <1>3, SyncBounds
  <2> QED
    BY <1>2, <1>3, <2>1, SyncBounds
<1>5. PICK x \in SyncRun : x = [Idle EXCEPT !.pc = "full", !.now = clock, !.marker = Marker]
  BY <1>4, IdleTyped DEF RunTyped, SyncRun
<1>6. /\ x.pc = "full" /\ x.now = clock /\ x.marker = Marker /\ x.todo = {} /\ x.batch = {}
      /\ x.missing = {} /\ x.changed = {} /\ x.snapshot = {}
  BY <1>5 DEF Idle
<1>7. RunTyped(x)
  BY <1>6 DEF RunTyped
<1>8. PathOK(x)
  BY <1>2, <1>6 DEF PathOK, Marker
<1>9. syncRun' = [syncRun EXCEPT ![r] = x]
  BY <1>5 DEF BeginSync
<1>10. IF batched THEN BatchedAlone(x, row') ELSE MergingAlone(x, row')
  <2>1. CASE batched
    <3>1. \A k \in Keys : row[k].status # "absent" => row[k].seen < x.marker
      BY <1>6, <2>1, MarkerAbove DEF Marker, Stored
    <3> QED
      BY <1>1, <1>6, <2>1, <3>1 DEF BatchedAlone, Wrote
  <2>2. CASE ~batched
    BY <1>1, <1>2, <1>6, <2>2 DEF MergingAlone
  <2> QED
    BY <2>1, <2>2
<1>11. alone' \subseteq Runs /\ (\A q \in alone' : Active' \subseteq {q})
       /\ \A q \in alone' \cap Active' : q = r
  <2>1. Active' = Active \cup {r}
    BY <1>6, <1>9 DEF Active, SyncIInv, InventoryTypeOK
  <2> QED
    BY <1>1, <2>1
<1> QED
  BY <1>1, <1>2, <1>7, <1>8, <1>9, <1>10, <1>11, OneRun

LEMMA Outside ==
  ASSUME SyncIInv, ClockTicks \/ UpstreamChanges \/ UNCHANGED inventoryVars
  PROVE  SyncIInv'
<1>1. UNCHANGED <<batched, row, syncRun, alone>>
  BY DEF ClockTicks, UpstreamChanges, inventoryVars
<1>2. /\ clock' \in 0 .. LastReading /\ clock <= clock' /\ clock \in Nat /\ clock' \in Nat
      /\ allocated' \subseteq Keys
  BY SyncBounds DEF ClockTicks, UpstreamChanges, inventoryVars, SyncIInv, InventoryTypeOK
<1>3. Times' = Times /\ LastReading' = LastReading
  BY <1>1 DEF Times, LastReading
<1>4. InventoryRow' = InventoryRow /\ SyncRun' = SyncRun
  BY <1>3 DEF InventoryRow, SyncRun
<1>5. InventoryTypeOK'
  BY <1>1, <1>2, <1>3, <1>4 DEF SyncIInv, InventoryTypeOK
<1>6. \A q \in Runs : PathOK(syncRun[q])'
  <2> SUFFICES ASSUME NEW q \in Runs PROVE PathOK(syncRun[q])'
    OBVIOUS
  <2>1. PathOK(syncRun[q]) /\ syncRun[q].now \in Nat
    BY SyncBounds DEF SyncIInv, InventoryTypeOK, SyncRun
  <2> QED
    BY <1>1, <1>2, <2>1 DEF PathOK
<1>7. (~batched => \A k \in Keys : row[k].seen <= clock)'
  <2>1. \A k \in Keys : row[k].seen \in Nat
    BY SyncBounds DEF SyncIInv, InventoryTypeOK, InventoryRow
  <2> QED
    BY <1>1, <1>2, <2>1 DEF SyncIInv
<1>8. AloneOK'
  BY <1>1 DEF SyncIInv, AloneOK, Active, BatchedAlone, MergingAlone, Wrote
<1> QED
  BY <1>5, <1>6, <1>7, <1>8 DEF SyncIInv

LEMMA SyncStep == SyncIInv /\ [InventoryNext]_inventoryVars => SyncIInv'
<1> SUFFICES ASSUME SyncIInv, [InventoryNext]_inventoryVars PROVE SyncIInv'
  OBVIOUS
<1> QED
  BY Outside, RunBegins, Fetched, ReadsBatch, WritesBatch, RunCloses DEF InventoryNext, Closes

\* What a run that nothing overlaps leaves behind.
LEMMA LeavesSnapshot ==
  ASSUME SyncIInv, NEW r \in alone, Closes(r)
  PROVE  {k \in Keys : row'[k].status = "live"} = syncRun[r].snapshot
<1>1. r \in Runs /\ r \in Active /\ syncRun[r].pc = "write"
  BY DEF Closes, CloseUnmarked, MergeInventory, Active, SyncIInv, InventoryTypeOK
<1>2. /\ RunTyped(syncRun[r]) /\ PathOK(syncRun[r]) /\ syncRun[r].snapshot \subseteq Keys
      /\ IF batched THEN BatchedAlone(syncRun[r], row) ELSE MergingAlone(syncRun[r], row)
      /\ row \in [Keys -> InventoryRow] /\ \A k \in Keys : row[k].seen \in Nat
      /\ syncRun[r].marker \in Nat
  BY <1>1, WhileAlone, SyncBounds DEF RunTyped, SyncRun
<1>3. CASE CloseUnmarked(r)
  <2>1. /\ batched /\ syncRun[r].todo = {} /\ syncRun[r].batch = {}
        /\ \A k \in Keys : row'[k].status =
             IF row[k].status = "live" /\ row[k].seen # syncRun[r].marker THEN "closed"
             ELSE row[k].status
    BY <1>1, <1>2, <1>3 DEF CloseUnmarked, PathOK, Live, InventoryRow
  <2>2. Wrote(syncRun[r]) = syncRun[r].snapshot
    BY <1>1, <2>1 DEF Wrote
  <2> QED
    BY <1>2, <2>1, <2>2 DEF BatchedAlone
<1>4. CASE MergeInventory(r)
  <2>1. /\ ~batched
        /\ \A k \in Keys : row'[k].status =
             IF k \in syncRun[r].snapshot THEN "live"
             ELSE IF row[k].status = "live" /\ row[k].seen <= syncRun[r].now THEN "closed"
             ELSE row[k].status
    BY <1>2, <1>4 DEF MergeInventory, Live, Outdated, InventoryRow
  <2> QED
    BY <1>2, <2>1 DEF MergingAlone
<1> QED
  BY <1>3, <1>4 DEF Closes

LEMMA KeepsNewer ==
  ASSUME SyncIInv, NEW r \in Runs, NEW k \in Keys, MergeInventory(r),
         row[k].status = "live", row[k].seen > syncRun[r].marker
  PROVE  row'[k].status = "live"
<1>1. r \in Active /\ ~batched
  BY DEF MergeInventory, Active
<1>2. /\ RunTyped(syncRun[r]) /\ PathOK(syncRun[r]) /\ row[k].seen \in Nat
      /\ syncRun[r].now \in Nat
  BY <1>1, WhileAlone, SyncBounds DEF RunTyped, SyncRun
<1>3. ~ Outdated(k, r)
  BY <1>1, <1>2 DEF Outdated, PathOK, Active
<1> QED
  BY <1>3 DEF MergeInventory

LEMMA SyncInductive == InventorySpec => []SyncIInv
<1> QED
  BY SyncBegins, SyncStep, PTL DEF InventorySpec

LEMMA ConvergingStep ==
  SyncIInv /\ [InventoryNext]_inventoryVars =>
    /\ [\A r \in alone :
          Closes(r) => {k \in Keys : row'[k].status = "live"} = syncRun[r].snapshot]_inventoryVars
    /\ [\A r \in Runs, k \in Keys :
          (MergeInventory(r) /\ row[k].status = "live" /\ row[k].seen > syncRun[r].marker)
          => row'[k].status = "live"]_inventoryVars
<1> QED
  BY LeavesSnapshot, KeepsNewer

(****************************************************************************)
(* sync_surveys and sync_client_integration, for any number of runs,        *)
(* surveys, batches and faults: the next run that nothing overlaps leaves   *)
(* exactly its snapshot live, and no merge closes what a newer one wrote.   *)
(****************************************************************************)
THEOREM ConvergenceCorrect == InventorySpec => RunsConverge
<1> QED
  BY SyncInductive, ConvergingStep, PTL
  DEF InventorySpec, RunsConverge, CleanRunRepairs, NewerSnapshotStands

-----------------------------------------------------------------------------
\* Questions built from the payload are those of a survey in the inventory.
FormOK ==
  survey.details => InInventory /\ survey.form = survey.raw.contract

\* Notifications come from events that have happened, and what a run counts as
\* received before it began happened before it fetched.
TimeOK ==
  /\ \A n \in Events : notice[n].state # "none" => n <= happened
  /\ run.as_of <= happened
  /\ run.pc = "started" => run.start \subseteq 1 .. happened
  /\ run.pc \in {"fetched", "merged"} => run.start \subseteq 1 .. run.as_of

\* What is applied found its survey, and what is to be replayed was received.
ReplayOK ==
  /\ \A n \in Events : notice[n].state = "applied" => InInventory
  /\ run.replay.again \cup run.replay.pending \subseteq Received
  /\ \A d \in Refreshers :
       refresh[d].replay.again \cup refresh[d].replay.pending \subseteq Received

\* The closes the run's snapshot does not know.
LaterCloses ==
  {n \in Events : n > run.as_of /\ notice[n].kind = "closed"
                    /\ notice[n].state = "applied"}

\* Until the merge they are in force; then the merge has touched the survey, and
\* then the replay still holds a close, if they are not.
CloseOK ==
  LaterCloses # {} =>
    /\ run.pc = "fetched" => survey.status = "closed"
    /\ run.pc = "merged" => survey.status = "closed" \/ run.touched
    /\ run.pc = "replaying" =>
         survey.status = "closed"
           \/ \E m \in run.replay.again : notice[m].kind = "closed"

TolunaIInv == TolunaTypeOK /\ FormOK /\ TimeOK /\ ReplayOK /\ CloseOK

-----------------------------------------------------------------------------
(* Operators *)

\* What a replay lists: received, each once, and the newest close if it was
\* received after the boundary.
LEMMA Listed ==
  ASSUME TolunaTypeOK, NEW before \in SUBSET Events
  PROVE  /\ ReplayFrom(before) \in Replay
         /\ ReplayFrom(before).again \cup ReplayFrom(before).pending \subseteq Received
<1>1. Again(before) \subseteq Received /\ \A n \in Again(before) : notice[n].state = "applied"
  BY DEF Again
<1>2. ReplayFrom(before).again = Again(before)
      /\ ReplayFrom(before).pending = {n \in Events : notice[n].state = "stored"}
  BY DEF ReplayFrom
<1>3. ReplayFrom(before) \in [again : SUBSET Events, pending : SUBSET Events]
  BY <1>1 DEF ReplayFrom, Received
<1> QED
  BY <1>1, <1>2, <1>3 DEF Replay, Received

\* A replay's next notification is one of its own, and taking it out leaves a
\* replay of the others.
LEMMA Upcomes ==
  ASSUME NEW r \in Replay, NEW n \in Upcoming(r)
  PROVE  /\ n \in r.again \cup r.pending
         /\ n \in Events
         /\ Without(r, n) \in Replay
         /\ Without(r, n).again = r.again \ {n}
         /\ Without(r, n).pending = r.pending \ {n}
<1>1. n \in r.again \cup r.pending
  BY DEF Upcoming
<1> QED
  BY <1>1 DEF Replay, Without

\* What reconciling a received notification does.
LEMMA Reconciled ==
  ASSUME TolunaIInv, NEW n \in Events, n \in Received, Reconcile(n)
  PROVE  /\ notice' \in [Events -> Notice]
         /\ survey' \in SurveyRow
         /\ quota' \in {"absent", "open", "full"}
         /\ survey' = [survey EXCEPT !.status = survey'.status]
         /\ survey'.status = survey.status \/ survey'.status = "closed"
         /\ InInventory <=> InInventory'
         /\ \A m \in Events : notice'[m].kind = notice[m].kind
         /\ \A m \in Events : m # n => notice'[m] = notice[m]
         /\ notice'[n].state \in {"stored", "applied"}
         /\ notice'[n].state = "applied" => InInventory
         /\ notice[n].kind = "closed" /\ InInventory => survey'.status = "closed"
         /\ Received \subseteq Received'
<1> USE DEF TolunaIInv, TolunaTypeOK
<1> DEFINE applies == InInventory /\ (notice[n].kind = "quota" => quota # "absent")
<1>1. /\ notice' = [notice EXCEPT ![n].state = IF applies THEN "applied" ELSE "stored"]
      /\ survey' = IF applies /\ notice[n].kind = "closed"
                     THEN [survey EXCEPT !.status = "closed"] ELSE survey
      /\ quota' \in {"absent", "open", "full"}
  BY DEF Reconcile
<1>2. notice' \in [Events -> Notice]
  BY <1>1 DEF Notice
<1>3. /\ \A m \in Events : notice'[m].kind = notice[m].kind
      /\ \A m \in Events : m # n => notice'[m] = notice[m]
      /\ notice'[n].state = IF applies THEN "applied" ELSE "stored"
  BY <1>1 DEF Notice
<1>4. survey' \in SurveyRow /\ survey' = [survey EXCEPT !.status = survey'.status]
  BY <1>1 DEF SurveyRow
<1>5. survey'.status = IF applies /\ notice[n].kind = "closed" THEN "closed"
                       ELSE survey.status
  BY <1>1 DEF SurveyRow
<1>6. Received \subseteq Received'
  BY <1>3 DEF Received
<1> QED
  BY <1>1, <1>2, <1>3, <1>4, <1>5, <1>6 DEF InInventory

-----------------------------------------------------------------------------
(* Initially, and upstream *)

LEMMA TolunaBegins == TolunaInit => TolunaIInv
<1> SUFFICES ASSUME TolunaInit PROVE TolunaIInv
  OBVIOUS
<1> USE TolunaInventoryAssumption
<1>1. NoReplay \in Replay /\ NoReplay.again = {} /\ NoReplay.pending = {}
  BY DEF NoReplay, Replay
<1>2. upstream \in Snapshot /\ upstream.raw \in Payload /\ upstream.raw.contract \in Contracts
  BY DEF TolunaInit, Snapshot, Payload
<1>3. TolunaTypeOK
  <2>1. survey \in SurveyRow
    BY <1>2 DEF TolunaInit, SurveyRow
  <2>2. notice \in [Events -> Notice]
    BY DEF TolunaInit, Notice
  <2>3. run \in Run
    BY <1>1, <1>2 DEF TolunaInit, Run
  <2>4. refresh \in [Refreshers -> Refresh]
    BY <1>1 DEF TolunaInit, Refresh, IdleRefresh
  <2>5. happened \in 0 .. MaxEvents /\ quota \in {"absent", "open", "full"}
    BY DEF TolunaInit
  <2>6. clean \in BOOLEAN
    BY DEF TolunaInit
  <2> QED
    BY <1>2, <2>1, <2>2, <2>3, <2>4, <2>5, <2>6 DEF TolunaTypeOK
<1>4. FormOK
  BY DEF TolunaInit, FormOK
<1>5. TimeOK
  BY DEF TolunaInit, TimeOK
<1>6. ReplayOK
  BY <1>1 DEF TolunaInit, ReplayOK, IdleRefresh
<1>7. CloseOK
  BY DEF TolunaInit, CloseOK
<1> QED
  BY <1>3, <1>4, <1>5, <1>6, <1>7 DEF TolunaIInv

\* An upstream change, its notification not yet received.
LEMMA HappenStep ==
  ASSUME TolunaIInv, NEW now \in Snapshot, NEW kind \in {"silent", "closed", "quota"},
         NEW live \in BOOLEAN, Happen(now, kind, live)
  PROVE  TolunaIInv'
<1> USE TolunaInventoryAssumption
<1> DEFINE e == happened + 1
<1>1. e \in Events /\ happened' = e /\ happened \in Nat /\ MaxEvents \in Nat
  BY DEF TolunaIInv, TolunaTypeOK, Happen, Events
<1>2. /\ \A n \in Events : n # e => notice'[n] = notice[n]
      /\ notice'[e].state \in {"none", "sent"}
      /\ notice' \in [Events -> Notice]
  BY <1>1 DEF TolunaIInv, TolunaTypeOK, Happen, Notice
<1>3. notice[e].state = "none"
  <2>1. notice[e].state # "none" => e <= happened
    BY <1>1 DEF TolunaIInv, TimeOK
  <2> QED
    BY <2>1, <1>1
<1>4. run' = [run EXCEPT !.quiet = FALSE] /\ run' \in Run
  BY DEF TolunaIInv, TolunaTypeOK, Happen, Disturbed, Run
<1>5. Received' = Received /\ LaterCloses' = LaterCloses
  BY <1>2, <1>3, <1>4 DEF Received, LaterCloses, TolunaIInv, TolunaTypeOK, Run
<1>6. TolunaTypeOK'
  <2>1. happened' \in 0 .. MaxEvents
    BY <1>1 DEF Events
  <2>2. upstream' \in Snapshot /\ survey' = survey /\ quota' = quota /\ refresh' = refresh
    BY DEF Happen
  <2>3. clean' \in BOOLEAN
    BY DEF Happen, Disturbed
  <2> QED
    BY <1>2, <1>4, <2>1, <2>2, <2>3 DEF TolunaIInv, TolunaTypeOK
<1>7. FormOK'
  BY DEF TolunaIInv, FormOK, Happen, InInventory
<1>8. TimeOK'
  <2>1. \A n \in Events : notice'[n].state # "none" => n <= happened'
    BY <1>1, <1>2 DEF TolunaIInv, TimeOK, Events
  <2>2. run'.as_of = run.as_of /\ run'.pc = run.pc /\ run'.start = run.start
        /\ run.as_of \in Nat
    BY <1>4 DEF TolunaIInv, TolunaTypeOK, Run
  <2> QED
    BY <1>1, <2>1, <2>2 DEF TolunaIInv, TimeOK
<1>9. ReplayOK'
  <2>1. \A n \in Events : notice'[n].state = "applied" => notice[n].state = "applied"
    BY <1>2
  <2>2. run'.replay = run.replay
    BY <1>4 DEF TolunaIInv, TolunaTypeOK, Run
  <2> QED
    BY <1>5, <2>1, <2>2 DEF TolunaIInv, ReplayOK, Happen, InInventory
<1>10. CloseOK'
  <2>1. \A m \in Received : notice'[m].kind = notice[m].kind
    BY <1>2, <1>3 DEF Received
  <2>2. run'.replay = run.replay /\ run'.pc = run.pc /\ run'.touched = run.touched
    BY <1>4 DEF TolunaIInv, TolunaTypeOK, Run
  <2>3. survey' = survey
    BY DEF Happen
  <2> QED
    BY <1>5, <2>1, <2>2, <2>3 DEF TolunaIInv, ReplayOK, CloseOK
<1> QED
  BY <1>6, <1>7, <1>8, <1>9, <1>10 DEF TolunaIInv

LEMMA ProviderStep ==
  ASSUME TolunaIInv, Provider
  PROVE  TolunaIInv'
<1>1. upstream \in Snapshot /\ upstream.raw \in Payload
  BY DEF TolunaIInv, TolunaTypeOK, Snapshot
<1>2. CASE QuotaChanges
  <2> DEFINE live == ~upstream.raw.open
  <2>1. live \in BOOLEAN
    OBVIOUS
  <2>2. Happen([upstream EXCEPT !.raw.open = live], "quota", live)
    BY <1>2 DEF QuotaChanges
  <2> HIDE DEF live
  <2>3. [upstream EXCEPT !.raw.open = live] \in Snapshot
    BY <1>1, <2>1 DEF Snapshot, Payload
  <2> QED
    BY <2>1, <2>2, <2>3, HappenStep
<1>3. CASE SurveyCloses
  <2>1. [upstream EXCEPT !.listed = FALSE] \in Snapshot
    BY <1>1 DEF Snapshot
  <2> QED
    BY <1>3, <2>1, HappenStep DEF SurveyCloses
<1>4. CASE SurveyReopens
  <2>1. [upstream EXCEPT !.listed = TRUE] \in Snapshot
    BY <1>1 DEF Snapshot
  <2> QED
    BY <1>4, <2>1, HappenStep DEF SurveyReopens
<1>5. CASE TargetingChanges
  <2>1. PICK c \in Contracts :
          Happen([upstream EXCEPT !.raw.contract = c], "silent", FALSE)
    BY <1>5 DEF TargetingChanges
  <2>2. [upstream EXCEPT !.raw.contract = c] \in Snapshot
    BY <1>1 DEF Snapshot, Payload
  <2> QED
    BY <2>1, <2>2, HappenStep
<1> QED
  BY <1>2, <1>3, <1>4, <1>5 DEF Provider

-----------------------------------------------------------------------------
(* Notifications *)

LEMMA StoreStep ==
  ASSUME TolunaIInv, NEW n \in Events, Store(n)
  PROVE  TolunaIInv'
<1>1. /\ \A m \in Events : m # n => notice'[m] = notice[m]
      /\ notice'[n] = [notice[n] EXCEPT !.state = "stored"]
      /\ notice[n].state = "sent"
      /\ notice' \in [Events -> Notice]
  BY DEF TolunaIInv, TolunaTypeOK, Store, Notice
<1>2. notice'[n].state = "stored" /\ notice'[n].kind = notice[n].kind
  BY <1>1 DEF TolunaIInv, TolunaTypeOK, Notice
<1>3. /\ run' \in Run /\ run'.as_of = run.as_of /\ run'.pc = run.pc
      /\ run'.start = run.start /\ run'.replay = run.replay /\ run'.touched = run.touched
  BY DEF TolunaIInv, TolunaTypeOK, Store, Disturbed, Run
<1>4. Received \subseteq Received' /\ LaterCloses' = LaterCloses
  <2>1. Received \subseteq Received'
    BY <1>1, <1>2 DEF Received
  <2>2. \A m \in Events : (m \in LaterCloses') <=> (m \in LaterCloses)
    BY <1>1, <1>2, <1>3 DEF LaterCloses
  <2>3. LaterCloses' = LaterCloses
    BY <2>2 DEF LaterCloses
  <2> QED
    BY <2>1, <2>3
<1>5. survey' = survey /\ quota' = quota /\ refresh' = refresh /\ upstream' = upstream
      /\ happened' = happened /\ clean' = FALSE
  BY DEF Store, Disturbed
<1>6. TolunaTypeOK'
  BY <1>1, <1>3, <1>5 DEF TolunaIInv, TolunaTypeOK
<1>7. FormOK'
  BY <1>5 DEF TolunaIInv, FormOK, InInventory
<1>8. TimeOK'
  BY <1>1, <1>3, <1>5 DEF TolunaIInv, TimeOK
<1>9. ReplayOK'
  BY <1>1, <1>2, <1>3, <1>4, <1>5 DEF TolunaIInv, ReplayOK, InInventory
<1>10. CloseOK'
  <2>1. \A m \in Events : notice'[m].kind = notice[m].kind
    BY <1>1, <1>2
  <2>2. run.replay.again \subseteq Events
    BY DEF TolunaIInv, TolunaTypeOK, Run, Replay
  <2> QED
    BY <1>3, <1>4, <1>5, <2>1, <2>2 DEF TolunaIInv, CloseOK
<1> QED
  BY <1>6, <1>7, <1>8, <1>9, <1>10 DEF TolunaIInv

\* Reconciling keeps the invariant in every process that does it: the run and
\* the refreshes at most drop the notification from their replay, and the run
\* drops one that is not pending only once it is in force.
LEMMA ReconcileStep ==
  ASSUME TolunaIInv, NEW n \in Events, n \in Received, Reconcile(n),
         run' \in Run, refresh' \in [Refreshers -> Refresh], clean' \in BOOLEAN,
         upstream' = upstream, happened' = happened,
         run'.pc = run.pc, run'.start = run.start, run'.as_of = run.as_of,
         run'.touched = run.touched,
         run.replay.again \ {n} \subseteq run'.replay.again,
         run'.replay.again \subseteq run.replay.again,
         run'.replay.pending \subseteq run.replay.pending,
         \A d \in Refreshers :
           refresh'[d].replay.again \cup refresh'[d].replay.pending
             \subseteq refresh[d].replay.again \cup refresh[d].replay.pending
  PROVE  TolunaIInv'
<1>1. TolunaTypeOK'
  BY Reconciled DEF TolunaIInv, TolunaTypeOK
<1>2. FormOK'
  BY Reconciled DEF TolunaIInv, FormOK, TolunaTypeOK, SurveyRow
<1>3. \A m \in Events : notice'[m].state # "none" => notice[m].state # "none"
  BY Reconciled DEF Received
<1>4. TimeOK'
  BY <1>3 DEF TolunaIInv, TimeOK
<1>5. ReplayOK'
  <2>1. \A m \in Events : notice'[m].state = "applied" => InInventory'
    BY Reconciled DEF TolunaIInv, ReplayOK
  <2>2. Received \subseteq Received'
    BY Reconciled
  <2> QED
    BY <2>1, <2>2 DEF TolunaIInv, ReplayOK
<1>6. CloseOK'
  <2>1. survey'.status = survey.status \/ survey'.status = "closed"
    BY Reconciled
  <2>2. CASE LaterCloses = {}
    <3>1. \A m \in LaterCloses' : m = n /\ notice[n].kind = "closed" /\ InInventory
      BY <2>2, Reconciled DEF LaterCloses
    <3>2. LaterCloses' # {} => survey'.status = "closed"
      BY <3>1, Reconciled
    <3> QED
      BY <3>2 DEF CloseOK
  <2>3. CASE LaterCloses # {}
    <3>1. InInventory
      BY <2>3 DEF TolunaIInv, ReplayOK, LaterCloses
    <3>2. run.replay.again \subseteq Events
      BY DEF TolunaIInv, TolunaTypeOK, Run, Replay
    <3>3. ASSUME NEW m \in run.replay.again, notice[m].kind = "closed"
          PROVE  survey'.status = "closed" \/ m \in run'.replay.again
      BY <3>1, <3>3, Reconciled
    <3>4. \A m \in Events : notice'[m].kind = notice[m].kind
      BY Reconciled
    <3> QED
      BY <2>1, <2>3, <3>2, <3>3, <3>4 DEF TolunaIInv, CloseOK
  <2> QED
    BY <2>2, <2>3
<1> QED
  BY <1>1, <1>2, <1>4, <1>5, <1>6 DEF TolunaIInv

LEMMA WebhookStep ==
  ASSUME TolunaIInv, NEW n \in Events, Store(n) \/ Deliver(n)
  PROVE  TolunaIInv'
<1>1. CASE Store(n)
  BY <1>1, StoreStep
<1>2. CASE Deliver(n)
  <2>1. n \in Received /\ Reconcile(n)
    BY <1>2 DEF Deliver, Received
  <2>2. /\ run' \in Run /\ run'.as_of = run.as_of /\ run'.pc = run.pc
        /\ run'.start = run.start /\ run'.replay = run.replay /\ run'.touched = run.touched
    BY <1>2 DEF TolunaIInv, TolunaTypeOK, Deliver, Disturbed, Run
  <2>3. /\ refresh' = refresh /\ refresh' \in [Refreshers -> Refresh]
        /\ clean' \in BOOLEAN /\ upstream' = upstream /\ happened' = happened
    BY <1>2 DEF TolunaIInv, TolunaTypeOK, Deliver, Disturbed
  <2> QED
    BY <2>1, <2>2, <2>3, ReconcileStep
<1> QED
  BY <1>1, <1>2

-----------------------------------------------------------------------------
(* The run *)

LEMMA StartStep ==
  ASSUME TolunaIInv, StartRun
  PROVE  TolunaIInv'
<1>1. /\ run' \in Run /\ run'.pc = "started" /\ run'.start = Received
      /\ run'.as_of = run.as_of /\ run'.replay = run.replay
  <2>1. Received \in SUBSET Events
    BY DEF Received
  <2> DEFINE quiet == AllProcessed /\ \A d \in Refreshers : refresh[d].pc = "idle"
  <2>2. quiet \in BOOLEAN
    OBVIOUS
  <2>3. run' = [run EXCEPT !.pc = "started", !.start = Received, !.quiet = quiet]
    BY DEF StartRun
  <2> HIDE DEF quiet
  <2> QED
    BY <2>1, <2>2, <2>3 DEF TolunaIInv, TolunaTypeOK, Run
<1>2. UNCHANGED <<upstream, happened, notice, survey, quota, refresh, clean>>
  BY DEF StartRun
<1>3. TolunaTypeOK'
  BY <1>1, <1>2 DEF TolunaIInv, TolunaTypeOK
<1>4. FormOK'
  BY <1>2 DEF TolunaIInv, FormOK, InInventory
<1>5. TimeOK'
  <2>1. Received \subseteq 1 .. happened
    BY DEF TolunaIInv, TolunaTypeOK, TimeOK, Received, Events
  <2> QED
    BY <1>1, <1>2, <2>1 DEF TolunaIInv, TimeOK
<1>6. ReplayOK'
  BY <1>1, <1>2 DEF TolunaIInv, ReplayOK, InInventory, Received
<1>7. CloseOK'
  BY <1>1 DEF CloseOK
<1> QED
  BY <1>3, <1>4, <1>5, <1>6, <1>7 DEF TolunaIInv

LEMMA FetchStep ==
  ASSUME TolunaIInv, Fetch
  PROVE  TolunaIInv'
<1>1. /\ run' \in Run /\ run'.pc = "fetched" /\ run'.as_of = happened
      /\ run'.start = run.start /\ run'.replay = run.replay /\ run.pc = "started"
  BY DEF TolunaIInv, TolunaTypeOK, Fetch, Run
<1>2. UNCHANGED <<upstream, happened, notice, survey, quota, refresh, clean>>
  BY DEF Fetch
<1>3. TolunaTypeOK'
  BY <1>1, <1>2 DEF TolunaIInv, TolunaTypeOK
<1>4. FormOK'
  BY <1>2 DEF TolunaIInv, FormOK, InInventory
<1>5. TimeOK'
  BY <1>1, <1>2 DEF TolunaIInv, TolunaTypeOK, TimeOK
<1>6. ReplayOK'
  BY <1>1, <1>2 DEF TolunaIInv, ReplayOK, InInventory, Received
<1>7. CloseOK'
  <2>1. LaterCloses' = {}
    BY <1>1, <1>2 DEF TolunaIInv, TolunaTypeOK, TimeOK, LaterCloses, Events
  <2> QED
    BY <2>1 DEF CloseOK
<1> QED
  BY <1>3, <1>4, <1>5, <1>6, <1>7 DEF TolunaIInv

LEMMA MergeStep ==
  ASSUME TolunaIInv, Merge
  PROVE  TolunaIInv'
<1> DEFINE raw == run.snapshot.raw
           touched == run.snapshot.listed /\ (~InInventory \/ Differs(raw))
<1>1. run \in Run /\ run.pc = "fetched" /\ raw \in Payload /\ raw.contract \in Contracts
      /\ run.snapshot.listed \in BOOLEAN /\ run.start \in SUBSET Events
  BY DEF TolunaIInv, TolunaTypeOK, Merge, Run, Snapshot, Payload
<1>2. /\ run' \in Run /\ run'.pc = "merged" /\ run'.as_of = run.as_of
      /\ run'.start = run.start /\ run'.replay = run.replay /\ run'.touched = touched
  <2>1. touched \in BOOLEAN
    OBVIOUS
  <2>2. run' = [run EXCEPT !.pc = "merged", !.touched = touched]
    BY DEF Merge
  <2> HIDE DEF touched
  <2> QED
    BY <1>1, <2>1, <2>2 DEF Run
<1>3. UNCHANGED <<upstream, happened, notice, refresh, clean>>
  BY DEF Merge
<1>4. \/ run.snapshot.listed /\ Create(raw)
      \/ run.snapshot.listed /\ Update(raw)
      \/ run.snapshot.listed /\ Heartbeat(raw)
      \/ ~run.snapshot.listed /\ CloseMissing
  BY DEF Merge
<1>5. /\ survey' \in SurveyRow /\ quota' \in {"absent", "open", "full"}
      /\ InInventory => InInventory'
      /\ FormOK'
  <2> HIDE DEF raw
  <2> USE <1>1 DEF TolunaIInv, TolunaTypeOK, FormOK, InInventory, SurveyRow, Payload
  <2>1. CASE Create(raw)
    BY <2>1 DEF Create
  <2>2. CASE Update(raw)
    <3>1. DetailsAfter(raw) \in BOOLEAN
      BY DEF DetailsAfter
    <3>2. survey' = [survey EXCEPT !.status = "live", !.raw = raw,
                       !.lastSeen = run.start, !.details = DetailsAfter(raw)]
      BY <2>2 DEF Update
    <3>3. quota' \in {"absent", "open", "full"}
      BY <2>2 DEF Update, QuotaOf
    <3>4. DetailsAfter(raw) => survey.details /\ raw.contract = survey.raw.contract
      BY DEF DetailsAfter
    <3> QED
      BY <3>1, <3>2, <3>3, <3>4
  <2>3. CASE Heartbeat(raw)
    BY <2>3 DEF Heartbeat
  <2>4. CASE CloseMissing
    BY <2>4 DEF CloseMissing
  <2> QED
    BY <1>4, <2>1, <2>2, <2>3, <2>4 DEF raw
<1>6. TolunaTypeOK'
  BY <1>2, <1>3, <1>5 DEF TolunaIInv, TolunaTypeOK
<1>7. TimeOK'
  BY <1>1, <1>2, <1>3 DEF TolunaIInv, TimeOK
<1>8. ReplayOK'
  BY <1>2, <1>3, <1>5 DEF TolunaIInv, ReplayOK, Received
<1>9. CloseOK'
  <2> SUFFICES ASSUME LaterCloses' # {}
               PROVE  survey'.status = "closed" \/ run'.touched
    BY <1>2 DEF CloseOK
  <2>1. survey.status = "closed"
    BY <1>1, <1>2, <1>3 DEF TolunaIInv, CloseOK, LaterCloses
  <2>2. CASE run.snapshot.listed
    BY <1>2, <2>1, <2>2 DEF Differs
  <2>3. CASE ~run.snapshot.listed
    BY <1>4, <2>1, <2>3 DEF CloseMissing
  <2> QED
    BY <2>2, <2>3
<1> QED
  BY <1>5, <1>6, <1>7, <1>8, <1>9 DEF TolunaIInv

LEMMA ListStep ==
  ASSUME TolunaIInv, ListReplay
  PROVE  TolunaIInv'
<1> USE TolunaInventoryAssumption
<1> DEFINE replay == IF run.touched THEN ReplayFrom(run.start) ELSE NoReplay
<1>1. run \in Run /\ run.start \in SUBSET Events /\ run.pc = "merged" /\ run.touched \in BOOLEAN
  BY DEF TolunaIInv, TolunaTypeOK, ListReplay, Run
<1>2. replay \in Replay /\ replay.again \cup replay.pending \subseteq Received
  <2>1. NoReplay \in Replay /\ NoReplay.again = {} /\ NoReplay.pending = {}
    BY DEF NoReplay, Replay
  <2> QED
    BY <1>1, <2>1, Listed DEF TolunaIInv
<1>3. /\ run' \in Run /\ run'.pc = "replaying" /\ run'.as_of = run.as_of
      /\ run'.replay = replay
  <2>1. run' = [run EXCEPT !.pc = "replaying", !.replay = replay]
    BY DEF ListReplay
  <2> HIDE DEF replay
  <2> QED
    BY <1>1, <1>2, <2>1 DEF Run
<1>4. UNCHANGED <<upstream, happened, notice, survey, quota, refresh, clean>>
  BY DEF ListReplay
<1>5. TolunaTypeOK'
  BY <1>3, <1>4 DEF TolunaIInv, TolunaTypeOK
<1>6. FormOK'
  BY <1>4 DEF TolunaIInv, FormOK, InInventory
<1>7. TimeOK'
  BY <1>3, <1>4 DEF TolunaIInv, TimeOK
<1>8. ReplayOK'
  BY <1>2, <1>3, <1>4 DEF TolunaIInv, ReplayOK, InInventory, Received
<1>9. CloseOK'
  <2> SUFFICES ASSUME LaterCloses # {}, survey.status # "closed"
               PROVE  \E m \in replay.again : notice[m].kind = "closed"
    BY <1>3, <1>4 DEF CloseOK, LaterCloses
  <2>1. run.touched
    BY <1>1 DEF TolunaIInv, CloseOK
  <2> DEFINE T == {n \in Events : notice[n].kind = "closed" /\ notice[n].state = "applied"}
  <2>2. PICK m \in T : \A n \in T : n <= m
    <3>1. T \in SUBSET (0 .. MaxEvents) /\ T # {} /\ MaxEvents \in Nat
      BY DEF Events, LaterCloses
    <3> HIDE DEF T
    <3> QED
      BY <3>1, Newest
  <2>3. m \in Received
    BY DEF Received
  <2>4. m \notin run.start
    <3>1. PICK n \in LaterCloses : TRUE
      OBVIOUS
    <3>2. n <= m /\ n > run.as_of /\ n \in Nat /\ m \in Nat /\ run.as_of \in Nat
      BY <1>1, <2>2, <3>1 DEF LaterCloses, Events, Run
    <3>3. run.start \subseteq 1 .. run.as_of
      BY <1>1 DEF TolunaIInv, TimeOK
    <3> QED
      BY <3>2, <3>3
  <2>5. m \in Again(run.start)
    BY <2>2, <2>3, <2>4 DEF Again
  <2> QED
    BY <2>1, <2>5 DEF ReplayFrom
<1> QED
  BY <1>5, <1>6, <1>7, <1>8, <1>9 DEF TolunaIInv

LEMMA ReplayStep ==
  ASSUME TolunaIInv, ReplayOne
  PROVE  TolunaIInv'
<1>1. run \in Run /\ run.replay \in Replay
  BY DEF TolunaIInv, TolunaTypeOK, Run
<1>2. PICK n \in Upcoming(run.replay) :
        Reconcile(n) /\ run' = [run EXCEPT !.replay = Without(@, n)]
  BY DEF ReplayOne
<1>3. /\ n \in run.replay.again \cup run.replay.pending /\ n \in Events
      /\ Without(run.replay, n) \in Replay
      /\ Without(run.replay, n).again = run.replay.again \ {n}
      /\ Without(run.replay, n).pending = run.replay.pending \ {n}
  BY <1>1, <1>2, Upcomes
<1>4. n \in Received
  BY <1>3 DEF TolunaIInv, ReplayOK
<1>5. /\ run' \in Run /\ run'.pc = run.pc /\ run'.start = run.start
      /\ run'.as_of = run.as_of /\ run'.touched = run.touched
      /\ run'.replay = Without(run.replay, n)
  BY <1>1, <1>2, <1>3 DEF Run
<1>6. /\ refresh' = refresh /\ refresh' \in [Refreshers -> Refresh]
      /\ clean' \in BOOLEAN /\ upstream' = upstream /\ happened' = happened
  BY DEF TolunaIInv, TolunaTypeOK, ReplayOne
<1> QED
  BY <1>2, <1>3, <1>4, <1>5, <1>6, ReconcileStep

LEMMA EndStep ==
  ASSUME TolunaIInv, FinishRun \/ FailRun
  PROVE  TolunaIInv'
<1>1. NoReplay \in Replay /\ NoReplay.again = {} /\ NoReplay.pending = {}
  BY DEF NoReplay, Replay
<1>2. run \in Run /\ run.quiet \in BOOLEAN /\ clean \in BOOLEAN
  BY DEF TolunaIInv, TolunaTypeOK, Run
<1>3. /\ run' \in Run /\ run'.pc = "idle" /\ run'.as_of = run.as_of
      /\ run'.replay = NoReplay
  BY <1>1, <1>2 DEF FinishRun, FailRun, Run
<1>4. clean' \in BOOLEAN
  <2>1. clean' = (clean \/ run.quiet) \/ clean' = clean
    BY DEF FinishRun, FailRun
  <2> QED
    BY <1>2, <2>1
<1>5. UNCHANGED <<upstream, happened, notice, survey, quota, refresh>>
  BY DEF FinishRun, FailRun
<1>6. TolunaTypeOK'
  BY <1>3, <1>4, <1>5 DEF TolunaIInv, TolunaTypeOK
<1>7. FormOK'
  BY <1>5 DEF TolunaIInv, FormOK, InInventory
<1>8. TimeOK'
  BY <1>3, <1>5 DEF TolunaIInv, TimeOK
<1>9. ReplayOK'
  BY <1>1, <1>3, <1>5 DEF TolunaIInv, ReplayOK, InInventory, Received
<1>10. CloseOK'
  BY <1>3 DEF CloseOK
<1> QED
  BY <1>6, <1>7, <1>8, <1>9, <1>10 DEF TolunaIInv

-----------------------------------------------------------------------------
(* The detail refreshes *)

LEMMA RebuildStep ==
  ASSUME TolunaIInv, NEW d \in Refreshers, Rebuild(d)
  PROVE  TolunaIInv'
<1>1. /\ run' \in Run /\ run'.pc = run.pc /\ run'.as_of = run.as_of
      /\ run'.start = run.start /\ run'.replay = run.replay /\ run'.touched = run.touched
  BY DEF TolunaIInv, TolunaTypeOK, Rebuild, Run
<1>2. /\ survey' = [survey EXCEPT !.form = survey.raw.contract, !.details = TRUE]
      /\ survey.raw.contract \in Contracts /\ survey \in SurveyRow /\ InInventory
  BY DEF TolunaIInv, TolunaTypeOK, Rebuild, SurveyRow, Payload
<1>3. survey' \in SurveyRow /\ FormOK' /\ survey'.status = survey.status
  BY <1>2 DEF SurveyRow, FormOK, InInventory
<1>4. quota' \in {"absent", "open", "full"}
  BY DEF Rebuild, QuotaOf
<1>5. /\ refresh' \in [Refreshers -> Refresh]
      /\ \A u \in Refreshers : refresh'[u].replay = refresh[u].replay
  <2>1. survey.lastSeen \in SUBSET Events
    BY <1>2 DEF SurveyRow
  <2> QED
    BY <2>1 DEF TolunaIInv, TolunaTypeOK, Rebuild, Refresh
<1>6. UNCHANGED <<upstream, happened, notice, clean>>
  BY DEF Rebuild
<1>7. TolunaTypeOK'
  BY <1>1, <1>3, <1>4, <1>5, <1>6 DEF TolunaIInv, TolunaTypeOK
<1>8. TimeOK'
  BY <1>1, <1>6 DEF TolunaIInv, TimeOK
<1>9. ReplayOK'
  BY <1>1, <1>3, <1>5, <1>6 DEF TolunaIInv, ReplayOK, InInventory, Received
<1>10. CloseOK'
  BY <1>1, <1>3, <1>6 DEF TolunaIInv, CloseOK, LaterCloses
<1> QED
  BY <1>3, <1>7, <1>8, <1>9, <1>10 DEF TolunaIInv

\* A step of a refresh that changes no row.
LEMMA OwnStep ==
  ASSUME TolunaIInv, UNCHANGED <<upstream, happened, notice, survey, quota, run, clean>>,
         refresh' \in [Refreshers -> Refresh],
         \A d \in Refreshers :
           refresh'[d].replay.again \cup refresh'[d].replay.pending \subseteq Received
  PROVE  TolunaIInv'
<1>1. TolunaTypeOK' /\ FormOK' /\ TimeOK' /\ CloseOK'
  BY DEF TolunaIInv, TolunaTypeOK, FormOK, InInventory, TimeOK, CloseOK, LaterCloses
<1>2. ReplayOK'
  BY DEF TolunaIInv, ReplayOK, InInventory, Received
<1> QED
  BY <1>1, <1>2 DEF TolunaIInv

LEMMA DetailsStep ==
  ASSUME TolunaIInv, NEW d \in Refreshers, Details(d)
  PROVE  TolunaIInv'
<1>1. refresh \in [Refreshers -> Refresh]
      /\ \A u \in Refreshers : refresh[u].replay \in Replay /\ refresh[u].seen \in SUBSET Events
  BY DEF TolunaIInv, TolunaTypeOK, Refresh
<1>2. CASE Rebuild(d)
  BY <1>2, RebuildStep
<1>3. CASE ListReplayAfter(d)
  <2> DEFINE r == ReplayFrom(refresh[d].seen)
  <2>1. r \in Replay /\ r.again \cup r.pending \subseteq Received
    BY <1>1, Listed DEF TolunaIInv
  <2>2. refresh' = [refresh EXCEPT ![d].pc = "replaying", ![d].replay = r]
    BY <1>3 DEF ListReplayAfter
  <2> HIDE DEF r
  <2>3. refresh' \in [Refreshers -> Refresh] /\ refresh'[d].replay = r
        /\ \A u \in Refreshers : u # d => refresh'[u] = refresh[u]
    BY <1>1, <2>1, <2>2 DEF Refresh
  <2>4. \A u \in Refreshers :
          refresh'[u].replay.again \cup refresh'[u].replay.pending \subseteq Received
    BY <2>1, <2>3 DEF TolunaIInv, ReplayOK
  <2>5. UNCHANGED <<upstream, happened, notice, survey, quota, run, clean>>
    BY <1>3 DEF ListReplayAfter
  <2> QED
    BY <2>3, <2>4, <2>5, OwnStep
<1>4. CASE ReplayOneAfter(d)
  <2>1. PICK n \in Upcoming(refresh[d].replay) :
          Reconcile(n) /\ refresh' = [refresh EXCEPT ![d].replay = Without(@, n)]
    BY <1>4 DEF ReplayOneAfter
  <2> DEFINE q == refresh[d].replay
             r == Without(q, n)
  <2>2. /\ n \in q.again \cup q.pending /\ n \in Events /\ r \in Replay
        /\ r.again = q.again \ {n} /\ r.pending = q.pending \ {n}
    BY <1>1, <2>1, Upcomes
  <2>3. n \in Received
    BY <2>2 DEF TolunaIInv, ReplayOK
  <2>4. refresh' = [refresh EXCEPT ![d].replay = r]
    BY <2>1
  <2> HIDE DEF r
  <2>5. refresh' \in [Refreshers -> Refresh] /\ refresh'[d].replay = r
        /\ \A u \in Refreshers : u # d => refresh'[u] = refresh[u]
    BY <1>1, <2>2, <2>4 DEF Refresh
  <2>6. \A u \in Refreshers :
          refresh'[u].replay.again \cup refresh'[u].replay.pending
            \subseteq refresh[u].replay.again \cup refresh[u].replay.pending
    BY <2>2, <2>5
  <2>7. run' = run /\ run' \in Run /\ clean' \in BOOLEAN
        /\ upstream' = upstream /\ happened' = happened
    BY <1>4 DEF TolunaIInv, TolunaTypeOK, ReplayOneAfter
  <2> QED
    BY <2>1, <2>2, <2>3, <2>5, <2>6, <2>7, ReconcileStep
<1>5. CASE FinishRefresh(d) \/ FailRefresh(d)
  <2>1. IdleRefresh \in Refresh
        /\ IdleRefresh.replay.again = {} /\ IdleRefresh.replay.pending = {}
    BY DEF IdleRefresh, Refresh, NoReplay, Replay
  <2>2. refresh' = [refresh EXCEPT ![d] = IdleRefresh]
    BY <1>5 DEF FinishRefresh, FailRefresh
  <2>3. refresh' \in [Refreshers -> Refresh]
    BY <1>1, <2>1, <2>2
  <2>4. \A u \in Refreshers :
          refresh'[u].replay.again \cup refresh'[u].replay.pending \subseteq Received
    BY <1>1, <2>1, <2>2 DEF TolunaIInv, ReplayOK
  <2>5. UNCHANGED <<upstream, happened, notice, survey, quota, run, clean>>
    BY <1>5 DEF FinishRefresh, FailRefresh
  <2> QED
    BY <2>3, <2>4, <2>5, OwnStep
<1> QED
  BY <1>2, <1>3, <1>4, <1>5 DEF Details

-----------------------------------------------------------------------------
(* Theorems *)

LEMMA TolunaStep == TolunaIInv /\ [TolunaNext]_tolunaVars => TolunaIInv'
<1> SUFFICES ASSUME TolunaIInv, [TolunaNext]_tolunaVars PROVE TolunaIInv'
  OBVIOUS
<1>1. CASE Provider
  BY <1>1, ProviderStep
<1>2. CASE Webhook
  BY <1>2, WebhookStep DEF Webhook
<1>3. CASE Sync
  BY <1>3, StartStep, FetchStep, MergeStep, ListStep, ReplayStep, EndStep DEF Sync
<1>4. CASE \E d \in Refreshers : Details(d)
  BY <1>4, DetailsStep
<1>5. CASE UNCHANGED tolunaVars
  BY <1>5, OwnStep DEF tolunaVars, TolunaIInv, TolunaTypeOK, ReplayOK
<1> QED
  BY <1>1, <1>2, <1>3, <1>4, <1>5 DEF TolunaNext

LEMMA TolunaInductive == TolunaSpec => []TolunaIInv
<1> QED
  BY TolunaBegins, TolunaStep, PTL DEF TolunaSpec

(****************************************************************************)
(* The survey, its quota row, the notifications, the run and the detail     *)
(* refresh keep their types, with no more happening than the bounds allow;  *)
(* a replay takes no notification both as applied and as pending.           *)
(****************************************************************************)
THEOREM TolunaTypeCorrect == TolunaSpec => []TolunaTypeOK
<1>1. TolunaIInv => TolunaTypeOK
  BY DEF TolunaIInv
<1> QED
  BY <1>1, TolunaInductive, PTL

LEMMA FormKept == TolunaIInv => FormMatchesPayload
<1> QED
  BY DEF TolunaIInv, FormOK, FormMatchesPayload

(****************************************************************************)
(* merge_payload and the detail refresh: stored questions are the ones the  *)
(* stored payload asks for, whichever run or notification wrote last.       *)
(****************************************************************************)
THEOREM FormCorrect == TolunaSpec => []FormMatchesPayload
<1> QED
  BY FormKept, TolunaInductive, PTL

LEMMA ClosesStand ==
  TolunaIInv /\ [TolunaNext]_tolunaVars =>
    [FinishRun =>
       \A n \in Events :
         /\ n > run.as_of
         /\ notice[n].kind = "closed"
         /\ notice[n].state = "applied"
         => survey.status = "closed"]_tolunaVars
<1> SUFFICES ASSUME TolunaIInv, FinishRun, NEW n \in Events, n > run.as_of,
                    notice[n].kind = "closed", notice[n].state = "applied"
             PROVE  survey.status = "closed"
  OBVIOUS
<1>1. n \in LaterCloses
  BY DEF LaterCloses
<1>2. run.pc = "replaying" /\ run.replay.again = {}
  BY DEF FinishRun, NoReplay
<1> QED
  BY <1>1, <1>2 DEF TolunaIInv, CloseOK

(****************************************************************************)
(* _replay_notifications: a run never ends with a survey live that Toluna   *)
(* closed, and told us so, after the run's snapshot was taken.              *)
(****************************************************************************)
THEOREM CloseCorrect == TolunaSpec => CloseSurvivesRun
<1> QED
  BY ClosesStand, TolunaInductive, PTL DEF TolunaSpec, CloseSurvivesRun

-----------------------------------------------------------------------------
(****************************************************************************)
(* QuietAgrees.  What makes the rows right after a run to which nothing     *)
(* happened: everything received was processed before it began, so what it  *)
(* merges is not changed back; and a heartbeat may leave the quota row as   *)
(* it is, since what the payload or the newest notification says is then    *)
(* what Toluna says (QuotaOK).                                              *)
(****************************************************************************)
Said(n) == IF notice[n].live THEN "open" ELSE "full"
AppliedQuota == {n \in Events : notice[n].kind = "quota" /\ notice[n].state = "applied"}
NewestApplied(m) == m \in AppliedQuota /\ \A n \in AppliedQuota : n <= m

\* An event that sends a notification has one, and the latest change of the quota
\* is as it is.
NoticesOK ==
  /\ \A n \in Events : notice[n].kind # "silent" => notice[n].state # "none"
  /\ \A m \in Events :
       notice[m].kind = "quota" /\ (\A n \in Events : notice[n].kind = "quota" => n <= m)
         => notice[m].live = upstream.raw.open

\* The quota row of details that are not stale says what the payload says or what
\* the newest notification says.
QuotaOK ==
  /\ AppliedQuota # {} => quota # "absent"
  /\ survey.details =>
       /\ quota # "absent"
       /\ quota = QuotaOf(survey.raw) \/ \E m \in Events : NewestApplied(m) /\ quota = Said(m)

\* Nothing has happened since a quiet run began, or since one completed; such a
\* run has merged.
Undisturbed == clean \/ (run.quiet /\ run.pc # "idle")
Repaired == clean \/ (run.quiet /\ run.pc \in {"merged", "replaying"})

QuietOK ==
  /\ Undisturbed =>
       /\ AllProcessed
       /\ run.pc # "idle" => Received \subseteq run.start
       /\ run.pc \in {"fetched", "merged", "replaying"} => run.snapshot = upstream
       /\ run.pc = "replaying" => run.replay = NoReplay
  /\ run.quiet /\ run.pc # "idle" => \A d \in Refreshers : refresh[d].pc = "idle"

\* The rows are as Toluna has them, and a refresh has nothing to replay for a
\* survey that is listed.
RepairedOK ==
  Repaired =>
    /\ survey.status = "live" <=> upstream.listed
    /\ upstream.listed =>
         /\ survey.raw = upstream.raw
         /\ Received \subseteq survey.lastSeen
         /\ survey.details => quota = QuotaOf(upstream.raw)
         /\ \A d \in Refreshers :
              /\ refresh[d].pc = "rebuilt" => Received \subseteq refresh[d].seen
              /\ refresh[d].pc = "replaying" => refresh[d].replay = NoReplay

QuietIInv == NoticesOK /\ QuotaOK /\ QuietOK /\ RepairedOK

LEMMA QuietBegins == TolunaInit => QuietIInv
<1> SUFFICES ASSUME TolunaInit PROVE QuietIInv
  OBVIOUS
<1>1. /\ \A n \in Events : notice[n].kind = "silent" /\ notice[n].state = "none"
      /\ ~survey.details /\ ~clean /\ run.pc = "idle"
  BY DEF TolunaInit
<1>2. NoticesOK
  BY <1>1 DEF NoticesOK
<1>3. QuotaOK
  BY <1>1 DEF QuotaOK, AppliedQuota
<1>4. QuietOK
  BY <1>1 DEF QuietOK, Undisturbed
<1>5. RepairedOK
  BY <1>1 DEF RepairedOK, Repaired
<1> QED
  BY <1>2, <1>3, <1>4, <1>5 DEF QuietIInv

\* Toluna and the webhook disturb.
LEMMA Disturbs ==
  ASSUME TolunaTypeOK, Disturbed
  PROVE  QuietOK' /\ RepairedOK'
<1>1. clean' = FALSE /\ run'.quiet = FALSE
  BY DEF Disturbed, TolunaTypeOK, Run
<1> QED
  BY <1>1 DEF QuietOK, RepairedOK, Undisturbed, Repaired

\* The explanation of the quota row is about these variables.
LEMMA QuotaStays ==
  ASSUME NoticesOK, QuotaOK, UNCHANGED <<upstream, notice, survey, quota>>
  PROVE  NoticesOK' /\ QuotaOK'
<1>1. NoticesOK'
  BY DEF NoticesOK
<1>2. QuotaOK'
  BY DEF QuotaOK, AppliedQuota, NewestApplied, Said
<1> QED
  BY <1>1, <1>2

\* A change upstream.
LEMMA HappenQuiet ==
  ASSUME TolunaIInv, QuietIInv, NEW now \in Snapshot, NEW kind \in {"silent", "closed", "quota"},
         NEW live \in BOOLEAN, Happen(now, kind, live),
         IF kind = "quota" THEN now.raw.open = live ELSE now.raw.open = upstream.raw.open
  PROVE  QuietIInv'
<1> USE TolunaInventoryAssumption DEF QuietIInv
<1> DEFINE e == happened + 1
<1>1. e \in Events /\ happened \in Nat /\ \A n \in Events : n \in Nat
  BY DEF TolunaIInv, TolunaTypeOK, Happen, Events
<1>2. /\ \A n \in Events : n # e => notice'[n] = notice[n]
      /\ notice'[e].kind = kind /\ notice'[e].live = live
      /\ notice'[e].state = IF kind = "silent" THEN "none" ELSE "sent"
  BY <1>1 DEF TolunaIInv, TolunaTypeOK, Happen, Notice
<1>3. notice[e].state = "none" /\ \A n \in Events : notice[n].state # "none" => n < e
  BY <1>1 DEF TolunaIInv, TimeOK
<1>4. upstream' = now /\ UNCHANGED <<survey, quota, refresh>>
  BY DEF Happen
<1>5. QuietOK' /\ RepairedOK'
  BY Disturbs DEF TolunaIInv, Happen
<1>6. NoticesOK'
  <2>1. \A n \in Events : notice'[n].kind # "silent" => notice'[n].state # "none"
    BY <1>2 DEF NoticesOK
  <2>2. ASSUME NEW m \in Events, notice'[m].kind = "quota",
               \A n \in Events : notice'[n].kind = "quota" => n <= m
        PROVE  notice'[m].live = upstream'.raw.open
    <3>1. CASE kind = "quota"
      <4>1. e <= m
        BY <1>1, <1>2, <2>2, <3>1
      <4>2. m = e
        BY <1>1, <1>2, <1>3, <2>2, <4>1 DEF NoticesOK
      <4> QED
        BY <1>2, <1>4, <3>1, <4>2
    <3>2. CASE kind # "quota"
      <4>1. m # e /\ notice[m] = notice'[m]
        BY <1>1, <1>2, <2>2, <3>2
      <4>2. \A n \in Events : notice[n].kind = "quota" => n # e /\ notice'[n] = notice[n]
        BY <1>1, <1>2, <1>3 DEF NoticesOK
      <4> QED
        BY <1>4, <2>2, <3>2, <4>1, <4>2 DEF NoticesOK
    <3> QED
      BY <3>1, <3>2
  <2> QED
    BY <2>1, <2>2 DEF NoticesOK
<1>7. QuotaOK'
  <2>1. AppliedQuota' = AppliedQuota
    BY <1>1, <1>2, <1>3 DEF AppliedQuota
  <2>2. \A n \in AppliedQuota : notice'[n] = notice[n]
    BY <1>1, <1>2, <1>3 DEF AppliedQuota
  <2> QED
    BY <1>4, <2>1, <2>2 DEF QuotaOK, NewestApplied, Said
<1> QED
  BY <1>5, <1>6, <1>7

LEMMA ProviderQuiet ==
  ASSUME TolunaIInv, QuietIInv, Provider
  PROVE  QuietIInv'
<1>1. upstream \in Snapshot /\ upstream.raw \in Payload
  BY DEF TolunaIInv, TolunaTypeOK, Snapshot
<1>2. CASE QuotaChanges
  <2>1. PICK live \in BOOLEAN : live = ~upstream.raw.open
    BY <1>1 DEF Payload
  <2>2. PICK now \in Snapshot : now = [upstream EXCEPT !.raw.open = live]
    BY <1>1 DEF Snapshot, Payload
  <2>3. Happen(now, "quota", live)
    BY <1>2, <2>1, <2>2 DEF QuotaChanges
  <2>4. now.raw.open = live
    BY <1>1, <2>2 DEF Snapshot, Payload
  <2> QED
    BY <2>3, <2>4, HappenQuiet
<1>3. CASE SurveyCloses
  <2>1. PICK now \in Snapshot : now = [upstream EXCEPT !.listed = FALSE]
    BY <1>1 DEF Snapshot
  <2>2. now.raw.open = upstream.raw.open /\ Happen(now, "closed", FALSE)
    BY <1>1, <1>3, <2>1 DEF Snapshot, SurveyCloses
  <2> QED
    BY <2>2, HappenQuiet
<1>4. CASE SurveyReopens
  <2>1. PICK now \in Snapshot : now = [upstream EXCEPT !.listed = TRUE]
    BY <1>1 DEF Snapshot
  <2>2. now.raw.open = upstream.raw.open /\ Happen(now, "silent", FALSE)
    BY <1>1, <1>4, <2>1 DEF Snapshot, SurveyReopens
  <2> QED
    BY <2>2, HappenQuiet
<1>5. CASE TargetingChanges
  <2>1. PICK c \in Contracts :
          Happen([upstream EXCEPT !.raw.contract = c], "silent", FALSE)
    BY <1>5 DEF TargetingChanges
  <2>2. PICK now \in Snapshot : now = [upstream EXCEPT !.raw.contract = c]
    BY <1>1 DEF Snapshot, Payload
  <2>3. now.raw.open = upstream.raw.open
    BY <1>1, <2>2 DEF Snapshot, Payload
  <2> QED
    BY <2>1, <2>2, <2>3, HappenQuiet
<1> QED
  BY <1>2, <1>3, <1>4, <1>5 DEF Provider

\* A notification that is stored is not yet applied.
LEMMA StoreQuiet ==
  ASSUME TolunaIInv, QuietIInv, NEW n \in Events, Store(n)
  PROVE  QuietIInv'
<1> USE DEF QuietIInv
<1>1. /\ \A m \in Events : m # n => notice'[m] = notice[m]
      /\ notice'[n] = [notice[n] EXCEPT !.state = "stored"]
      /\ notice[n].state = "sent"
  BY DEF TolunaIInv, TolunaTypeOK, Store, Notice
<1>2. \A m \in Events : /\ notice'[m].kind = notice[m].kind /\ notice'[m].live = notice[m].live
                        /\ notice'[m].state # "none" <=> notice[m].state # "none"
                        /\ notice'[m].state = "applied" <=> notice[m].state = "applied"
  BY <1>1 DEF TolunaIInv, TolunaTypeOK, Notice
<1>3. UNCHANGED <<survey, quota, upstream>>
  BY DEF Store
<1>4. QuietOK' /\ RepairedOK'
  BY Disturbs DEF TolunaIInv, Store
<1>5. NoticesOK'
  BY <1>2, <1>3 DEF NoticesOK
<1>6. QuotaOK'
  <2>1. AppliedQuota' = AppliedQuota
    BY <1>2 DEF AppliedQuota
  <2>2. \A m \in Events : Said(m)' = Said(m)
    BY <1>2 DEF Said
  <2> QED
    BY <1>3, <2>1, <2>2 DEF QuotaOK, NewestApplied
<1> QED
  BY <1>4, <1>5, <1>6

\* What reconciling does to the explanation of the quota row; what was applied
\* stays applied.
LEMMA ReconciledQuota ==
  ASSUME TolunaIInv, NoticesOK, QuotaOK, NEW n \in Events, n \in Received, Reconcile(n),
         upstream' = upstream
  PROVE  /\ NoticesOK' /\ QuotaOK'
         /\ notice[n].state = "applied" => notice' = notice
<1> DEFINE applies == InInventory /\ (notice[n].kind = "quota" => quota # "absent")
<1>1. /\ notice' = [notice EXCEPT ![n].state = IF applies THEN "applied" ELSE "stored"]
      /\ survey' = IF applies /\ notice[n].kind = "closed"
                     THEN [survey EXCEPT !.status = "closed"] ELSE survey
      /\ quota' = IF applies /\ notice[n].kind = "quota" /\ ~NewerApplied(n) THEN Said(n)
                  ELSE quota
  BY DEF Reconcile, Said
<1>2. /\ \A m \in Events : /\ notice'[m].kind = notice[m].kind
                           /\ notice'[m].live = notice[m].live
                           /\ m # n => notice'[m] = notice[m]
      /\ notice'[n].state = IF applies THEN "applied" ELSE "stored"
      /\ notice[n].state \in {"stored", "applied"}
  BY <1>1 DEF TolunaIInv, TolunaTypeOK, Notice, Received
<1>3. survey'.details = survey.details /\ survey'.raw = survey.raw
  BY <1>1 DEF TolunaIInv, TolunaTypeOK, SurveyRow
<1>4. notice[n].state = "applied" => applies
  BY DEF TolunaIInv, ReplayOK, QuotaOK, AppliedQuota
<1>5. notice[n].state = "applied" => notice' = notice
  <2> SUFFICES ASSUME notice[n].state = "applied" PROVE notice' = notice
    OBVIOUS
  <2>1. notice' = [notice EXCEPT ![n].state = "applied"]
    BY <1>1, <1>4
  <2> QED
    BY <2>1 DEF TolunaIInv, TolunaTypeOK, Notice
<1>6. NoticesOK'
  <2>1. \A m \in Events : notice'[m].state # "none" <=> notice[m].state # "none"
    BY <1>2
  <2> QED
    BY <1>2, <2>1 DEF NoticesOK
<1> HIDE DEF applies
<1>7. \A m \in Events : Said(m)' = Said(m)
  BY <1>2 DEF Said
<1>8. AppliedQuota' = IF applies /\ notice[n].kind = "quota" THEN AppliedQuota \cup {n}
                      ELSE AppliedQuota
  BY <1>2, <1>4 DEF AppliedQuota
<1>9. CASE applies /\ notice[n].kind = "quota"
  <2>1. quota # "absent" /\ AppliedQuota' = AppliedQuota \cup {n} /\ n \in Nat
        /\ \A m \in Events : m \in Nat
    BY <1>8, <1>9 DEF applies, Events
  <2>2. CASE NewerApplied(n)
    <3>1. PICK k \in AppliedQuota : k > n /\ k \in Nat
      BY <2>1, <2>2 DEF NewerApplied, AppliedQuota
    <3>2. \A m \in Events : NewestApplied(m) => NewestApplied(m)'
      BY <2>1, <3>1 DEF NewestApplied, AppliedQuota
    <3>3. quota' = quota
      BY <1>1, <2>2
    <3> QED
      BY <1>3, <1>5, <1>6, <1>7, <2>1, <3>2, <3>3 DEF QuotaOK, QuotaOf
  <2>3. CASE ~NewerApplied(n)
    <3>1. quota' = Said(n)
      BY <1>1, <1>9, <2>3
    <3>2. ASSUME NEW m \in AppliedQuota PROVE m <= n
      <4>1. m \in Events /\ notice[m].kind = "quota" /\ notice[m].state = "applied"
        BY DEF AppliedQuota
      <4>2. ~(m > n)
        BY <2>3, <4>1 DEF NewerApplied
      <4>3. m \in Nat /\ n \in Nat
        BY <2>1, <4>1
      <4> QED
        BY <4>2, <4>3
    <3>3. NewestApplied(n)'
      <4>1. \A m \in AppliedQuota' : m <= n
        BY <2>1, <3>2
      <4> QED
        BY <2>1, <4>1 DEF NewestApplied
    <3>4. quota' # "absent"
      BY <3>1 DEF Said
    <3> QED
      BY <1>5, <1>6, <1>7, <3>1, <3>3, <3>4 DEF QuotaOK
  <2> QED
    BY <2>2, <2>3
<1>10. CASE ~(applies /\ notice[n].kind = "quota")
  <2>1. AppliedQuota' = AppliedQuota /\ quota' = quota
    BY <1>1, <1>8, <1>10
  <2>2. \A m \in Events : NewestApplied(m)' <=> NewestApplied(m)
    BY <2>1 DEF NewestApplied
  <2> QED
    BY <1>3, <1>5, <1>6, <1>7, <2>1, <2>2 DEF QuotaOK, QuotaOf
<1> QED
  BY <1>9, <1>10

LEMMA WebhookQuiet ==
  ASSUME TolunaIInv, QuietIInv, NEW n \in Events, Store(n) \/ Deliver(n)
  PROVE  QuietIInv'
<1>1. CASE Store(n)
  BY <1>1, StoreQuiet
<1>2. CASE Deliver(n)
  <2>1. n \in Received /\ Reconcile(n) /\ upstream' = upstream /\ Disturbed
    BY <1>2 DEF Deliver, Received
  <2> QED
    BY <2>1, ReconciledQuota, Disturbs DEF QuietIInv, TolunaIInv
<1> QED
  BY <1>1, <1>2

\* A quiet run begins when everything is processed and no refresh is at work.
LEMMA StartQuiet ==
  ASSUME TolunaIInv, QuietIInv, StartRun
  PROVE  QuietIInv'
<1> DEFINE quiet == AllProcessed /\ \A d \in Refreshers : refresh[d].pc = "idle"
<1>1. /\ run'.pc = "started" /\ run'.start = Received /\ run'.quiet = quiet
      /\ run.pc = "idle"
  BY DEF StartRun, TolunaIInv, TolunaTypeOK, Run
<1>2. UNCHANGED <<upstream, happened, notice, survey, quota, refresh, clean>>
  BY DEF StartRun
<1>3. NoticesOK' /\ QuotaOK'
  BY <1>2, QuotaStays DEF QuietIInv
<1>4. QuietOK'
  <2>1. Undisturbed' => AllProcessed'
    BY <1>1, <1>2 DEF QuietIInv, QuietOK, Undisturbed, AllProcessed
  <2>2. Received' \subseteq run'.start
    BY <1>1, <1>2 DEF Received
  <2>3. run'.quiet => \A d \in Refreshers : refresh'[d].pc = "idle"
    BY <1>1, <1>2
  <2> QED
    BY <1>1, <2>1, <2>2, <2>3 DEF QuietOK
<1>5. RepairedOK'
  <2>1. Repaired' => Repaired
    BY <1>1, <1>2 DEF Repaired
  <2>2. Received' = Received
    BY <1>2 DEF Received
  <2> QED
    BY <1>2, <2>1, <2>2 DEF QuietIInv, RepairedOK
<1> QED
  BY <1>3, <1>4, <1>5 DEF QuietIInv

LEMMA FetchQuiet ==
  ASSUME TolunaIInv, QuietIInv, Fetch
  PROVE  QuietIInv'
<1>1. /\ run'.pc = "fetched" /\ run'.start = run.start /\ run'.quiet = run.quiet
      /\ run'.snapshot = upstream /\ run.pc = "started"
  BY DEF Fetch, TolunaIInv, TolunaTypeOK, Run
<1>2. UNCHANGED <<upstream, happened, notice, survey, quota, refresh, clean>>
  BY DEF Fetch
<1>3. NoticesOK' /\ QuotaOK'
  BY <1>2, QuotaStays DEF QuietIInv
<1>4. Received' = Received /\ (AllProcessed => AllProcessed')
  BY <1>2 DEF Received, AllProcessed
<1>5. QuietOK'
  BY <1>1, <1>2, <1>4 DEF QuietIInv, QuietOK, Undisturbed
<1>6. RepairedOK'
  <2>1. Repaired' => Repaired
    BY <1>1, <1>2 DEF Repaired
  <2> QED
    BY <1>2, <1>4, <2>1 DEF QuietIInv, RepairedOK
<1> QED
  BY <1>3, <1>5, <1>6 DEF QuietIInv

\* Everything is processed: the newest notification of the quota says what Toluna
\* says.
LEMMA SaysNow ==
  ASSUME NoticesOK, AllProcessed, NEW m \in Events, NewestApplied(m)
  PROVE  Said(m) = QuotaOf(upstream.raw)
<1>1. \A n \in Events : notice[n].kind = "quota" => n \in AppliedQuota
  BY DEF NoticesOK, AllProcessed, AppliedQuota
<1>2. notice[m].live = upstream.raw.open
  BY <1>1 DEF NoticesOK, NewestApplied, AppliedQuota
<1> QED
  BY <1>2 DEF Said, QuotaOf

LEMMA MergeQuiet ==
  ASSUME TolunaIInv, QuietIInv, Merge
  PROVE  QuietIInv'
<1> DEFINE raw == run.snapshot.raw
<1>1. /\ run'.pc = "merged" /\ run'.start = run.start /\ run'.quiet = run.quiet
      /\ run'.snapshot = run.snapshot /\ run.pc = "fetched"
      /\ run.snapshot.listed \in BOOLEAN /\ raw \in Payload
  BY DEF Merge, TolunaIInv, TolunaTypeOK, Run, Snapshot
<1>2. UNCHANGED <<upstream, happened, notice, refresh, clean>> /\ survey \in SurveyRow
  BY DEF Merge, TolunaIInv, TolunaTypeOK
<1>3. Received' = Received /\ (AllProcessed => AllProcessed')
  BY <1>2 DEF Received, AllProcessed
<1>4. \/ run.snapshot.listed /\ Create(raw)
      \/ run.snapshot.listed /\ Update(raw)
      \/ run.snapshot.listed /\ Heartbeat(raw)
      \/ ~run.snapshot.listed /\ CloseMissing
  BY DEF Merge
<1> HIDE DEF raw
\* What a merge of a listed survey leaves.
<1>6. run.snapshot.listed =>
        /\ survey'.status = "live" /\ survey'.raw = raw /\ survey'.lastSeen = run.start
        /\ survey'.details => survey.details
        /\ survey'.details =>
             /\ quota' # "absent"
             /\ \/ quota' = QuotaOf(raw)
                \/ quota' = quota /\ survey.raw = raw
  <2> SUFFICES ASSUME run.snapshot.listed
               PROVE  /\ survey'.status = "live" /\ survey'.raw = raw
                      /\ survey'.lastSeen = run.start
                      /\ survey'.details => survey.details
                      /\ survey'.details =>
                           /\ quota' # "absent"
                           /\ \/ quota' = QuotaOf(raw)
                              \/ quota' = quota /\ survey.raw = raw
    OBVIOUS
  <2>1. CASE Create(raw)
    <3>1. ~survey.details
      BY <2>1 DEF Create, TolunaIInv, FormOK
    <3> QED
      BY <1>2, <2>1, <3>1 DEF Create, SurveyRow
  <2>2. CASE Update(raw)
    <3>1. /\ survey'.status = "live" /\ survey'.raw = raw /\ survey'.lastSeen = run.start
          /\ survey'.details = DetailsAfter(raw)
          /\ quota' = IF quota # "absent" /\ raw.contract = survey.raw.contract
                        THEN QuotaOf(raw) ELSE quota
      BY <1>2, <2>2 DEF Update, SurveyRow
    <3> QED
      BY <3>1 DEF DetailsAfter, QuotaOf
  <2>3. CASE Heartbeat(raw)
    BY <1>2, <2>3 DEF Heartbeat, Differs, SurveyRow, QuietIInv, QuotaOK
  <2> QED
    BY <1>4, <2>1, <2>2, <2>3
<1>7. ~run.snapshot.listed =>
        /\ survey'.status # "live" /\ survey'.details = survey.details
        /\ survey'.raw = survey.raw /\ quota' = quota
  BY <1>2, <1>4 DEF CloseMissing, SurveyRow
<1>8. NoticesOK'
  BY <1>2 DEF QuietIInv, NoticesOK
<1>9. quota = "absent" <=> quota' = "absent"
  BY <1>4 DEF Create, Update, Heartbeat, CloseMissing, QuotaOf
<1>10. QuotaOK'
  <2>1. AppliedQuota' = AppliedQuota /\ \A m \in Events : Said(m)' = Said(m)
    BY <1>2 DEF AppliedQuota, Said
  <2>2. AppliedQuota # {} => quota' # "absent"
    BY <1>9 DEF QuietIInv, QuotaOK
  <2>3. survey'.details =>
          /\ quota' # "absent"
          /\ \/ quota' = QuotaOf(survey'.raw)
             \/ \E m \in Events : NewestApplied(m) /\ quota' = Said(m)
    BY <1>6, <1>7 DEF QuietIInv, QuotaOK
  <2> QED
    BY <2>1, <2>2, <2>3 DEF QuotaOK, NewestApplied, QuotaOf
<1>11. QuietOK'
  BY <1>1, <1>2, <1>3 DEF QuietIInv, QuietOK, Undisturbed
<1>12. RepairedOK'
  <2> SUFFICES ASSUME Repaired'
               PROVE  /\ survey'.status = "live" <=> upstream.listed
                      /\ upstream.listed =>
                           /\ survey'.raw = upstream.raw
                           /\ Received \subseteq survey'.lastSeen
                           /\ survey'.details => quota' = QuotaOf(upstream.raw)
                           /\ \A d \in Refreshers :
                                /\ refresh[d].pc = "rebuilt" => Received \subseteq refresh[d].seen
                                /\ refresh[d].pc = "replaying" => refresh[d].replay = NoReplay
    BY <1>2, <1>3 DEF RepairedOK, QuotaOf
  <2>1. Undisturbed
    BY <1>1, <1>2 DEF Repaired, Undisturbed
  <2>2. /\ AllProcessed /\ run.snapshot = upstream /\ raw = upstream.raw
        /\ Received \subseteq run.start
    BY <1>1, <2>1 DEF QuietIInv, QuietOK, raw
  <2>3. survey'.status = "live" <=> upstream.listed
    BY <1>1, <1>6, <1>7, <2>2
  <2>4. upstream.listed /\ survey'.details => quota' = QuotaOf(upstream.raw)
    BY <1>6, <2>2, SaysNow DEF QuietIInv, QuotaOK
  <2>5. ASSUME upstream.listed, NEW d \in Refreshers
        PROVE  /\ refresh[d].pc = "rebuilt" => Received \subseteq refresh[d].seen
               /\ refresh[d].pc = "replaying" => refresh[d].replay = NoReplay
    <3>1. CASE clean
      BY <2>5, <3>1 DEF QuietIInv, RepairedOK, Repaired
    <3>2. CASE run.quiet
      BY <1>1, <3>2 DEF QuietIInv, QuietOK
    <3> QED
      BY <2>1, <3>1, <3>2 DEF Undisturbed
  <2> QED
    BY <1>6, <2>2, <2>3, <2>4, <2>5
<1> QED
  BY <1>8, <1>10, <1>11, <1>12 DEF QuietIInv

\* Nothing to replay: all received before, all processed.
LEMMA NothingListed ==
  ASSUME AllProcessed, NEW before, Received \subseteq before
  PROVE  ReplayFrom(before) = NoReplay
<1>1. Again(before) = {}
  BY DEF Again
<1>2. {n \in Events : notice[n].state = "stored"} = {}
  BY DEF AllProcessed
<1> QED
  BY <1>1, <1>2 DEF ReplayFrom, NoReplay

LEMMA ListQuiet ==
  ASSUME TolunaIInv, QuietIInv, ListReplay
  PROVE  QuietIInv'
<1> DEFINE replay == IF run.touched THEN ReplayFrom(run.start) ELSE NoReplay
<1>1. /\ run'.pc = "replaying" /\ run'.start = run.start /\ run'.quiet = run.quiet
      /\ run'.snapshot = run.snapshot /\ run.pc = "merged" /\ run'.replay = replay
  BY DEF ListReplay, TolunaIInv, TolunaTypeOK, Run
<1>2. UNCHANGED <<upstream, happened, notice, survey, quota, refresh, clean>>
  BY DEF ListReplay
<1>3. NoticesOK' /\ QuotaOK'
  BY <1>2, QuotaStays DEF QuietIInv
<1>4. Received' = Received /\ (AllProcessed => AllProcessed')
  BY <1>2 DEF Received, AllProcessed
<1>5. Undisturbed' => Undisturbed /\ replay = NoReplay
  BY <1>1, <1>2, NothingListed DEF QuietIInv, QuietOK, Undisturbed
<1>6. NoReplay' = NoReplay
  BY DEF NoReplay
<1> HIDE DEF replay
<1>7. QuietOK'
  <2>1. run'.quiet => \A d \in Refreshers : refresh'[d].pc = "idle"
    BY <1>1, <1>2 DEF QuietIInv, QuietOK
  <2> QED
    BY <1>1, <1>2, <1>4, <1>5, <1>6, <2>1 DEF QuietIInv, QuietOK
<1>8. RepairedOK'
  <2>1. Repaired' => Repaired
    BY <1>1, <1>2 DEF Repaired
  <2> QED
    BY <1>2, <1>4, <1>6, <2>1 DEF QuietIInv, RepairedOK
<1> QED
  BY <1>3, <1>7, <1>8 DEF QuietIInv

\* A replay that is under way replays something, so it is not of a quiet run.
LEMMA ReplayQuiet ==
  ASSUME TolunaIInv, QuietIInv, ReplayOne
  PROVE  QuietIInv'
<1>1. run \in Run /\ run.replay \in Replay /\ run.pc = "replaying"
  BY DEF TolunaIInv, TolunaTypeOK, Run, ReplayOne
<1>2. PICK n \in Upcoming(run.replay) :
        Reconcile(n) /\ run' = [run EXCEPT !.replay = Without(@, n)]
  BY DEF ReplayOne
<1>3. n \in run.replay.again \cup run.replay.pending /\ n \in Events
  BY <1>1, <1>2, Upcomes
<1>4. n \in Received
  BY <1>3 DEF TolunaIInv, ReplayOK
<1>5. /\ run'.pc = run.pc /\ run'.quiet = run.quiet
      /\ UNCHANGED <<upstream, refresh, clean>>
  BY <1>1, <1>2 DEF Run, ReplayOne
<1>6. ~Undisturbed
  BY <1>1, <1>3 DEF QuietIInv, QuietOK, NoReplay
<1>7. ~Undisturbed' /\ ~Repaired' /\ ~(run'.quiet /\ run'.pc # "idle")
  BY <1>1, <1>5, <1>6 DEF Undisturbed, Repaired
<1>8. QuietOK' /\ RepairedOK'
  BY <1>7 DEF QuietOK, RepairedOK
<1> QED
  BY <1>2, <1>3, <1>4, <1>5, <1>8, ReconciledQuota DEF QuietIInv

LEMMA EndQuiet ==
  ASSUME TolunaIInv, QuietIInv, FinishRun \/ FailRun
  PROVE  QuietIInv'
<1>1. run'.pc = "idle" /\ UNCHANGED <<upstream, happened, notice, survey, quota, refresh>>
  BY DEF FinishRun, FailRun, TolunaIInv, TolunaTypeOK, Run
<1>2. NoticesOK' /\ QuotaOK'
  BY <1>1, QuotaStays DEF QuietIInv
<1>3. Received' = Received /\ (AllProcessed => AllProcessed') /\ NoReplay' = NoReplay
  BY <1>1 DEF Received, AllProcessed, NoReplay
<1>4. clean' => Undisturbed /\ Repaired
  BY DEF FinishRun, FailRun, Undisturbed, Repaired
<1>5. QuietOK'
  BY <1>1, <1>3, <1>4 DEF QuietIInv, QuietOK, Undisturbed
<1>6. RepairedOK'
  BY <1>1, <1>3, <1>4 DEF QuietIInv, RepairedOK, Repaired
<1> QED
  BY <1>2, <1>5, <1>6 DEF QuietIInv

-----------------------------------------------------------------------------
(* The detail refreshes *)

LEMMA RebuildQuiet ==
  ASSUME TolunaIInv, QuietIInv, NEW d \in Refreshers, Rebuild(d)
  PROVE  QuietIInv'
<1>1. /\ run'.quiet = FALSE /\ run'.pc = run.pc /\ run'.start = run.start
      /\ run'.replay = run.replay /\ run'.snapshot = run.snapshot
  BY DEF Rebuild, TolunaIInv, TolunaTypeOK, Run
<1>2. UNCHANGED <<upstream, happened, notice, clean>> /\ quota' = QuotaOf(survey.raw)
  BY DEF Rebuild
<1>3. /\ survey'.status = survey.status /\ survey'.raw = survey.raw
      /\ survey'.lastSeen = survey.lastSeen
  BY DEF Rebuild, TolunaIInv, TolunaTypeOK, SurveyRow
<1>4. /\ refresh'[d].pc = "rebuilt" /\ refresh'[d].seen = survey.lastSeen
      /\ \A u \in Refreshers : u # d => refresh'[u] = refresh[u]
  BY DEF Rebuild, TolunaIInv, TolunaTypeOK, Refresh
<1>5. Received' = Received /\ (AllProcessed => AllProcessed') /\ NoReplay' = NoReplay
  BY <1>2 DEF Received, AllProcessed, NoReplay
<1>6. NoticesOK'
  BY <1>2 DEF QuietIInv, NoticesOK
<1>7. QuotaOK'
  BY <1>2, <1>3 DEF QuotaOK, QuotaOf
<1>8. clean' => Undisturbed /\ Repaired
  BY <1>2 DEF Undisturbed, Repaired
<1>9. QuietOK'
  BY <1>1, <1>2, <1>5, <1>8 DEF QuietIInv, QuietOK, Undisturbed
<1>10. RepairedOK'
  <2> SUFFICES ASSUME clean'
               PROVE  /\ survey'.status = "live" <=> upstream.listed
                      /\ upstream.listed =>
                           /\ survey'.raw = upstream.raw
                           /\ Received \subseteq survey'.lastSeen
                           /\ quota' = QuotaOf(upstream.raw)
                           /\ \A u \in Refreshers :
                                /\ refresh'[u].pc = "rebuilt" => Received \subseteq refresh'[u].seen
                                /\ refresh'[u].pc = "replaying" => refresh'[u].replay = NoReplay
    BY <1>1, <1>2, <1>5 DEF RepairedOK, Repaired, QuotaOf
  <2> QED
    BY <1>2, <1>3, <1>4, <1>8 DEF QuietIInv, RepairedOK
<1> QED
  BY <1>6, <1>7, <1>9, <1>10 DEF QuietIInv

\* A refresh is at work, so no run in flight is quiet.
LEMMA DetailsQuiet ==
  ASSUME TolunaIInv, QuietIInv, NEW d \in Refreshers, Details(d)
  PROVE  QuietIInv'
<1>1. CASE Rebuild(d)
  BY <1>1, RebuildQuiet
<1>2. refresh \in [Refreshers -> Refresh] /\ refresh[d].replay \in Replay
  BY DEF TolunaIInv, TolunaTypeOK, Refresh
<1>3. CASE ListReplayAfter(d)
  <2> DEFINE r == ReplayFrom(refresh[d].seen)
  <2>1. /\ refresh[d].pc = "rebuilt" /\ refresh'[d].pc = "replaying" /\ refresh'[d].replay = r
        /\ \A u \in Refreshers : u # d => refresh'[u] = refresh[u]
        /\ UNCHANGED <<upstream, happened, notice, survey, quota, run, clean>>
    BY <1>2, <1>3 DEF ListReplayAfter, Refresh
  <2>2. Received' = Received /\ (AllProcessed => AllProcessed') /\ NoReplay' = NoReplay
    BY <2>1 DEF Received, AllProcessed, NoReplay
  <2>3. ~(run.quiet /\ run.pc # "idle")
    BY <2>1 DEF QuietIInv, QuietOK
  <2>4. NoticesOK' /\ QuotaOK'
    BY <2>1, QuotaStays DEF QuietIInv
  <2>5. QuietOK'
    BY <2>1, <2>2, <2>3 DEF QuietIInv, QuietOK, Undisturbed
  <2>6. Repaired' => clean /\ Repaired /\ Undisturbed
    BY <2>1, <2>3 DEF Repaired, Undisturbed
  <2>7. Repaired' /\ upstream.listed => r = NoReplay
    BY <2>1, <2>6, NothingListed DEF QuietIInv, QuietOK, RepairedOK
  <2> HIDE DEF r
  <2>8. RepairedOK'
    BY <2>1, <2>2, <2>6, <2>7 DEF QuietIInv, RepairedOK
  <2> QED
    BY <2>4, <2>5, <2>8 DEF QuietIInv
<1>4. CASE ReplayOneAfter(d)
  <2>1. PICK n \in Upcoming(refresh[d].replay) :
          Reconcile(n) /\ refresh' = [refresh EXCEPT ![d].replay = Without(@, n)]
    BY <1>4 DEF ReplayOneAfter
  <2>2. n \in refresh[d].replay.again \cup refresh[d].replay.pending /\ n \in Events
    BY <1>2, <2>1, Upcomes
  <2>3. n \in Received
    BY <2>2 DEF TolunaIInv, ReplayOK
  <2>4. UNCHANGED <<upstream, run, clean>> /\ refresh[d].pc = "replaying"
    BY <1>4 DEF ReplayOneAfter
  <2>5. /\ NoticesOK' /\ QuotaOK'
        /\ notice[n].state = "applied" => notice' = notice
    BY <2>1, <2>2, <2>3, <2>4, ReconciledQuota DEF QuietIInv
  <2>6. ~(run.quiet /\ run.pc # "idle")
    BY <2>4 DEF QuietIInv, QuietOK
  <2>7. Undisturbed' => Undisturbed
    BY <2>4 DEF Undisturbed
  <2>8. Undisturbed' => notice' = notice
    BY <2>3, <2>5, <2>7 DEF QuietIInv, QuietOK, AllProcessed, Received
  <2>9. QuietOK'
    BY <2>4, <2>6, <2>7, <2>8 DEF QuietIInv, QuietOK, AllProcessed, Received, NoReplay
  <2>10. RepairedOK'
    <3> SUFFICES ASSUME Repaired'
                 PROVE  ~upstream.listed /\ survey'.status # "live"
      BY <2>4 DEF RepairedOK
    <3>1. Repaired
      BY <2>4 DEF Repaired
    <3>2. ~upstream.listed
      BY <2>2, <2>4, <3>1 DEF QuietIInv, RepairedOK, NoReplay
    <3>3. survey.status # "live"
      BY <3>1, <3>2 DEF QuietIInv, RepairedOK
    <3> QED
      BY <2>1, <2>2, <2>3, <3>2, <3>3, Reconciled
  <2> QED
    BY <2>5, <2>9, <2>10 DEF QuietIInv
<1>5. CASE FinishRefresh(d) \/ FailRefresh(d)
  <2>1. /\ refresh'[d].pc = "idle" /\ \A u \in Refreshers : u # d => refresh'[u] = refresh[u]
        /\ UNCHANGED <<upstream, happened, notice, survey, quota, run, clean>>
    BY <1>2, <1>5 DEF FinishRefresh, FailRefresh, IdleRefresh
  <2>2. Received' = Received /\ (AllProcessed => AllProcessed') /\ NoReplay' = NoReplay
    BY <2>1 DEF Received, AllProcessed, NoReplay
  <2>3. NoticesOK' /\ QuotaOK'
    BY <2>1, QuotaStays DEF QuietIInv
  <2>4. QuietOK'
    BY <2>1, <2>2 DEF QuietIInv, QuietOK, Undisturbed
  <2>5. Repaired' => Repaired
    BY <2>1 DEF Repaired
  <2>6. RepairedOK'
    BY <2>1, <2>2, <2>5 DEF QuietIInv, RepairedOK
  <2> QED
    BY <2>3, <2>4, <2>6 DEF QuietIInv
<1> QED
  BY <1>1, <1>3, <1>4, <1>5 DEF Details

LEMMA QuietStep == TolunaIInv /\ QuietIInv /\ [TolunaNext]_tolunaVars => QuietIInv'
<1> SUFFICES ASSUME TolunaIInv, QuietIInv, [TolunaNext]_tolunaVars PROVE QuietIInv'
  OBVIOUS
<1>1. CASE Provider
  BY <1>1, ProviderQuiet
<1>2. CASE Webhook
  BY <1>2, WebhookQuiet DEF Webhook
<1>3. CASE Sync
  BY <1>3, StartQuiet, FetchQuiet, MergeQuiet, ListQuiet, ReplayQuiet, EndQuiet DEF Sync
<1>4. CASE \E d \in Refreshers : Details(d)
  BY <1>4, DetailsQuiet
<1>5. CASE UNCHANGED tolunaVars
  <2>1. UNCHANGED <<upstream, happened, notice, survey, quota, run, refresh, clean>>
    BY <1>5 DEF tolunaVars
  <2>2. NoticesOK' /\ QuotaOK'
    BY <2>1, QuotaStays DEF QuietIInv
  <2>3. QuietOK'
    BY <2>1 DEF QuietIInv, QuietOK, Undisturbed, AllProcessed, Received, NoReplay
  <2>4. RepairedOK'
    BY <2>1 DEF QuietIInv, RepairedOK, Repaired, Received, QuotaOf, NoReplay
  <2> QED
    BY <2>2, <2>3, <2>4 DEF QuietIInv
<1> QED
  BY <1>1, <1>2, <1>3, <1>4, <1>5 DEF TolunaNext

LEMMA QuietKept == QuietIInv => QuietAgrees
<1> QED
  BY DEF QuietIInv, RepairedOK, Repaired, QuietAgrees

(****************************************************************************)
(* After a run to which nothing happened the rows are as Toluna has them,   *)
(* whatever notifications came late, twice or out of order before it, and   *)
(* later runs and refreshes keep it so.                                     *)
(****************************************************************************)
THEOREM QuietCorrect == TolunaSpec => []QuietAgrees
<1>1. TolunaInit => TolunaIInv /\ QuietIInv
  BY TolunaBegins, QuietBegins
<1>2. (TolunaIInv /\ QuietIInv) /\ [TolunaNext]_tolunaVars => (TolunaIInv /\ QuietIInv)'
  BY TolunaStep, QuietStep
<1> QED
  BY <1>1, <1>2, QuietKept, PTL DEF TolunaSpec

-----------------------------------------------------------------------------
(****************************************************************************)
(* TolunaMembers.  What Toluna has of a member comes from the request it    *)
(* has answered; if there is none, from the one whose row is uncommitted;   *)
(* if there is none, from the committed row.                                *)
(****************************************************************************)
SubmissionRow ==
  [pc : Open \cup {"form", "sent", "rejected"}, answered : SUBSET Questions,
   payload : SUBSET Questions, method : {"POST", "PUT"}, failed : BOOLEAN,
   found : MemberRow]

\* Toluna has accepted what a request has registered, and what a row says of it.
AcceptedOK ==
  /\ \A e \in Submissions :
       submission[e].pc = "answered"
         \/ (submission[e].pc \in {"unlocking", "unlinking", "invite"} /\ ~submission[e].failed)
       => submission[e].payload \in accepted[MemberOf[e]]
  /\ \A m \in Members : member[m].registered => member[m].hash \in accepted[m]
  /\ \A e \in Submissions :
       written[e].registered => written[e].known /\ written[e].hash \in accepted[MemberOf[e]]

\* The row lock: one open transaction has written a member's row.
WrittenOK ==
  /\ \A e \in Submissions :
       written[e].known => submission[e].pc \notin {"submitted", "locking", "loading"}
  /\ \A e, f \in Submissions :
       written[e].known /\ written[f].known /\ MemberOf[e] = MemberOf[f] => e = f

\* Whoever is at work on a member whose lock was not outlived holds it.
LockOK ==
  \A e \in Submissions :
    submission[e].pc \in Locked /\ MemberOf[e] \notin outlived
      => memberLock[MemberOf[e]] = e

Answered(e, m) == MemberOf[e] = m /\ submission[e].pc = "answered"
Registering(e, m) == MemberOf[e] = m /\ written[e].registered

\* What Toluna has comes from the request it has answered; if there is none, from the
\* one whose row is not committed; if there is none, from the committed row.
SentFor(m) ==
  /\ \A e \in Submissions : Answered(e, m) => profile[m].sent = submission[e].payload
  /\ (\A f \in Submissions : ~Answered(f, m)) =>
       /\ \A e \in Submissions : Registering(e, m) => profile[m].sent = written[e].hash
       /\ (\A f \in Submissions : ~Registering(f, m)) =>
            (member[m].registered => profile[m].sent = member[m].hash)

SentOK == \A m \in Members \ (doubtful \cup outlived) : SentFor(m)

MemberIInv == MemberTypeOK /\ AcceptedOK /\ WrittenOK /\ LockOK /\ SentOK

-----------------------------------------------------------------------------

LEMMA NewRow ==
  /\ NoMember \in MemberRow /\ ~NoMember.known /\ ~NoMember.registered
  /\ NewSubmission \in SubmissionRow /\ NewSubmission.pc = "form"
  /\ \A pc \in {"form", "sent", "rejected"} : EndedAs(pc) \in SubmissionRow /\ EndedAs(pc).pc = pc
<1>1. NoMember \in MemberRow /\ ~NoMember.known /\ ~NoMember.registered
  BY DEF NoMember, MemberRow
<1>2. NewSubmission \in SubmissionRow /\ NewSubmission.pc = "form"
  BY <1>1 DEF NewSubmission, SubmissionRow
<1> QED
  BY <1>1, <1>2 DEF EndedAs, SubmissionRow

LEMMA MembersBegin == MemberInit => MemberIInv
<1> SUFFICES ASSUME MemberInit PROVE MemberIInv
  OBVIOUS
<1> USE DEF MemberInit
<1>1. \A e \in Submissions : submission[e] = NewSubmission /\ written[e] = NoMember
  OBVIOUS
<1>2. \A m \in Members : member[m] = NoMember
  OBVIOUS
<1>3. MemberTypeOK
  BY <1>1, NewRow, MemberAssumption DEF MemberTypeOK, SubmissionRow
<1>4. AcceptedOK
  BY <1>1, <1>2, NewRow DEF AcceptedOK
<1>5. WrittenOK /\ LockOK
  BY <1>1, NewRow DEF WrittenOK, LockOK, Locked
<1>6. SentOK
  BY <1>1, <1>2, NewRow DEF SentOK, SentFor, Answered, Registering
<1> QED
  BY <1>3, <1>4, <1>5, <1>6 DEF MemberIInv

-----------------------------------------------------------------------------
(* The steps *)

\* A request's step that writes no row, takes no lock and is not answered.
LEMMA SubmissionMoves ==
  ASSUME MemberIInv, NEW e \in Submissions, NEW x \in SubmissionRow,
         submission' = [submission EXCEPT ![e] = x],
         forms' \in [Submissions -> SUBSET Questions],
         formChanges' \in 0 .. MaxFormChanges,
         memberFaults' \in 0 .. MaxMemberFaults,
         doubtful \subseteq doubtful', doubtful' \subseteq Members,
         UNCHANGED <<member, written, memberLock, profile, accepted, outlived>>,
         x.pc # "answered",
         submission[e].pc = "answered" => MemberOf[e] \in doubtful',
         x.pc \in Locked => submission[e].pc \in Locked,
         x.pc \in {"unlocking", "unlinking", "invite"} /\ ~x.failed
           => x.payload \in accepted[MemberOf[e]],
         written[e].known => x.pc \in Open \ {"submitted", "locking", "loading"}
  PROVE  MemberIInv'
<1>1. /\ submission' \in [Submissions -> SubmissionRow] /\ submission'[e] = x
      /\ \A f \in Submissions : f # e => submission'[f] = submission[f]
  BY DEF MemberIInv, MemberTypeOK, SubmissionRow
<1>2. MemberTypeOK'
  BY <1>1 DEF MemberIInv, MemberTypeOK, SubmissionRow
<1>3. AcceptedOK'
  BY <1>1 DEF MemberIInv, AcceptedOK
<1>4. WrittenOK'
  BY <1>1 DEF MemberIInv, WrittenOK
<1>5. LockOK'
  BY <1>1 DEF MemberIInv, LockOK
<1>6. SentOK'
  <2> SUFFICES ASSUME NEW m \in Members \ (doubtful' \cup outlived')
               PROVE  SentFor(m)'
    BY DEF SentOK
  <2>1. m \in Members \ (doubtful \cup outlived)
    OBVIOUS
  <2>2. \A f \in Submissions : Answered(f, m)' <=> Answered(f, m)
    BY <1>1 DEF Answered
  <2>3. \A f \in Submissions : Registering(f, m)' <=> Registering(f, m)
    BY DEF Registering
  <2>4. \A f \in Submissions : Answered(f, m)' => submission'[f] = submission[f]
    BY <1>1 DEF Answered
  <2> QED
    BY <2>1, <2>2, <2>3, <2>4 DEF MemberIInv, SentOK, SentFor
<1> QED
  BY <1>2, <1>3, <1>4, <1>5, <1>6 DEF MemberIInv

\* The row of a request whose transaction is taken back.
LEMMA SubmissionDrops ==
  ASSUME MemberIInv, NEW e \in Submissions, NEW x \in SubmissionRow,
         submission' = [submission EXCEPT ![e] = x],
         written' = [written EXCEPT ![e] = NoMember],
         x.pc \notin Open,
         memberFaults' \in 0 .. MaxMemberFaults,
         doubtful \subseteq doubtful', doubtful' \subseteq Members,
         written[e].registered \/ submission[e].pc = "answered" => MemberOf[e] \in doubtful',
         UNCHANGED <<forms, formChanges, member, memberLock, profile, accepted, outlived>>
  PROVE  MemberIInv'
<1>1. /\ submission' \in [Submissions -> SubmissionRow] /\ submission'[e] = x
      /\ \A f \in Submissions : f # e => submission'[f] = submission[f]
  BY DEF MemberIInv, MemberTypeOK, SubmissionRow
<1>2. /\ written' \in [Submissions -> MemberRow] /\ written'[e] = NoMember
      /\ \A f \in Submissions : f # e => written'[f] = written[f]
  BY NewRow DEF MemberIInv, MemberTypeOK
<1>3. MemberTypeOK'
  BY <1>1, <1>2, NewRow DEF MemberIInv, MemberTypeOK, SubmissionRow
<1>4. AcceptedOK'
  BY <1>1, <1>2, NewRow DEF MemberIInv, AcceptedOK, Open, Locked
<1>5. WrittenOK'
  BY <1>1, <1>2, NewRow DEF MemberIInv, WrittenOK
<1>6. LockOK'
  BY <1>1 DEF MemberIInv, LockOK, Open
<1>7. SentOK'
  <2> SUFFICES ASSUME NEW m \in Members \ (doubtful' \cup outlived')
               PROVE  SentFor(m)'
    BY DEF SentOK
  <2>1. m \in Members \ (doubtful \cup outlived) /\ SentFor(m)
    BY DEF MemberIInv, SentOK
  <2>2. \A f \in Submissions : Answered(f, m)' <=> Answered(f, m)
    BY <1>1 DEF Answered, Open, Locked
  <2>3. \A f \in Submissions : Registering(f, m)' <=> Registering(f, m)
    BY <1>2, NewRow DEF Registering
  <2>4. \A f \in Submissions : /\ Answered(f, m)' => submission'[f] = submission[f]
                               /\ Registering(f, m)' => written'[f] = written[f]
    BY <1>1, <1>2, NewRow DEF Answered, Registering, Open, Locked
  <2> QED
    BY <2>1, <2>2, <2>3, <2>4 DEF SentFor
<1> QED
  BY <1>3, <1>4, <1>5, <1>6, <1>7 DEF MemberIInv

\* What a request may do to its own row.
LEMMA SubmissionTyped ==
  ASSUME MemberIInv, NEW e \in Submissions
  PROVE  /\ submission[e] \in SubmissionRow
         /\ memberFaults \in 0 .. MaxMemberFaults /\ formChanges \in 0 .. MaxFormChanges
         /\ memberFaults < MaxMemberFaults => memberFaults + 1 \in 0 .. MaxMemberFaults
         /\ forms \in [Submissions -> SUBSET Questions]
         /\ doubtful \subseteq Members /\ MemberOf[e] \in Members
         /\ written[e].known =>
              submission[e].pc \in Open \ {"submitted", "locking", "loading"}
<1>1. submission[e] \in SubmissionRow
  BY DEF MemberIInv, MemberTypeOK, SubmissionRow
<1>2. memberFaults < MaxMemberFaults => memberFaults + 1 \in 0 .. MaxMemberFaults
  BY MemberAssumption DEF MemberIInv, MemberTypeOK
<1> QED
  BY <1>1, <1>2, MemberAssumption DEF MemberIInv, MemberTypeOK, WrittenOK

\* A request's row with another step.
LEMMA SubmissionGoes ==
  ASSUME NEW r \in SubmissionRow, NEW pc \in Open \cup {"form", "sent", "rejected"}
  PROVE  /\ [r EXCEPT !.pc = pc] \in SubmissionRow
         /\ [r EXCEPT !.pc = pc].pc = pc
         /\ [r EXCEPT !.pc = pc].payload = r.payload
         /\ [r EXCEPT !.pc = pc].failed = r.failed
  BY DEF SubmissionRow

LEMMA SubmissionQuiet ==
  ASSUME MemberIInv, NEW e \in Submissions
  PROVE  /\ \A f \in SUBSET Questions : FormChanges(e, f) => MemberIInv'
         /\ \A as \in SUBSET Questions : SubmitForm(e, as) => MemberIInv'
         /\ TurnAway(e) => MemberIInv'
         /\ BuildPayload(e) => MemberIInv'
         /\ MemberLockBusy(e) => MemberIInv'
         /\ StartMemberCall(e) => MemberIInv'
         /\ RetryAsPut(e) => MemberIInv'
         /\ MemberCallFails(e) => MemberIInv'
         /\ CheckMemberLock(e) => MemberIInv'
<1> DEFINE r == submission[e]
<1>0. r \in SubmissionRow
  BY SubmissionTyped
<1>1. ASSUME NEW f \in SUBSET Questions, FormChanges(e, f) PROVE MemberIInv'
  <2>1. submission' = [submission EXCEPT ![e] = r]
    BY <1>1 DEF FormChanges, MemberIInv, MemberTypeOK
  <2>2. forms' \in [Submissions -> SUBSET Questions] /\ formChanges' \in 0 .. MaxFormChanges
    BY <1>1, MemberAssumption DEF FormChanges, MemberIInv, MemberTypeOK
  <2>3. r.pc = "submitted"
    BY <1>1 DEF FormChanges
  <2> HIDE DEF r
  <2> QED
    BY <1>0, <1>1, <2>1, <2>2, <2>3, SubmissionTyped, SubmissionMoves DEF FormChanges, Locked, r
<1>2. ASSUME NEW as \in SUBSET Questions, SubmitForm(e, as) PROVE MemberIInv'
  <2> DEFINE x == [NewSubmission EXCEPT !.pc = "submitted", !.answered = as]
  <2>1. x \in SubmissionRow /\ x.pc = "submitted"
    BY NewRow DEF SubmissionRow, Open
  <2>2. submission' = [submission EXCEPT ![e] = x]
    BY <1>2 DEF SubmitForm
  <2>3. ~written[e].known
    BY <1>2, SubmissionTyped DEF SubmitForm, Open, Locked
  <2> HIDE DEF x
  <2> QED
    BY <1>2, <2>1, <2>2, <2>3, SubmissionTyped, SubmissionMoves DEF SubmitForm, Locked
<1>3. ASSUME TurnAway(e) PROVE MemberIInv'
  <2>1. r.pc = "submitted" /\ ~written[e].known
    BY <1>3, SubmissionTyped DEF TurnAway
  <2> QED
    BY <1>3, <2>1, NewRow, SubmissionTyped, SubmissionMoves DEF TurnAway, Locked
<1>4. ASSUME BuildPayload(e) PROVE MemberIInv'
  <2> DEFINE x == [submission[e] EXCEPT !.pc = "locking", !.answered = {},
                     !.payload = MemberPayload(e, forms[e])]
  <2>1. MemberPayload(e, forms[e]) \in SUBSET Questions
    BY SubmissionTyped DEF MemberPayload
  <2>2. x \in SubmissionRow /\ x.pc = "locking"
    BY <1>0, <2>1 DEF SubmissionRow, Open
  <2>3. r.pc = "submitted" /\ ~written[e].known
    BY <1>4, SubmissionTyped DEF BuildPayload
  <2>4. submission' = [submission EXCEPT ![e] = NewSubmission]
          \/ submission' = [submission EXCEPT ![e] = x]
    BY <1>4 DEF BuildPayload
  <2> HIDE DEF x
  <2> QED
    BY <1>4, <2>2, <2>3, <2>4, NewRow, SubmissionTyped, SubmissionMoves DEF BuildPayload, Locked
<1>5. ASSUME MemberLockBusy(e) PROVE MemberIInv'
  <2>1. r.pc = "locking" /\ ~written[e].known
    BY <1>5, SubmissionTyped DEF MemberLockBusy
  <2> QED
    BY <1>5, <2>1, NewRow, SubmissionTyped, SubmissionMoves DEF MemberLockBusy, Locked
<1>6. ASSUME StartMemberCall(e) PROVE MemberIInv'
  <2> DEFINE x == [r EXCEPT !.pc = "called"]
  <2>1. x \in SubmissionRow /\ x.pc = "called"
    BY <1>0, SubmissionGoes DEF Open, Locked
  <2>2. submission' = [submission EXCEPT ![e] = x] /\ r.pc = "calling"
    BY <1>6 DEF StartMemberCall
  <2> HIDE DEF x
  <2> QED
    BY <1>6, <2>1, <2>2, SubmissionTyped, SubmissionMoves DEF StartMemberCall, Open, Locked
<1>7. ASSUME RetryAsPut(e) PROVE MemberIInv'
  <2> DEFINE x == [submission[e] EXCEPT !.pc = "calling", !.method = "PUT"]
  <2>1. x \in SubmissionRow /\ x.pc = "calling"
    BY <1>0 DEF SubmissionRow, Open, Locked
  <2>2. submission' = [submission EXCEPT ![e] = x] /\ r.pc = "conflict"
    BY <1>7 DEF RetryAsPut
  <2> HIDE DEF x
  <2> QED
    BY <1>7, <2>1, <2>2, SubmissionTyped, SubmissionMoves DEF RetryAsPut, Open, Locked
<1>8. ASSUME MemberCallFails(e) PROVE MemberIInv'
  <2> DEFINE x == [submission[e] EXCEPT !.pc = "unlocking", !.failed = TRUE]
  <2>1. x \in SubmissionRow /\ x.pc = "unlocking" /\ x.failed
    BY <1>0 DEF SubmissionRow, Open, Locked
  <2>2. submission' = [submission EXCEPT ![e] = x] /\ r.pc \in {"called", "answered"}
    BY <1>8 DEF MemberCallFails
  <2>3. /\ doubtful \subseteq doubtful' /\ doubtful' \subseteq Members
        /\ r.pc = "answered" => MemberOf[e] \in doubtful'
        /\ memberFaults' \in 0 .. MaxMemberFaults
    BY <1>8, SubmissionTyped DEF MemberCallFails, MemberFault
  <2> HIDE DEF x
  <2> QED
    BY <1>8, <2>1, <2>2, <2>3, SubmissionTyped, SubmissionMoves DEF MemberCallFails, Open, Locked
<1>9. ASSUME CheckMemberLock(e) PROVE MemberIInv'
  <2>1. PICK pc \in {"unlinking", "invite"} :
          submission' = [submission EXCEPT ![e] = [r EXCEPT !.pc = pc]]
    BY <1>9 DEF CheckMemberLock
  <2> DEFINE x == [r EXCEPT !.pc = pc]
  <2>2. x \in SubmissionRow /\ x.pc = pc /\ x.payload = r.payload /\ x.failed = r.failed
    BY <1>0, SubmissionGoes DEF Open, Locked
  <2>3. r.pc = "unlocking"
    BY <1>9 DEF CheckMemberLock
  <2>4. ~r.failed => r.payload \in accepted[MemberOf[e]]
    BY <2>3 DEF MemberIInv, AcceptedOK
  <2>5. submission' = [submission EXCEPT ![e] = x]
    BY <2>1
  <2> HIDE DEF x
  <2> QED
    BY <1>9, <2>2, <2>3, <2>4, <2>5, SubmissionTyped, SubmissionMoves DEF CheckMemberLock, Open, Locked
<1> QED
  BY <1>1, <1>2, <1>3, <1>4, <1>5, <1>6, <1>7, <1>8, <1>9

LEMMA SubmissionEnds ==
  ASSUME MemberIInv, NEW e \in Submissions
  PROVE  /\ \A pc \in {"form", "rejected"} : EndWithoutInvite(e, pc) => MemberIInv'
         /\ RequestKilled(e) => MemberIInv'
<1>1. ASSUME NEW pc \in {"form", "rejected"}, EndWithoutInvite(e, pc) PROVE MemberIInv'
  <2>1. EndedAs(pc) \in SubmissionRow /\ EndedAs(pc).pc \notin Open
    BY NewRow DEF Open, Locked
  <2>2. /\ doubtful \subseteq doubtful' /\ doubtful' \subseteq Members
        /\ written[e].registered => MemberOf[e] \in doubtful'
        /\ submission[e].pc = "invite"
    BY <1>1, SubmissionTyped DEF EndWithoutInvite
  <2> QED
    BY <1>1, <2>1, <2>2, SubmissionTyped, SubmissionDrops DEF EndWithoutInvite, RolledBack
<1>2. ASSUME RequestKilled(e) PROVE MemberIInv'
  <2>1. NewSubmission \in SubmissionRow /\ NewSubmission.pc \notin Open
    BY NewRow DEF Open, Locked
  <2>2. /\ doubtful \subseteq doubtful' /\ doubtful' \subseteq Members
        /\ written[e].registered \/ submission[e].pc = "answered" => MemberOf[e] \in doubtful'
        /\ memberFaults' \in 0 .. MaxMemberFaults
    BY <1>2, SubmissionTyped DEF RequestKilled, MemberFault
  <2> QED
    BY <1>2, <2>1, <2>2, SubmissionTyped, SubmissionDrops DEF RequestKilled, RolledBack
<1> QED
  BY <1>1, <1>2

\* A request's own step: the rows of the others stay.
LEMMA SubmissionOwns ==
  ASSUME MemberIInv, NEW e \in Submissions, NEW x \in SubmissionRow,
         submission' = [submission EXCEPT ![e] = x]
  PROVE  /\ submission' \in [Submissions -> SubmissionRow] /\ submission'[e] = x
         /\ \A f \in Submissions : f # e => submission'[f] = submission[f]
  BY DEF MemberIInv, MemberTypeOK, SubmissionRow

LEMMA SubmissionTakes ==
  ASSUME MemberIInv, NEW e \in Submissions, TakeMemberLock(e)
  PROVE  MemberIInv'
<1> DEFINE x == [submission[e] EXCEPT !.pc = "loading"]
<1>1. x \in SubmissionRow /\ x.pc = "loading"
  BY SubmissionTyped, SubmissionGoes DEF Open, Locked
<1>2. /\ submission' = [submission EXCEPT ![e] = x] /\ submission[e].pc = "locking"
      /\ memberLock[MemberOf[e]] = NotAnyone
      /\ memberLock' = [memberLock EXCEPT ![MemberOf[e]] = e]
      /\ UNCHANGED <<forms, member, written, profile, accepted, doubtful, outlived,
                     formChanges, memberFaults>>
  BY DEF TakeMemberLock, MemberLockFree
<1> HIDE DEF x
<1>3. /\ submission' \in [Submissions -> SubmissionRow] /\ submission'[e] = x
      /\ \A f \in Submissions : f # e => submission'[f] = submission[f]
  BY <1>1, <1>2, SubmissionOwns
<1>4. ~written[e].known
  BY <1>2 DEF MemberIInv, WrittenOK
<1>5. /\ memberLock' \in [Members -> Submissions \cup {NotAnyone}]
      /\ memberLock'[MemberOf[e]] = e
      /\ \A m \in Members : m # MemberOf[e] => memberLock'[m] = memberLock[m]
  BY <1>2, MemberAssumption DEF MemberIInv, MemberTypeOK
<1>6. MemberTypeOK'
  BY <1>2, <1>3, <1>4, <1>5 DEF MemberIInv, MemberTypeOK, SubmissionRow
<1>7. AcceptedOK'
  BY <1>1, <1>2, <1>3 DEF MemberIInv, AcceptedOK
<1>8. WrittenOK'
  BY <1>2, <1>3, <1>4 DEF MemberIInv, WrittenOK
<1>9. LockOK'
  <2> SUFFICES ASSUME NEW f \in Submissions, submission'[f].pc \in Locked,
                      MemberOf[f] \notin outlived'
               PROVE  memberLock'[MemberOf[f]] = f
    BY DEF LockOK
  <2>1. CASE f = e
    BY <1>5, <2>1
  <2>2. CASE f # e
    <3>1. memberLock[MemberOf[f]] = f
      BY <1>2, <1>3, <2>2 DEF MemberIInv, LockOK
    <3>2. MemberOf[f] # MemberOf[e]
      BY <1>2, <3>1, MemberAssumption
    <3> QED
      BY <1>5, <3>1, <3>2, MemberAssumption
  <2> QED
    BY <2>1, <2>2
<1>10. SentOK'
  <2>1. \A f \in Submissions, m \in Members :
          /\ Answered(f, m)' <=> Answered(f, m)
          /\ Answered(f, m)' => submission'[f] = submission[f]
          /\ Registering(f, m)' <=> Registering(f, m)
    BY <1>1, <1>2, <1>3 DEF Answered, Registering
  <2> QED
    BY <1>2, <2>1 DEF MemberIInv, SentOK, SentFor
<1> QED
  BY <1>6, <1>7, <1>8, <1>9, <1>10 DEF MemberIInv

\* A new row is inserted without registration; a known one is left to SaveMember.
LEMMA SubmissionLoads ==
  ASSUME MemberIInv, NEW e \in Submissions, LoadMember(e)
  PROVE  MemberIInv'
<1> DEFINE m == MemberOf[e]
           was == member[m]
           method == IF was.registered THEN "PUT" ELSE "POST"
           pc == IF UnchangedMember(e, was) THEN "unlocking" ELSE "calling"
           x == [submission[e] EXCEPT !.found = was, !.method = method, !.pc = pc]
           w == IF was.known THEN NoMember ELSE [NoMember EXCEPT !.known = TRUE]
<1>1. was \in MemberRow /\ m \in Members
  BY MemberAssumption DEF MemberIInv, MemberTypeOK
<1>2. /\ x \in SubmissionRow /\ x.pc = pc /\ x.payload = submission[e].payload
      /\ pc \in {"unlocking", "calling"}
  BY <1>1, SubmissionTyped DEF SubmissionRow, Open, Locked
<1>3. w \in MemberRow /\ ~w.registered /\ (w.known => ~was.known)
  BY NewRow DEF MemberRow
<1>4. /\ submission' = [submission EXCEPT ![e] = x] /\ submission[e].pc = "loading"
      /\ written' = [written EXCEPT ![e] = w]
      /\ was.known \/ \A f \in Sharing(e) : ~written[f].known
      /\ UNCHANGED <<forms, member, memberLock, profile, accepted, doubtful,
                     outlived, formChanges, memberFaults>>
  BY DEF LoadMember
<1>5. pc = "unlocking" => x.payload \in accepted[m]
  BY <1>1, <1>2 DEF UnchangedMember, MemberIInv, AcceptedOK
<1> HIDE DEF x, w, pc
<1>6. /\ submission' \in [Submissions -> SubmissionRow] /\ submission'[e] = x
      /\ \A f \in Submissions : f # e => submission'[f] = submission[f]
  BY <1>2, <1>4, SubmissionOwns
<1>7. /\ written' \in [Submissions -> MemberRow] /\ written'[e] = w
      /\ \A f \in Submissions : f # e => written'[f] = written[f]
  BY <1>3, <1>4 DEF MemberIInv, MemberTypeOK
<1>8. ~written[e].known /\ ~written[e].registered
  BY <1>4 DEF MemberIInv, WrittenOK, AcceptedOK
<1>9. MemberTypeOK'
  BY <1>2, <1>4, <1>6, <1>7 DEF MemberIInv, MemberTypeOK, SubmissionRow, Open, Locked
<1>10. AcceptedOK'
  BY <1>2, <1>3, <1>4, <1>5, <1>6, <1>7 DEF MemberIInv, AcceptedOK
<1>11. WrittenOK'
  BY <1>2, <1>3, <1>4, <1>6, <1>7 DEF MemberIInv, WrittenOK, Sharing
<1>12. LockOK'
  BY <1>2, <1>4, <1>6 DEF MemberIInv, LockOK, Locked
<1>13. SentOK'
  <2>1. \A f \in Submissions, n \in Members :
          /\ Answered(f, n)' <=> Answered(f, n)
          /\ Answered(f, n)' => submission'[f] = submission[f]
          /\ Registering(f, n)' <=> Registering(f, n)
          /\ Registering(f, n)' => written'[f] = written[f]
    BY <1>2, <1>3, <1>4, <1>6, <1>7, <1>8 DEF Answered, Registering
  <2> QED
    BY <1>4, <2>1 DEF MemberIInv, SentOK, SentFor
<1> QED
  BY <1>9, <1>10, <1>11, <1>12, <1>13 DEF MemberIInv

LEMMA SubmissionAccepts ==
  ASSUME MemberIInv, NEW e \in Submissions, TolunaTakes(e)
  PROVE  MemberIInv'
<1> DEFINE m == MemberOf[e]
           r == submission[e]
<1>1. CASE r.method = "POST" /\ profile[m].known /\ UNCHANGED <<profile, accepted>>
           /\ submission' = [submission EXCEPT ![e].pc = "conflict"]
  <2> DEFINE x == [r EXCEPT !.pc = "conflict"]
  <2>1. x \in SubmissionRow /\ x.pc = "conflict"
    BY SubmissionTyped, SubmissionGoes DEF Open, Locked
  <2>2. submission' = [submission EXCEPT ![e] = x] /\ r.pc = "called"
    BY <1>1 DEF TolunaTakes
  <2> HIDE DEF x
  <2> QED
    BY <1>1, <2>1, <2>2, SubmissionTyped, SubmissionMoves DEF TolunaTakes, Open, Locked
<1>2. CASE /\ profile' = [profile EXCEPT ![m] = [known |-> TRUE, sent |-> r.payload]]
           /\ accepted' = [accepted EXCEPT ![m] = @ \cup {r.payload}]
           /\ submission' = [submission EXCEPT ![e].pc = "answered"]
  <2> DEFINE x == [r EXCEPT !.pc = "answered"]
  <2>1. /\ x \in SubmissionRow /\ x.pc = "answered" /\ x.payload = r.payload
        /\ r.payload \in SUBSET Questions /\ m \in Members
    <3>1. r \in SubmissionRow /\ m \in Members
      BY SubmissionTyped
    <3>2. "answered" \in Open
      BY DEF Open, Locked
    <3> HIDE DEF r, m
    <3>3. x \in SubmissionRow /\ x.pc = "answered" /\ x.payload = r.payload
      BY <3>1, <3>2, SubmissionGoes
    <3>4. r.payload \in SUBSET Questions
      BY <3>1 DEF SubmissionRow
    <3> QED
      BY <3>1, <3>3, <3>4
  <2>2. /\ submission' = [submission EXCEPT ![e] = x] /\ r.pc = "called"
        /\ UNCHANGED <<forms, member, written, memberLock, doubtful, outlived,
                       formChanges, memberFaults>>
    BY <1>2 DEF TolunaTakes
  <2> HIDE DEF x
  <2>3. /\ submission' \in [Submissions -> SubmissionRow] /\ submission'[e] = x
        /\ \A f \in Submissions : f # e => submission'[f] = submission[f]
    BY <2>1, <2>2, SubmissionOwns
  <2>4. /\ profile' \in [Members -> [known : BOOLEAN, sent : SUBSET Questions]]
        /\ profile'[m].sent = r.payload
        /\ \A n \in Members : n # m => profile'[n] = profile[n]
    BY <1>2, <2>1 DEF MemberIInv, MemberTypeOK
  <2>5. /\ accepted' \in [Members -> SUBSET SUBSET Questions]
        /\ r.payload \in accepted'[m]
        /\ \A n \in Members : accepted[n] \subseteq accepted'[n]
    BY <1>2, <2>1 DEF MemberIInv, MemberTypeOK
  <2> HIDE DEF m, r
  <2>6. MemberTypeOK'
    BY <2>1, <2>2, <2>3, <2>4, <2>5 DEF MemberIInv, MemberTypeOK, SubmissionRow, Open, Locked, r
  <2>7. AcceptedOK'
    BY <2>1, <2>2, <2>3, <2>5, MemberAssumption DEF MemberIInv, AcceptedOK, r, m
  <2>8. WrittenOK'
    BY <2>1, <2>2, <2>3 DEF MemberIInv, WrittenOK
  <2>9. LockOK'
    BY <2>1, <2>2, <2>3 DEF MemberIInv, LockOK, Locked, r
  <2>10. SentOK'
    <3> SUFFICES ASSUME NEW n \in Members \ (doubtful' \cup outlived')
                 PROVE  SentFor(n)'
      BY DEF SentOK
    <3>1. SentFor(n)
      BY <2>2 DEF MemberIInv, SentOK
    <3>2. CASE n = m
      <4>1. ASSUME NEW f \in Submissions, Answered(f, m)' PROVE f = e
        <5>1. CASE f # e
          <6>1. MemberOf[f] = m /\ submission[f].pc = "answered"
            BY <2>3, <4>1, <5>1 DEF Answered, m
          <6>2. memberLock[m] = f /\ memberLock[m] = e
            BY <2>2, <3>2, <6>1 DEF MemberIInv, LockOK, Locked, m, r
          <6> QED
            BY <6>2
        <5> QED
          BY <5>1
      <4>2. Answered(e, m)'
        BY <2>1, <2>3 DEF Answered, m
      <4> QED
        BY <2>1, <2>3, <2>4, <3>2, <4>1, <4>2 DEF SentFor
    <3>3. CASE n # m
      <4>1. \A f \in Submissions :
              /\ Answered(f, n)' <=> Answered(f, n)
              /\ Answered(f, n)' => submission'[f] = submission[f]
              /\ Registering(f, n)' <=> Registering(f, n)
        BY <2>2, <2>3, <3>3 DEF Answered, Registering, m
      <4> QED
        BY <2>2, <2>4, <3>1, <3>3, <4>1 DEF SentFor
    <3> QED
      BY <3>2, <3>3
  <2> QED
    BY <2>6, <2>7, <2>8, <2>9, <2>10 DEF MemberIInv
<1> QED
  BY <1>1, <1>2 DEF TolunaTakes

\* The hash of the profile that Toluna has just accepted is written.
LEMMA SubmissionSaves ==
  ASSUME MemberIInv, NEW e \in Submissions, SaveMember(e)
  PROVE  MemberIInv'
<1> DEFINE m == MemberOf[e]
           r == submission[e]
           x == [r EXCEPT !.pc = "unlocking"]
           w == RegisteredRow(e)
<1>1. /\ x \in SubmissionRow /\ x.pc = "unlocking" /\ x.payload = r.payload
      /\ r.payload \in SUBSET Questions /\ m \in Members
  <2>1. r \in SubmissionRow /\ m \in Members
    BY SubmissionTyped
  <2>2. "unlocking" \in Open
    BY DEF Open, Locked
  <2> HIDE DEF r, m
  <2>3. x \in SubmissionRow /\ x.pc = "unlocking" /\ x.payload = r.payload
    BY <2>1, <2>2, SubmissionGoes
  <2>4. r.payload \in SUBSET Questions
    BY <2>1 DEF SubmissionRow
  <2> QED
    BY <2>1, <2>3, <2>4
<1>2. /\ submission' = [submission EXCEPT ![e] = x] /\ r.pc = "answered"
      /\ written' = [written EXCEPT ![e] = w]
      /\ \A f \in Sharing(e) : ~written[f].known
      /\ UNCHANGED <<forms, member, memberLock, profile, accepted, doubtful,
                     outlived, formChanges, memberFaults>>
  BY DEF SaveMember
<1>3. w \in MemberRow /\ w.known /\ w.registered /\ w.hash = r.payload
  BY <1>1 DEF RegisteredRow, MemberRow
<1> HIDE DEF x, w
<1>4. /\ submission' \in [Submissions -> SubmissionRow] /\ submission'[e] = x
      /\ \A f \in Submissions : f # e => submission'[f] = submission[f]
  BY <1>1, <1>2, SubmissionOwns
<1>5. /\ written' \in [Submissions -> MemberRow] /\ written'[e] = w
      /\ \A f \in Submissions : f # e => written'[f] = written[f]
  BY <1>2, <1>3 DEF MemberIInv, MemberTypeOK
<1> HIDE DEF r, m
<1>6. r.payload \in accepted[m]
  BY <1>2 DEF MemberIInv, AcceptedOK, r, m
<1>7. MemberTypeOK'
  BY <1>1, <1>2, <1>4, <1>5 DEF MemberIInv, MemberTypeOK, SubmissionRow, Open, Locked
<1>8. AcceptedOK'
  BY <1>1, <1>2, <1>3, <1>4, <1>5, <1>6 DEF MemberIInv, AcceptedOK, m
<1>9. WrittenOK'
  BY <1>1, <1>2, <1>3, <1>4, <1>5 DEF MemberIInv, WrittenOK, Sharing
<1>10. LockOK'
  BY <1>1, <1>2, <1>4 DEF MemberIInv, LockOK, Locked, r
<1>11. SentOK'
  <2> SUFFICES ASSUME NEW n \in Members \ (doubtful' \cup outlived')
               PROVE  SentFor(n)'
    BY DEF SentOK
  <2>1. SentFor(n)
    BY <1>2 DEF MemberIInv, SentOK
  <2>2. CASE n = m
    <3>1. profile[m].sent = r.payload
      BY <1>2, <2>1, <2>2 DEF SentFor, Answered, r, m
    <3>2. \A f \in Submissions : Answered(f, m)' =>
            Answered(f, m) /\ submission'[f] = submission[f]
      BY <1>1, <1>4 DEF Answered
    <3>3. \A f \in Submissions : Registering(f, m)' => f = e
      BY <1>2, <1>5 DEF Registering, Sharing, m, MemberIInv, AcceptedOK
    <3>4. Registering(e, m)' /\ written'[e].hash = r.payload
      BY <1>3, <1>5 DEF Registering, m
    <3> QED
      BY <1>2, <2>1, <2>2, <3>1, <3>2, <3>3, <3>4 DEF SentFor
  <2>3. CASE n # m
    <3>1. \A f \in Submissions :
            /\ Answered(f, n)' <=> Answered(f, n)
            /\ Answered(f, n)' => submission'[f] = submission[f]
            /\ Registering(f, n)' <=> Registering(f, n)
            /\ Registering(f, n)' => written'[f] = written[f]
      BY <1>4, <1>5, <2>3 DEF Answered, Registering, m
    <3> QED
      BY <1>2, <2>1, <2>3, <3>1 DEF SentFor
  <2> QED
    BY <2>2, <2>3
<1> QED
  BY <1>7, <1>8, <1>9, <1>10, <1>11 DEF MemberIInv

LEMMA SubmissionFrees ==
  ASSUME MemberIInv, NEW e \in Submissions, DeleteMemberLock(e)
  PROVE  MemberIInv'
<1> DEFINE m == MemberOf[e]
           x == [submission[e] EXCEPT !.pc = "invite"]
<1>1. /\ x \in SubmissionRow /\ x.pc = "invite" /\ m \in Members
      /\ x.payload = submission[e].payload /\ x.failed = submission[e].failed
  BY SubmissionTyped, SubmissionGoes DEF Open, Locked
<1>2. /\ submission' = [submission EXCEPT ![e] = x] /\ submission[e].pc = "unlinking"
      /\ memberLock' = [memberLock EXCEPT ![m] = NotAnyone]
      /\ UNCHANGED <<forms, member, written, profile, accepted, doubtful, outlived,
                     formChanges, memberFaults>>
  BY DEF DeleteMemberLock
<1> HIDE DEF x
<1>3. /\ submission' \in [Submissions -> SubmissionRow] /\ submission'[e] = x
      /\ \A f \in Submissions : f # e => submission'[f] = submission[f]
  BY <1>1, <1>2, SubmissionOwns
<1> HIDE DEF m
<1>4. /\ memberLock' \in [Members -> Submissions \cup {NotAnyone}]
      /\ \A n \in Members : n # m => memberLock'[n] = memberLock[n]
  BY <1>1, <1>2 DEF MemberIInv, MemberTypeOK
<1>5. MemberTypeOK'
  BY <1>1, <1>2, <1>3, <1>4 DEF MemberIInv, MemberTypeOK, SubmissionRow, Open, Locked
<1>6. AcceptedOK'
  BY <1>1, <1>2, <1>3 DEF MemberIInv, AcceptedOK
<1>7. WrittenOK'
  BY <1>1, <1>2, <1>3 DEF MemberIInv, WrittenOK
<1>8. LockOK'
  <2> SUFFICES ASSUME NEW f \in Submissions, submission'[f].pc \in Locked,
                      MemberOf[f] \notin outlived'
               PROVE  memberLock'[MemberOf[f]] = f
    BY DEF LockOK
  <2>1. f # e
    BY <1>1, <1>3 DEF Locked
  <2>2. memberLock[MemberOf[f]] = f
    BY <1>2, <1>3, <2>1 DEF MemberIInv, LockOK
  <2>3. MemberOf[f] # m
    BY <1>2, <2>1, <2>2 DEF MemberIInv, LockOK, Locked, m
  <2> QED
    BY <1>4, <2>2, <2>3, MemberAssumption
<1>9. SentOK'
  <2>1. \A f \in Submissions, n \in Members :
          /\ Answered(f, n)' <=> Answered(f, n)
          /\ Answered(f, n)' => submission'[f] = submission[f]
          /\ Registering(f, n)' <=> Registering(f, n)
    BY <1>1, <1>2, <1>3 DEF Answered, Registering
  <2> QED
    BY <1>2, <2>1 DEF MemberIInv, SentOK, SentFor
<1> QED
  BY <1>5, <1>6, <1>7, <1>8, <1>9 DEF MemberIInv

LEMMA LockGrants ==
  ASSUME MemberIInv, NEW e \in Submissions, GrantInvite(e)
  PROVE  MemberIInv'
<1> DEFINE m == MemberOf[e]
           w == written[e]
           x == EndedAs("sent")
<1>1. x \in SubmissionRow /\ x.pc = "sent" /\ m \in Members /\ w \in MemberRow
  BY NewRow, SubmissionTyped DEF MemberIInv, MemberTypeOK
<1>2. /\ submission' = [submission EXCEPT ![e] = x] /\ submission[e].pc = "invite"
      /\ written' = [written EXCEPT ![e] = NoMember]
      /\ member' = [member EXCEPT ![m] = IF w.known THEN w ELSE @]
      /\ UNCHANGED <<forms, memberLock, profile, accepted, doubtful, outlived,
                     formChanges, memberFaults>>
  BY DEF GrantInvite
<1> HIDE DEF x
<1>3. /\ submission' \in [Submissions -> SubmissionRow] /\ submission'[e] = x
      /\ \A f \in Submissions : f # e => submission'[f] = submission[f]
  BY <1>1, <1>2, SubmissionOwns
<1>4. /\ written' \in [Submissions -> MemberRow] /\ written'[e] = NoMember
      /\ \A f \in Submissions : f # e => written'[f] = written[f]
  BY <1>2, NewRow DEF MemberIInv, MemberTypeOK
<1>5. /\ member' \in [Members -> MemberRow]
      /\ member'[m] = IF w.known THEN w ELSE member[m]
      /\ \A n \in Members : n # m => member'[n] = member[n]
  BY <1>1, <1>2 DEF MemberIInv, MemberTypeOK
<1>6. MemberTypeOK'
  BY <1>1, <1>2, <1>3, <1>4, <1>5, NewRow DEF MemberIInv, MemberTypeOK, SubmissionRow, Open, Locked
<1>7. AcceptedOK'
  <2>1. w.known => (w.registered => w.hash \in accepted[m])
    BY DEF MemberIInv, AcceptedOK
  <2>2. \A n \in Members : member'[n].registered => member'[n].hash \in accepted'[n]
    BY <1>2, <1>5, <2>1 DEF MemberIInv, AcceptedOK
  <2> QED
    BY <1>1, <1>2, <1>3, <1>4, <2>2, NewRow DEF MemberIInv, AcceptedOK
<1>8. WrittenOK'
  BY <1>1, <1>3, <1>4, NewRow DEF MemberIInv, WrittenOK
<1>9. LockOK'
  BY <1>1, <1>2, <1>3 DEF MemberIInv, LockOK, Locked
<1>10. SentOK'
  <2> SUFFICES ASSUME NEW n \in Members \ (doubtful' \cup outlived')
               PROVE  SentFor(n)'
    BY DEF SentOK
  <2>1. SentFor(n)
    BY <1>2 DEF MemberIInv, SentOK
  <2>2. \A f \in Submissions : /\ Answered(f, n)' <=> Answered(f, n)
                               /\ Answered(f, n)' => submission'[f] = submission[f]
    BY <1>1, <1>2, <1>3 DEF Answered
  <2>3. \A f \in Submissions : Registering(f, n)' =>
          Registering(f, n) /\ written'[f] = written[f] /\ f # e
    BY <1>4, NewRow DEF Registering
  <2>4. CASE n = m /\ w.known
    <3>1. ASSUME \A f \in Submissions : ~Answered(f, n), w.registered
          PROVE  profile[n].sent = w.hash
      BY <2>1, <2>4, <3>1 DEF SentFor, Registering
    <3>2. member'[n] = w
      BY <1>5, <2>4
    <3> QED
      BY <1>2, <2>1, <2>2, <2>3, <3>1, <3>2 DEF SentFor
  <2>5. CASE ~(n = m /\ w.known)
    <3>1. member'[n] = member[n]
      BY <1>5, <2>5
    <3>2. ~Registering(e, n)
      BY <2>5 DEF Registering, MemberIInv, AcceptedOK
    <3>3. \A f \in Submissions : Registering(f, n)' <=> Registering(f, n)
      BY <1>4, <2>3, <3>2 DEF Registering
    <3> QED
      BY <1>2, <2>1, <2>2, <2>3, <3>1, <3>3 DEF SentFor
  <2> QED
    BY <2>4, <2>5
<1> QED
  BY <1>6, <1>7, <1>8, <1>9, <1>10 DEF MemberIInv

\* A lock that expires under a request at work is recorded as outlived; otherwise
\* nobody who relies on it is at work.
LEMMA LockExpires ==
  ASSUME MemberIInv, NEW m \in Members, MemberLockExpires(m)
  PROVE  MemberIInv'
<1> DEFINE owner == memberLock[m]
<1>1. /\ owner \in Submissions
      /\ memberLock' = [memberLock EXCEPT ![m] = NotAnyone]
      /\ UNCHANGED <<forms, submission, member, written, profile, accepted, doubtful,
                     formChanges>>
      /\ outlived \subseteq outlived' /\ outlived' \subseteq Members
      /\ memberFaults' \in 0 .. MaxMemberFaults
      /\ m \notin outlived' => submission[owner].pc \notin Locked
  <2>1. owner \in Submissions
    BY DEF MemberLockExpires, MemberIInv, MemberTypeOK
  <2>2. memberFaults < MaxMemberFaults => memberFaults + 1 \in 0 .. MaxMemberFaults
    BY <2>1, SubmissionTyped
  <2> QED
    BY <2>1, <2>2 DEF MemberLockExpires, MemberFault, MemberIInv, MemberTypeOK
<1>2. /\ memberLock' \in [Members -> Submissions \cup {NotAnyone}]
      /\ \A n \in Members : n # m => memberLock'[n] = memberLock[n]
  BY <1>1 DEF MemberIInv, MemberTypeOK
<1>3. MemberTypeOK'
  BY <1>1, <1>2 DEF MemberIInv, MemberTypeOK
<1>4. AcceptedOK' /\ WrittenOK'
  BY <1>1 DEF MemberIInv, AcceptedOK, WrittenOK
<1>5. LockOK'
  <2> SUFFICES ASSUME NEW f \in Submissions, submission[f].pc \in Locked,
                      MemberOf[f] \notin outlived'
               PROVE  memberLock'[MemberOf[f]] = f
    BY <1>1 DEF LockOK
  <2>1. memberLock[MemberOf[f]] = f
    BY <1>1 DEF MemberIInv, LockOK
  <2>2. MemberOf[f] # m
    BY <1>1, <2>1
  <2> QED
    BY <1>2, <2>1, <2>2, MemberAssumption
<1>6. SentOK'
  BY <1>1 DEF MemberIInv, SentOK, SentFor, Answered, Registering
<1> QED
  BY <1>3, <1>4, <1>5, <1>6 DEF MemberIInv

LEMMA MembersStep == MemberIInv /\ [MemberNext]_memberVars => MemberIInv'
<1> SUFFICES ASSUME MemberIInv, [MemberNext]_memberVars PROVE MemberIInv'
  OBVIOUS
<1>1. CASE UNCHANGED memberVars
  BY <1>1 DEF memberVars, MemberIInv, MemberTypeOK, AcceptedOK, WrittenOK, LockOK, SentOK,
              SentFor, Answered, Registering
<1>2. CASE MemberNext
  <2>1. ASSUME NEW e \in Submissions, RegisterMember(e) PROVE MemberIInv'
    BY <2>1, SubmissionQuiet, SubmissionTakes, SubmissionLoads, SubmissionAccepts, SubmissionSaves, SubmissionFrees DEF RegisterMember
  <2> QED
    BY <1>2, <2>1, SubmissionQuiet, SubmissionEnds, LockGrants, LockExpires DEF MemberNext
<1> QED
  BY <1>1, <1>2

-----------------------------------------------------------------------------
(* Theorems *)

\* The strengthening holds throughout.
LEMMA MembersInductive == MemberSpec => []MemberIInv
<1> QED
  BY MembersBegin, MembersStep, PTL DEF MemberSpec

\* With the lock held by one request, one is in a call; with none at work, the row is
\* what Toluna has.
LEMMA MembersKept == MemberIInv => MemberInv
<1> SUFFICES ASSUME MemberIInv PROVE MemberInv
  OBVIOUS
<1>1. InvitedWasRegistered
  BY DEF MemberIInv, AcceptedOK, InvitedWasRegistered
<1>2. RowMatchesToluna
  <2> SUFFICES ASSUME NEW m \in Members \ (doubtful \cup outlived), member[m].registered,
                      \A e \in Submissions : MemberOf[e] = m => submission[e].pc \notin Open
               PROVE  profile[m].sent = member[m].hash
    BY DEF RowMatchesToluna
  <2>1. \A e \in Submissions : ~Answered(e, m)
    BY DEF Answered, Open, Locked
  <2>2. \A e \in Submissions : ~Registering(e, m)
    BY DEF Registering, MemberIInv, MemberTypeOK, AcceptedOK
  <2> QED
    BY <2>1, <2>2 DEF MemberIInv, SentOK, SentFor
<1>3. OneCallPerMember
  <2> SUFFICES ASSUME NEW m \in Members \ outlived
               PROVE  Cardinality({e \in Submissions :
                        MemberOf[e] = m /\ submission[e].pc \in {"called", "answered"}}) =< 1
    BY DEF OneCallPerMember
  <2> DEFINE S == {e \in Submissions :
                     MemberOf[e] = m /\ submission[e].pc \in {"called", "answered"}}
  <2>1. \A e, f \in S : e = f
    BY DEF MemberIInv, LockOK, Locked
  <2>2. S = {} \/ \E e \in S : S = {e}
    BY <2>1
  <2>3. Cardinality(S) =< 1
    <3>1. Cardinality({}) = 0 /\ \A e \in S : Cardinality({e}) = 1
      BY FS_EmptySet, FS_Singleton
    <3> HIDE DEF S
    <3> QED
      BY <2>2, <3>1
  <2> QED
    BY <2>3
<1> QED
  BY <1>1, <1>2, <1>3 DEF MemberInv, MemberIInv

(****************************************************************************)
(* _register_member and build_outbound_url, for any number of requests that *)
(* share members, fail, are killed or outlive the lock: an invite is asked  *)
(* for with the profile registered, calls for one member never overlap, and *)
(* the row that lets a request skip the call tells the truth.               *)
(****************************************************************************)
THEOREM RegistrationCorrect == MemberSpec => []MemberInv
<1> QED
  BY MembersInductive, MembersKept, PTL

-----------------------------------------------------------------------------
(****************************************************************************)
(* The composition (MCInventory): a step moves one of the four models and   *)
(* leaves the others as they are.                                           *)
(****************************************************************************)
LEMMA MCSteps ==
  [MCNext]_<<focus, inventoryVars, tolunaVars, feedVars, memberVars>> =>
    /\ [InventoryNext]_inventoryVars /\ [TolunaNext]_tolunaVars
    /\ [FeedNext]_feedVars /\ [MemberNext]_memberVars
<1> QED
  BY Zenon DEF MCNext

LEMMA MCInductive ==
  MCSpec => /\ []SyncIInv /\ []TolunaIInv /\ []QuietIInv /\ []FeedIInv /\ []MemberIInv
<1>1. MCInit => SyncIInv /\ TolunaIInv /\ QuietIInv /\ FeedIInv /\ MemberIInv
  BY SyncBegins, TolunaBegins, QuietBegins, FeedBegins, MembersBegin DEF MCInit
<1>2. /\ SyncIInv /\ TolunaIInv /\ QuietIInv /\ FeedIInv /\ MemberIInv
      /\ [MCNext]_<<focus, inventoryVars, tolunaVars, feedVars, memberVars>>
      => (SyncIInv /\ TolunaIInv /\ QuietIInv /\ FeedIInv /\ MemberIInv)'
  BY MCSteps, SyncStep, TolunaStep, QuietStep, FeedStep, MembersStep
<1> QED
  BY <1>1, <1>2, PTL DEF MCSpec

(****************************************************************************)
(* The inventory, the Toluna survey, the adapters' feed and the members     *)
(* side by side: whichever of them the steps are of, the rows keep their    *)
(* form, the stored questions are the ones the payload asks for, a quiet    *)
(* run leaves the inventory as Toluna has it, and an invite is asked for    *)
(* with the profile registered.                                             *)
(****************************************************************************)
THEOREM InventoryCorrect ==
  MCSpec => [](InventoryTypesOK /\ FormMatchesPayload /\ QuietAgrees /\ FeedInv /\ MemberInv)
<1>1. SyncIInv /\ TolunaIInv /\ FeedIInv => InventoryTypesOK
  BY DEF SyncIInv, TolunaIInv, FeedIInv, InventoryTypesOK
<1> QED
  BY <1>1, MCInductive, FormKept, QuietKept, FeedKept, MembersKept, PTL

(****************************************************************************)
(* What a step may never undo, in any behaviour of the four: the next run   *)
(* that nothing overlaps repairs the inventory, no merge closes what a      *)
(* newer one wrote, and no run reopens what a notification has closed.      *)
(****************************************************************************)
THEOREM InventoryStands == MCSpec => RunsConverge /\ CloseSurvivesRun
<1> QED
  BY MCInductive, MCSteps, ConvergingStep, ClosesStand, PTL
  DEF MCSpec, RunsConverge, CleanRunRepairs, NewerSnapshotStands, CloseSurvivesRun
=============================================================================
