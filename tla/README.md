# quant-tool in TLA+

quant-tool is a Django application that sells survey traffic: it mirrors the
inventories of several providers (InnovateMR, BioBrain, Voqall, Toluna, RFG,
Acuity, TrackOpinion, UniMarket, Zamplia), hands suppliers entry links into
those surveys, follows each respondent from the entry link to the provider's
final callback, and accounts for what the respondent's completion costs whom.
Its web processes, its two Celery worker processes, Celery Beat and the
providers' servers all write the same MySQL rows (InnoDB, READ COMMITTED, row
locks taken inside each transaction; there is no transaction per request), a
second database for prescreener profiles, and a shared cache. What is easy to
get wrong is therefore seldom a function but an order of transactions, and that
is what most of these modules describe; a few describe computations that the
code makes in two places and that must agree.

Paths below are those of the repository; `PROJECT.json` maps every definition to
the lines that it stands for.

## 1. Inventory

| Component | State | Operations | Hard behaviour | Correct when |
|---|---|---|---|---|
| Respondent journey (`surveys/views.py`, `survey_flow.py`, `services.py`) | `SurveyAttempt` | entry link, RID page, prescreener POST, browser and server callbacks, transaction poll | handlers race under the row lock with what they read before it; a request can die between its two transactions; callbacks repeat, arrive late or early | the first outcome stands where it should; one redirect; verified means verified by the provider |
| Allocation reservations (`vendors/services.py`, `tasks.py`) | `AllocationReservation` | reserve, finalize, expire | expiry races the callback; a worker is killed in its list | one settlement per unit, in the step that ends the journey; no unit stays reserved |
| Toluna respondent notifications (`surveys/toluna_notifications.py`) | `TolunaNotification` | store, reconcile, retry on duplicate | any order, duplicates, death between storing and applying, race with the signed callback | a completion is taken back by a reconciliation only, and then for good |
| Toluna members (`surveys/providers/toluna.py`, `views.py`) | `TolunaMember`, a cache lock | build the payload, register or update, ask for the invite | the lock expires under its owner; the row is saved in a transaction that a failed invite rolls back | the row describes what Toluna holds; one call per member within the lock's 45 s |
| Synchronization schedule (`surveys/tasks.py`, `SyncLease`) | lease, `last_sync_*` | dispatch, sync now, run, retry, time limit | lost messages, killed processes, ownerless lease, a row judged before it is written | runs never overlap; synchronization always resumes; a sync is not found due while its inventory is read |
| Inventory synchronization (`surveys/services.py`, `provider_services.py`) | `Survey` rows, markers | fetch, batch, close; merge | runs outside the lease overlap; failure between batches; second-resolution markers | after a clean run the live rows are its snapshot; an older run closes nothing newer |
| Survey details (`services.py`, `provider_services.py`, `providers/supply_common.py`) | `SurveyQuota`, `SurveyTargeting`, `detail_synced_at`, stamps | refresh on demand and in batches | a merge overtakes a refresh; one of two collections fails; failing rows at the head of the batch | fresh details are no older than the row they describe; every stale live survey gets its turn |
| Toluna operational notifications | quota status, closed surveys | apply, keep pending, replay after a merge | late, early, duplicate; a merge commits rows that a notification closed | newest quota status governs; a closed survey stays closed |
| Prescreening (`surveys/views.py`, `providers/rfg.py`, `toluna.py`) | form and quota rows of a survey | build the form, judge the answers | quotas fill between the two; the postal lookup is down; age ranges meet | whoever fits an open quota passes; an outage refuses nobody |
| Prescreener vault and profile reuse (`prescreener_vault/`) | submissions, month slots, per-UID state, events, in two databases | decide, reserve, pick, commit, undo, capture | no transaction spans both databases; two POSTs of one attempt | once per project and within the policy; counters cover what is used; RID and UID one to one |
| Export jobs (`surveys/tasks.py`, `views.py`) | `ExportJob`, files | request, claim, build, download, clean up | clean-up meets a running builder; killed builder; duplicate message | a served job has its file; one builder; no file forgotten |
| Supplier result callbacks (`surveys/supplier_callbacks.py`) | a record in the attempt's audit | queue, claim, call, finish, retry, recover | HTTP call between two transactions; late acknowledgement; a poll replaces the audit the record is part of; recovery within a lookback and a batch | one call per claim; one result per attempt; what the recovery looks at does not stay pending |
| Final IDs (`surveys/final_ids.py`) | `FinalIDStatus`, uploads | import, repair | imports of two clients deadlock; locks taken one at a time | the trail explains the verdict; omission overrides no decision |
| Caches (`config/cache_utils.py`, `accounts/access.py`, `report_cache.py`, `project_cache.py`) | generations, snapshots, locks | rotate, look up, build once | rotation around a commit; a profile loaded before the generation; eviction; builders that outlive the lock | no answer under permissions that do not hold; the lock of a live lease is its owner's |
| Supplier organization and allocation policy (`vendors/`) | units, rules, grants, exceptions, keys, cuts | edit, resolve, list, admit, price | overlapping edits; long entries; policy and price computed twice | the hierarchy; nearest policy; listed exactly when admitted; one price |
| Integration settings (`vendors/views.py`, `serializers.py`, `credentials.py`) | one integration's row, its token and links | edit, test, change the token | an edit commits three times; whole-row saves around a slow test | what is scheduled was verified |
| Access control and accounts (`accounts/`) | users, roles, functions, overrides | create, patch, delete, toggle | validation on rows that change before the save | shown is enforced; nobody grants what he has not |
| Dashboards and reports (`surveys/dashboard.py`, `user_hits.py`, `report_pricing.py`, ...) | none | count and price what happened | several queries without a transaction; windows and buckets | the parts of one report agree |
| Vendor API, upstream explorer | API keys | list, enter, read through | covered by the policy above; the explorer is a proxy | as the policy |
| Local project ids | one counter row per month | allocate a block | one locked row | ids never repeat |
| User interface, deployment | none, configuration | | | |

How they interact. The entry request resolves the supplier's policy, creates an
attempt and, in the same transaction, its reservation. The prescreener POST
judges the answers, decides about an older profile in the vault, registers a
Toluna member where needed and sends the respondent on. Every handler that ends
the journey (callback, notification, poll, local rejection) finalizes the
reservation in its own transaction and may queue a supplier callback. The expiry
task writes the reservation only. Final-ID imports decide over ended journeys,
reports count and price them, and exports write reports to files. The scheduler
starts inventory runs under a lease; runs started by `POST /sync?wait=true` or
`manage.py` take none. An inventory run decides which surveys an entry may use,
refreshes details, and for Toluna replays the operational notifications after it
has merged. Edits of accounts, units, grants and settings rotate the generations
under which reports and permissions are cached.

## 2. Modules

| Module | Models | Checked in |
|---|---|---|
| `ReservationLedger` | what the reservation service promises (abstract) | implemented by `AttemptLifecycle` |
| `AttemptLifecycle` | journey, reservations, respondent notifications | `MCAttemptLifecycle` |
| `ProfileReuse` | profile reuse and the vault | `MCEntry` |
| `InnovateDetails` | quotas and targeting of InnovateMR surveys | `MCEntry` |
| `InventorySync` | what runs do to survey rows | `MCInventory` (and as it is) |
| `TolunaInventory` | a Toluna survey under runs, refreshes, notifications | `MCInventory` |
| `SurveyFeed` | the adapters' rows and details | `MCInventory`, `MCJobs` |
| `TolunaMembers` | the member behind a Toluna invite | `MCInventory` |
| `SyncSchedule` | when a run starts and ends | as it is |
| `SupplierCallbacks`, `ExportJobs`, `CacheLease`, `FinalIds` | background work | `MCJobs`; `SupplierCallbacks` also as it is |
| `SharedCache`, `OrganizationTree`, `SupplierScope`, `SupplierPricing`, `IntegrationSettings`, `AccessControl`, `Screening`, `TrafficReports` | administered records and what reads them | `MCRecords` |
| `AttemptLifecycle_proofs`, `AttemptOutcome_proofs` | proofs about `AttemptLifecycle` | section 6 |
| `SyncSchedule_proofs`, `SurveyFeed_proofs` | proofs about the module they are named for | section 6 |
| `Inventory_proofs`, `Entry_proofs`, `BackgroundWork_proofs`, `Records_proofs` | proofs about the components of `MCInventory`, `MCEntry`, `MCJobs` and `MCRecords`, and about the compositions | section 6 |

`MCEntry`, `MCInventory`, `MCJobs` and `MCRecords` are disjoint compositions:
the components in them share no variable, so a behaviour has a `focus`, moves
that component only, and the others rest in one of their initial states. One run
of TLC then explores several state spaces one beside the other. Likewise `revised`
has attempts of RFG and of Toluna, which meet nowhere, and a constraint
(`OneProvider`) that keeps a behaviour to those of one of them. Where components
do act on each other they are one module: journey, reservation and notification
rows in `AttemptLifecycle`, for example, or scheduler, queue, lease and
processes in `SyncSchedule`.

Each module holds its "faulty" operators, right before the definition they
would replace: the bug a plausible edit of the code would introduce. The
invariants are conjunctions of named parts and each part has a fault of its own;
`PROJECT.json` replays one for every property of the runs.

### AttemptLifecycle

One attempt row is the record `row[a]`; `callbackAt`, `redirected`, `invited`
and `verified` are the nullable columns and flag that the handlers test.
`exit` says whether the stored exit audit belongs to the request that ended the
journey. `hold[a]` is the reservation's status. `visit[a]` is the entry request
between its transactions and what the respondent has been told. `answers` are
provider transactions that a poll has fetched and not yet applied, so that a
poll acts on what it read before the callback committed. `notices`, `overdue`,
`listed` and `kills` are notification rows, reservations past `expires_at`, the
expiry task's list, and its deaths.

One action is one committed transaction under the row lock, with every write of
the handler in it: `EnterSurvey` (`survey_start`: claim, create, reserve),
`RejectDuplicate` and `EntryRequestDies` (its second transaction),
`BackfillEntryIP`, `RejectCountry`, `RejectPrescreener`, `RejectInvite` (the
`_finish_*` handlers), `SubmitPrescreener`, `ReleasePreparedInvite`,
`InnovateCallback`, `BiobrainCallback`, `UnsignedCallback`, `TolunaCallback`
(`survey_status` for the four families), `RfgServerCallback`,
`RfgBrowserReturn`, `StoreNotice` and `ApplyNotice` (`ingest_toluna_notification`
and its reconciliation), `FetchTransaction`, `ApplyTransaction`,
`DropTransaction` (the poll, split where the code is outside any lock),
`TtlElapses`, `ListDue`, `ExpireListed`, `KillExpiryRun`.
Every handler that may end a journey goes through `Record`, the row's save
followed by `finalize_attempt_capacity`.

Abstracted: providers of equal handling share a class; statuses 2 and Toluna's
7 to 12 are one; addresses are model values; one payload of each Toluna event
per attempt (a member has one completion per wave); whether the allocation
policy admits an entry, whether the prescreener matches and what the provider
answers are choices. A refused reservation rolls everything back and is no step.

### ReservationLedger

The promise: a unit is taken when the journey opens, and leaves "reserved" once,
in the very step that ends the journey and by its outcome, or by lapsing while
the journey is open. `AttemptLifecycle!LedgerSpec` maps `journey` to the class
of the row's status and `unit` to `hold`.

### SyncSchedule

One integration: the lease (time left), the status and age of its last sync
marker, the dispatcher (which reads the row, `FindDue`, and later stores the
marker and sends, `Dispatch`, or stores it and fails to send,
`DispatchUnsent`), the queue by retry count, and each worker process with the
task it executes, its age and its retry count. A process is "running" while it
reads the inventory and "refreshing" while an adapter's run, having stored the
inventory's result, fetches details; an InnovateMR run goes from the first
straight to its end, so the behaviours of `Installed = TRUE` include its.
`Acquire`, `Skip`, `Announce`, `ReportInventory` (the adapters' early result), `Finish` and `Release` are the
transactions of `sync_client_integration_task`; `TimeOut` is the worker's hard
limit for a run whose provider hangs, `Die` any other death. Times are ages and
remainders, hence behaviours are infinite though the state space is finite.
Toluna's cache expiry only delays the dispatcher and is left out.

### InventorySync

Survey rows are a status and the marker that last stamped them. `BeginSync` takes
the marker. On InnovateMR's path `FetchFull`, `FetchPaged`, then for each batch
`ReadBatch` (outside the transaction: which rows are missing, which differ) and
`WriteBatch` (one transaction), then `CloseUnmarked`. On the adapters' path
`FetchInventory` and `MergeInventory`, one transaction with a cutoff. `Fail` is a
provider error, a broken batch or a kill. `alone` is a history variable: the runs
that nothing has overlapped. BioBrain's closing by end date is not modelled.

### TolunaInventory

One survey with one quota. `upstream` is what Toluna's inventory says; each
change of it (`QuotaChanges`, `SurveyCloses`, `SurveyReopens`,
`TargetingChanges`) is a numbered event, and the first two kinds send a
notification. The notification is stored (`Store`) and reconciled (`Deliver`) in
two transactions, the second of which a duplicate delivery or a replay may make
up for. `Reconcile` is `_reconcile_notification` with the event it applies:
pending when its survey or quota row is missing, without effect when a newer
quota event has been applied. A run is `StartRun`, `Fetch`, `Merge` (one
transaction: `Create`, `Update`, `Heartbeat` or `CloseMissing`), `ListReplay`,
then `ReplayOne` for each notification listed, and `FailRun` drops what is left
at any point. A detail refresh is `Rebuild` under the row lock, then the same
replay from the `last_seen_at` read under that lock.

`occurred_at` is the event's number. `received_at` is compared only with the
start of a run or with `last_seen_at`, itself such a start; these times are
therefore the sets of events received before them. `clean` is a history
variable. Not modelled: the replay's batch of 200 (one survey never fills it),
events without a date, a listed survey whose remaining capacity is zero, and two
runs at once, which is `InventorySync`'s subject.

### TolunaMembers

`submission[e]` is the request that submits the form of attempt `e`, and its
`pc` the statement it is at; `member` are the committed `TolunaMember` rows and
`written` the row a request has saved in a transaction that is still open;
`profile` is what Toluna has. `SubmitForm` and `BuildPayload` (or `TurnAway`, for details gone stale
or no quota that fits) are the view's, `RegisterMember` the statements of
`register_member`: take the lock or give up, load the row, skip the call when its
hash is the payload's, call, try again as PUT, save, compare the lock, delete it.
`GrantInvite` and `EndWithoutInvite` end the transaction; the latter rolls the
row back. `MemberLockExpires` is the 45 s, `RequestKilled` a worker's death.
`accepted`, `doubtful` and `outlived` are history.

### InnovateDetails

Quotas and targeting of InnovateMR surveys are two collections, each with its
own stamp (`quota_synced_at`, `targeting_synced_at`), beside `detail_synced_at`
for both. A refresh (`RefreshOne` on demand, `RefreshBoth` from the batch) reads
the row, asks the provider (`AskProvider`), stores the answer and stamps it
(`StoreCollection`), looks at the row again (`LookAtStamps`) and stamps the pair
(`StampDetails`). The run fetches (`FetchInventoryOf`), reads the rows outside
its transaction (`ReadStudies`) and writes them back whole (`WriteStudies`).
Times are whole; `stored` is the provider's date of what is stored, `unnoticed`
remembers collections that went out of step without a mark: by a change between
answer and store, or within the unit of time of a stamp.

### ProfileReuse

`post[p]` is a prescreener POST between its transactions: `Submit`, `Decide`
(the attempt's row, unlocked), `ReadBaseline` and `ClaimMonthSlot` (the month's
counter, locked), `ScanVault` and `PickProfile` (the vault's candidates, then a
visit of the row picked), `CommitReuse` (event, per-UID state and attempt, under
the attempt's lock), or `UndoReservation`, `MarkPool` and `ReleaseMonthSlot` when
nothing was found or the race was lost; then `EnsureUid`, `Persist` (capture of
the respondent's own answers, or the promise kept for the reused UID) and
`Redirect`. `CommitReuse` takes the clock under its locks, the code just before it
waits for them (`reuse.py:480`): a wait is within one unit of a clock whose
policies count minutes. `DatabaseFails` raises in any of them and runs the compensation the
code has there; `WorkerKilled` runs none. The second database's rows are
`vault`; all other rows are the first's. `refunds` is history.

### SurveyFeed

`adapter` is the integration's provider, and the differences between the five
adapters are conditions on it: whether a closed survey is still listed, what
stamp an item carries, whether a refresh asks for the survey, its questions and
its quotas in one or three calls, whether it stores the remaining count, and
what it does with a survey that is gone. `StartPoll`, `AnswerCall`, `CallFails`,
`GiveUp` and `MergePoll` are a run; `StartBatch` and `NextOfBatch` the detail
batch of `refresh_stale_details` in its order; `RefreshOnDemand` the request of
a respondent or an operator; `RefreshSteps` the calls of one refresh and its
single transaction at the end. `overtaken` is history.

### SupplierCallbacks, ExportJobs, CacheLease, FinalIds

`SupplierCallbacks`: `QueueResult` writes the delivery record in the handler's
transaction and leaves in `commit` what `on_commit` has still to do with the very
event it stored; `DispatchCallback` queues the task, `ClaimDelivery`,
`CallSupplier` and `FinishDelivery` are the task's two transactions and the HTTP
call between them. `DispatchLost`, `WorkerLost` and `CallbackTimeLimit` are the
faults; `MarkQueueFailure` and `Recover` what makes them good. The record is a key
of `upstream_transaction_data`, and `ReplaceAudit` is the poll that stores the
provider's row in place of all of it (`services.py:316`, `views.py:893`); `erased`
remembers where. `Recover` takes the newest `RecoveryBatch` of the records that
are pending, of a terminal status and within the lookback (`Stranded`, `Batch`):
`newer` is the order of `callback_at`, which a Toluna return moves
(`ReviseOutcome`), and `lapsed` are the attempts older than the lookback
(`LapseRecovery`). A record's age goes through `GrowOlder`: within the 30 s of a
claim, within the dispatcher's 60 s, older.

`ExportJobs`: `LookUpExport`, `CreateExport` and `EnqueueBuild` are a request,
`StartBuild` the conditional update that claims a job, `WriteTemporary`,
`ReplaceFile` and `CompleteBuild` the build, `ListExpired`, `DeleteExpired` and
`UnlinkFiles` the clean-up, rows first: it deletes what has expired by then of
what it has listed keys of, and unlinks the files of all it listed. `RequestKilled`, `BuilderKilled`, `CleanerKilled`,
`EnqueueRefused` and `DuplicateMessage` are its faults.

`CacheLease`: one cache key of either kind. `LookUp` serves, or serves stale and
goes on; `TakeLock` and `MissLock` are `cache.add`; `Query` reads the database,
`FinishBuild` stores and gives the lock back when the token is still its own;
`PeerStored` and `WaitTimesOut` end a wait. `LeaseEnds` is the lock's 30 s.

`FinalIds`: `Upload` and `Repair` begin a transaction, `ImportStep` takes the
next row lock, waits for it or is rolled back by a deadlock; the last step
writes statuses and items and commits. The locking reads join the client's row,
which is why two imports can wait for one another.

### The modules of MCRecords

`SharedCache`: a change of access writes (`WriteAccess`), rotates the generation
in its transaction, commits and rotates again. The access is the viewer's profile
(with its role and units) and the rows read through it. A request loads the
profile first and keeps it (`ReadProfile`: the middleware, by way of the request
cache), then takes the generation, then a snapshot or, by that profile, the
database (`LoadFromDatabase`), then the generation again, and a report under a key
made of both. Keys are evicted at any time. `overtaken` are the requests whose
profile was replaced before they read the generation.

`OrganizationTree`: `ValidateUnit` and `SaveUnit` are the two halves of an edit;
`AssignClient`, `RemoveClient`, `WithdrawClient`, `DeleteUnit` and `MoveMember`
the others. What a member may see is computed along the ancestry as the code
does it, and compared with its definition.

`SupplierScope`: the inventory's query (`ListedForUser`) and the entry's check
(`Resolves`) are translated separately. `AdmitLink` and `ReserveEntry` are the
ends of an entry; grants, exceptions, keys, policies and prices change between
them.

`SupplierPricing`: one supplier's cuts, the price per row, the database
expression, the frozen entry and the report, each with its own rounding.

`IntegrationSettings`: an edit is `LoadSettings` and three commits, `SaveSettings`
(the row as the request has it), `StoreToken` (`set_integration_token`) and
`ResetVerdict` (status and schedule); it may end after either of the first two
(`BreakOffEdit`). `StartTest`/`TestSucceeds` or `TestFails` and
`StartFetch`/`StoreFetched` are pairs with a pause between them;
`ReconcileCredential` is `reconcile_all_integration_credentials`. `races` records
what came between a read and a write, and a new connection that stands with the
verdict on the old one, until a reset or a verdict of its own makes up for it.

`AccessControl`: accounts, roles and overrides under `CreateUser`,
`ValidatePatch`/`SavePatch`, `DeleteUser`, the role operations,
`ToggleFunction` and `SyncCatalog` (every migration makes the catalog's
functions active again).

`Screening`: `contract` is what the provider says, `Hydrate` builds form and
quota rows from it, `CountsMove` fills or empties a quota. The judgement is a
function of the answers, so its properties quantify over all answers.

`TrafficReports`: `Enter`/`CommitEntry` are an entry's stamp and its commit;
`Anchor` fixes the report's instant, and `ReadSummary`, `ReadSeries`,
`ReadTable` and `ReadBaseline` are its queries. Counts are the sets of journeys
counted, so that two counts can be compared journey by journey.

## 3. Bounds

Constants whose names begin with `Max` are bounds, each a guard of the action it
limits, except `MaxRetries`, `MaxCallbackRetries`, `MaxTries`, `MaxUses` and
`MaxScan`, which are limits of the code itself at smaller values, and `MaxNow`
and `MaxClock`, which end time.

* `AttemptLifecycle`: attempts interact only through the shared address and the
  expiry list, so two suffice: the claim compares two rows, the list needs more
  rows than `BatchSize = 1`. `MaxAnswers = 1`: a poll applies its answers one by
  one under the lock of the row in question, so two late answers meet a row like
  one and a callback do. `MaxKills = 1`: after it the next run starts from
  nothing again; `revised` leaves kills to `polled`.
* `SyncSchedule`: `Floor = TimeLimit = 3` keeps the code's order (300 s lease
  floor against a limit of 300 s) with an interval below it. Two processes are
  what the worker runs (`concurrency 2`), and `MaxQueue = 2` lets both find a
  message twice. `MaxFaults = 2` loses a message and kills the run that follows.
* `InventorySync`: two keys, one of them in a later batch than the other; two
  runs. `MaxClock = 2` puts two runs in one second and one in the next; the
  adapters' four readings (`MaxMerging`) let both fetch and start again. A marker
  pushed ahead of the clock (`MaxMarker = 1`) is in `overlap` only. With three
  overlapping adapter runs the middle one may close a row that the newest
  snapshot holds (the oldest, merging in between, stamps it with a marker at or
  below the middle run's cutoff); two runs do not show that, and
  `NewerSnapshotStands` speaks only of rows that carry a newer marker.
* `TolunaInventory`: `MaxEvents = 3` gives two notifications of one kind to
  reorder and one event of another kind between them, or a survey closed,
  reopened and closed. Two contracts, one refresher beside the run.
* `SurveyFeed`: a survey per market, so that one UniMarket call may fail and the
  other not; two refreshes; one survey whose details cannot be read and a batch
  of two. One revision and one fault, since a second of either repeats the
  situation after the first.
* `TolunaMembers`: three attempts of one member, one of them with an empty form:
  one request holds the lock, a second outlives it, a third comes after. One
  question suffices because payloads are compared as a whole.
* `InnovateDetails`: one survey (surveys share nothing but the run), two
  refreshes and a run, two hours (`LastHour = 2`): one for what is stored, one for
  what changed since.
* `ProfileReuse`: two attempts of one project that compete for the one older
  profile, one attempt of early days without a UID and one of another project.
  `MaxNow = 4` lets the interval pass and the window move; the limit per window
  is 1, the tries 2, the scan 1, so that every limit is reached. One fault.
* `SupplierCallbacks`: in `jobs` one attempt with two outcomes, two
  delivery tasks (one that outlives its claim and one that takes it over), one
  retry, two mishaps. In `callbacks` two attempts, one task and a recovery batch of
  one: the smallest case in which a newer event can stand before an older one.
* `MCJobs`: two workers, two deliveries or builders each; three requests for a
  cache key, so that one builds, one outlives its wait and one comes late; two
  clients and two attempts, one of which belongs to both, which is what the
  deadlock needs. Mishaps are one or two.
* `MCRecords`: three units (a parent, a child and one to be moved between them);
  two editors; two requests beside one writer; prices 1, 5, 33 and 199 cents with
  cuts of 0, 33 and 50 %, where roundings differ; every rule over two questions
  with two answers; months of one, two and seven days, so that a month can be
  shorter than the one before it. Edits are bounded at two to four, the length of
  the shortest harmful sequences.

Some of these state spaces have interchangeable initial values (contracts,
grants, staff); MC modules pin one of them (`FirstContract`, `CacheRests`,
`accounts[AnyOf(Staff)].exists`). `SYMMETRY` is used in `entry` only, over requests
and over refreshes, and all of that run's properties are invariants.

An adapter's fetch takes longer than the clock's resolution (`FetchInventory`),
and the dispatcher passes its rows within one unit of time (`Tick`).

`CHECK_DEADLOCK FALSE` appears where the system may really stop: every attempt
of the instance has ended or been abandoned, the bounded clock has run out, or
no edit, event or fault is left and everybody is idle. `schedule` checks deadlock.

## 4. Runs

| Run | Properties | Shows |
|---|---|---|
| `polled` | `TypeOK` `HoldFollowsJourney` `FirstOutcomeStands` `ReservationSettles` | callbacks, poll and expiry race over an InnovateMR and a BioBrain attempt |
| `revised` | `VerifiedOutcomeHasVerifiedSource` `OneRedirectPerEntryIP` `LedgerSpec` `SentOnce` `TolunaCompletionStands` `ClawbackStands` | two RFG entries from one address, where a request may die between its transactions; one Toluna attempt, fresh or prepared by an earlier release, with every order of events |
| `entry` | `InnovateInv` `ReusesAllowed` `CountsCoverReuses` `VaultSound` | what a submitted prescreener rests on: older profiles over two databases, InnovateMR details |
| `inventory` | `InventoryTypesOK` `RunsConverge` `FormMatchesPayload` `QuietAgrees` `CloseSurvivesRun` `FeedInv` `MemberInv` | what is kept in step with the providers: overlapping and failing runs, notifications, refreshes, a shared member |
| `schedule` | `ScheduleInv` `NotDueWhileFetching` `SyncResumes` | an adapter that may hang for ever, two faults, fairness |
| `records` | `CacheInv` `TreeInv` `ScopeInv` `PriceInv` `SettingInv` `ScreenInv` `ReportInv` `AccessSound` `ReservationsCovered` | edits that overlap the requests that rely on them |
| `jobs` | `CallbackInv` `ExportInv` `LeaseInv` `FinalInv` `JobsSettle` `JobsNeverGoBack` | background work under crashes, lost and duplicated messages, with fairness |
| `callbacks` | `PendingEventSettles` | a stored event settles through lost tasks and killed workers, and the dispatcher reaches the older of two with a batch of one |
| `late_completion` | `CompletionConsumesUnit` | violated |
| `exit_audit` | `ExitAuditStands` | violated |
| `rfg_browser` | `RfgCompletionFromServer` | violated |
| `overlap` | `OnlyMissingClosed` | violated |

The larger properties are conjunctions, next to the type invariant of their
module:

* `ScheduleInv`: two runs of an integration never overlap (`SingleFlight`).
* `RunsConverge`: after a clean run that nothing overlapped the live rows are its
  snapshot (`CleanRunRepairs`); an older run closes nothing that a newer one
  stamped (`NewerSnapshotStands`).
* `FeedInv`: fresh details are as new as the row (`FreshDetailsCurrent`, with the
  exception of a refresh that was overtaken); a closed survey is over
  (`ClosedIsOver`, except UniMarket's); a survey seen full is refused
  (`FilledIsRefused`, for Track and Acuity).
* `MemberInv`: Toluna has accepted the profile of an attempt whose invite is asked
  for (`InvitedWasRegistered`); the row that lets a request skip the call says what
  Toluna has (`RowMatchesToluna`); calls for one member do not overlap while its
  lock lasts (`OneCallPerMember`).
* `InnovateInv`: a collection that no refresh would replace is that of the row's
  date (`SettledIsCurrent`); a stamp on the pair means that both were stored
  (`StampedHasBoth`).
* `ReusesAllowed`: a profile serves a project once (`ProfileOncePerProject`), within
  interval and limit (`ReusePolicyHolds`). `CountsCoverReuses`: the month's slots
  (`BudgetCoversReuses`) and the vault's visits (`VisitsCoverReuses`) cover the reuses
  committed. `VaultSound`: RID and UID one to one (`VaultPairsStand`), one decision per
  attempt (`OneDecisionPerAttempt`).
* `CallbackInv`: one call per claim (`OneCallPerClaim`), one result per attempt
  (`SupplierHearsOneResult`), both until a poll erases the attempt's record.
  `ExportInv`: a served job has its whole file (`ServedHasFile`), one builder
  (`OneBuilderPerJob`), no file that the clean-up forgets (`NoFileForgotten`).
  `LeaseInv`: a live lease keeps its lock (`BuilderKeepsItsLock`). `FinalInv`: the
  items account for the verdict
  (`TrailExplainsVerdict`), omission overrides no decision
  (`OmissionOverridesNothing`), the repair rejects undecided attempts only
  (`RepairRejectsOnlyPending`).
* `JobsSettle`: `ExportSettles`, `MissesAnswered`,
  `ImportsEnd`, `DetailsArrive`. `JobsNeverGoBack`: `DeliveredStands`,
  `EntryNeverGoesBack`.
* `CacheInv`: snapshots follow the committed access (`SnapshotsFollowAccess`; of a
  request that was overtaken, in all but the profile), a report
  the snapshot of its request (`ReportMatchesSnapshot`). `TreeInv`: the hierarchy is
  strict unless two edits overlapped (`StrictUnlessOverlapped`), policies come from
  the nearest unit (`PolicyIsNearest`), totals count each member once
  (`RollupCountsOnce`). `ScopeInv`: listed exactly when admitted (`ListedIffResolved`).
  `ReservationsCovered`: `ReservedUnderLiveGrant`, `ReservedPriceWasAllowed`.
* `PriceInv`: `AnnotatedWithinACent`, `ReportShowsEntryPrice`, `ReportFollowsInventory`.
  `SettingInv`: `ScheduledWasVerified`, `PolledWithinLimit`, `LinksOfCurrentToken`.
  `AccessSound`: `ShownIsEnforced`, `CreatedWithinCreator`,
  `ExternalAllowsNothingForbidden`, `StrandedOnlyLate`.
* `ScreenInv`: whoever fits an open quota passes (`QualifiedPass`), an outage of the
  postal lookup refuses nobody (`OutageRefusesNobody`), ages meet exactly (`AgesExact`).
  `ReportInv`: the parts of a report agree (`CountedOnce`), periods are disjoint
  (`PeriodsDisjoint`) and comparable (`BaselineIsFair`), early rows have one owner
  (`LegacyOwnersAgree`).

The exceptions that these state ("unless a refresh was overtaken", "unless a
builder outlived its lease") are what the code really allows; each is a history
variable set at the step where it happens, and section 7 lists them.

The four violated runs are places where the code does something else than its
documentation says; each checks that one sentence.

* `late_completion`: a completion after the 180-minute reservation has lapsed is
  recorded and consumes nothing (`docs/vendor-allocation.md:76`).
* `exit_audit`: a later signed InnovateMR callback replaces the exit audit of the
  first (`docs/respondent-flow.md:45`).
* `rfg_browser`: the unsigned `/survey` return completes an RFG attempt
  (`docs/client-integrations.md:53`).
* `overlap`: two InnovateMR runs, one without the lease, close each other's rows
  although both snapshots hold them (`docs/synchronization.md:21`). `inventory`
  shows that the next unoverlapped run puts this right.

## 5. Fairness

`AttemptLifecycle!FairSpec`: time passes (`TtlElapses`), Beat keeps starting the
expiry task (`ListDue`), and a run that is not killed visits its list. Nothing is
assumed of respondents and providers.

`SyncSchedule!FairSpec`: time passes, Beat calls the dispatcher, no message of
any retry count waits for ever (strong fairness, because a process is free only
now and then), a process executes its own statements, and the time limit is
enforced. A run need never finish. `Dispatch` is strongly fair only because the
bounded queue disables it; the broker's queue has no bound.

`SupplierCallbacks!CallbackFairness`: delivery records grow older, a request that
has committed an event goes on to queue it or notes the failure, Beat runs the
recovery, and a worker executes the statements of a task it has started (a
supplier call ends by its timeout). Nothing is assumed of outcomes, polls and the
lookback: a record may be erased or age out at any time, which is why
`PendingEventSettles` names both.

`MCJobs!JobsFairness`: time passes for exports, a request that has committed a job
goes on to queue it, Beat runs the clean-up of exports, a worker executes the
statements of a task it has started (a provider call ends by its timeout), a cache wait times out, an import takes its next step and
the detail batch starts and goes on. Builds, retries that a queue has lost,
suppliers' answers and new requests are under no fairness: an export settles
because it expires, not because it is built.

## 6. Proofs

For all values of the constants that satisfy the named assumptions. Every
inductive invariant below was checked by TLC on the runs' instances before it
was proved.

`AttemptLifecycle_proofs`. The inductive invariant is `TypeOK`,
`HoldFollowsJourney` and `NoticesMatched` (a notice that is stored or applied
belongs to a Toluna attempt that exists). `HoldFollowsJourney` must contain
"`callbackAt` exactly when the status is terminal": the browser callbacks and the
poll decide by `callback_at` whether they are first, the expiry and the ledger by
status, and only their agreement makes every ending transaction settle the unit
once. The actions are reduced to four shapes of step (a row opened, closed,
touched, a unit lapsed), one lemma each.

* `TypeCorrect`: `[]TypeOK`.
* `HoldCorrect`: `[]HoldFollowsJourney`.
* `ImplementsLedger`: `Spec => LedgerSpec`; each shape is a step of the ledger or
  a stutter.

`AttemptOutcome_proofs` adds to that invariant what a row's mark of verification,
its outcome's source and a poll's pending answer say of each other (`OutcomeOK`),
among it that a row not yet sent on carries no redirect, and reduces the actions
to the writes they make to a row: it opens, keeps, sends on or ends a journey.

* `FirstOutcomeCorrect`: `FirstOutcomeStands`, for every provider it speaks of,
  the installed adapters that no run instantiates included.
* `SentOnceCorrect`: `SentOnce`. `VerifiedCorrect`:
  `[]VerifiedOutcomeHasVerifiedSource`.
* `AddressCorrect`: `[]OneRedirectPerEntryIP`. Two attempts of one survey that
  share the address they entered from are entered one after the other, and the
  later one is rejected by its own request's second transaction: until that ran,
  or if its request died before, the row is one that nobody redirects
  (`AddressRow`, `SharedAddress`). The property speaks of addresses known on
  entry; one learned later makes no claim (section 7).
* `CompletionCorrect`: `TolunaCompletionStands`. `ClawbackCorrect`:
  `ClawbackStands`. Both need `TolunaOK`: a Toluna row that is completed, or to
  which any notice has been applied, is finalized in the sense of the browser
  callback (`TolunaFinalized`), so that no callback replaces its outcome.

`SyncSchedule_proofs`. `SingleFlight` is not inductive: the lease is a timer that
no process owns. The invariant adds `WithinLimit` (no process is older than the
time limit) and `LeaseCovers` (the lease has at least as long to run as the
process that holds it has left to live). It needs `TimeLimit <= Floor`, which is
what `config/settings.py` and `tasks.py` have; with a longer limit two runs can
overlap and one can release the other's lease.

* `TypeCorrect`: `[]ScheduleTypeOK`. `RunsApart`: `[]SingleFlight`. Together they are
  `ScheduleCorrect`: `[]ScheduleInv`.
* `NotDueWhileFetchingCorrect`: `NotDueWhileFetching`. It adds `MarkerFresh`: while a run
  reads the inventory the status is queued or running and the marker no older than
  the run. Only the run that holds the lease settles the status, so this rests on
  `SingleFlight`; and it makes the marker awaited because `TimeLimit <= Cutoff`.

`Inventory_proofs`, about three of the components of `MCInventory`; the fourth,
the feed, has `SurveyFeed_proofs`.

* `ConvergenceCorrect`: `RunsConverge` (`InventorySync`). A batched run commits
  batch by batch, so the invariant says what the rows look like half-way through a
  run that nothing has overlapped (`BatchedAlone`): what it has read and written
  carries its marker, every other row an older one. On the other path one
  transaction merges everything, and it is enough that every row is older than the
  run (`MergingAlone`).
* `TolunaTypeCorrect`: `[]TolunaTypeOK`. `FormCorrect`: `[]FormMatchesPayload`
  (`FormOK`). `CloseCorrect`: `CloseSurvivesRun`. The invariant adds `TimeOK` (what
  a run counts as received before it began happened before it fetched),
  `ReplayOK` (what is applied found its survey, what is replayed was received) and
  `CloseOK`, which follows the closes a run's snapshot does not know: before the
  merge they are in force; after it they are, or the merge has touched the survey;
  during the replay they are, or the replay still holds a close. The step in
  between is the listing: the newest applied close is later than the snapshot,
  hence received after the run began, hence listed. `Newest` (a nonempty set of
  events has a greatest one) comes from the library's well-foundedness of `<`.
* `QuietCorrect`: `[]QuietAgrees`. The second half of the invariant concerns the
  run to which nothing happens: whatever was received was processed before it
  began (`NoticesOK`), so its snapshot is Toluna's state and nothing is replayed
  over it (`QuietOK`, `RepairedOK`). A heartbeat leaves the quota row alone, so
  `QuotaOK` must say that a row that is stored is what the newest applied
  notification or the payload says.
* `RegistrationCorrect`: `[]MemberInv`. What Toluna has for a member comes, in
  this order, from the request it has answered, from the one whose row is not
  committed, from the committed row (`SentOK`); which of these there is at most one
  of follows from the cache lock while nobody outlives it (`LockOK`) and from the
  row lock of the open transaction (`WrittenOK`). `AcceptedOK` carries what Toluna
  accepted through the request's steps into the row.
* `InventoryCorrect`, `InventoryStands`: all of it, with the feed's `FeedInv` and
  `InventoryTypesOK`, of `MCSpec`.

`SurveyFeed_proofs`. No lock protects a row of the feed. What a provider gave once
is still so at the provider (`Given`: stamps grow, closed and filled stay); rows,
polls and refreshes carry only what was given (`RowOK`, `PollOK`, `RefreshOK`),
and an Acuity count that reached zero was zero at every poll since (`FilledOK`).

* `FeedCorrect`: `[]FeedInv`.

`Entry_proofs`, about both components of `MCEntry`.

* `StampsCorrect`: `[]InnovateInv`. A stamp can be trusted because every date a
  row has or may come to have (its own, the provider's, the one in a run's hands)
  that the stored collection does not reach makes it stale, unless it went out of
  step where `unnoticed` records it (`NoticedOK`). That rests on `DatesOK` (no date
  known here is later than the provider's) and `ReadOK` (the stamps in a run's
  hands are no later than those stored, so that writing them back only makes
  details stale). `StoredOK` says that a stamp means something was stored.
* `ReuseCorrect`: `[]ReusesAllowed`. `CountsCorrect`: `[]CountsCoverReuses`.
  `VaultCorrect`: `[]VaultSound`. No transaction spans the two databases, so the
  invariant says what a POST has in hand between them. `CountsOK` counts slots
  and visits by the requests that still owe them as well as by the reuses
  committed, so that an undo or a failure between two commits never leaves a reuse
  uncovered; `PostOK` says that the row a request is about to commit or undo
  exists and that the attempt it holds an own UID for has that UID; `DecisionsOK`
  ties a reuse event to the choice stored with its attempt, which the row lock on
  the attempt makes unique; `TargetOK` keeps the month's target, once fixed, what
  the baseline allows.
* `EntryCorrect`: the same of `EntrySpec`.

`BackgroundWork_proofs`. Each component hands a piece of work to one process at a
time, by a means that the process may outlive or die with, and each invariant
says what the holder may still rely on.

* `LockCorrect`: `[]LeaseInv`. A lock has one holder, and a holder's lease has not
  ended (`LockOK`). `NewestKept`: `EntryNeverGoesBack`, since what a builder has
  read is as new as what its key holds until a lease is outlived or the cache
  fails (`ReadOK`).
* `CallbacksCorrect`: `[]CallbackInv`. Until a poll erases a delivery record its
  event does not change (`RecordOK`), a task carries the event of its record
  (`TaskOK`), and one task at a time calls, for a record that is "delivering",
  unless a claim was outlived (`ClaimOK`). `DeliveryFinal`: `DeliveredStands`, which
  speaks of the tasks and excepts what a poll does.
* `ExportsCorrect`: `[]ExportInv`. A new row is known only to the request that
  created it until its task is queued (`AskingOK`); a row that is built is running
  or was deleted meanwhile and has one builder (`BuilderOK`); a file is what its
  row, the clean-up or its builder needs it to be (`FileOK`). It needs that no job
  is the empty job.
* `FinalIdsCorrect`: `[]FinalInv`. What an import has read of the rows it has
  locked stands until it commits (`ReadStands`, from `LocksOK`), and every upload
  number was one transaction (`BegunOK`).
* `JobsCorrect`, `JobsStand`: the same of `JobsSpec`, `JobsNeverGoBack` included.
  A step of the composition is a step of one component and a stutter of the
  others (`JobsSteps`).

`Records_proofs`. It begins with numbers, because the code walks ancestries, rolls
counts up and cuts a window into days, months or hours. `LeastNumber` (a nonempty
set of numbers has a least one) comes from the library's well-foundedness of
strict inclusion among finite sets. From it follow `UpTo` (what holds of 0 and
passes from n - 1 to n holds up to N), induction over sets instead of over
formulas, and `IteratesExist`, that a recursive function of the model which
determines each value from the one before is what its definition says.

* `CacheCorrect`: `[]CacheInv`. What is stored or about to be stored under the
  latest generation was read from committed access, unless a rotation was lost or
  is due (`Latest`); a profile that a request has loaded and not yet used is the
  committed one, unless the request was overtaken (`Profiled`).
* `TreeCorrect`: `[]TreeInv`. While no two edits overlap the row an edit is about
  to save still fits the tree, parent above and children below (`Alone`).
  `PolicyIsNearest`: the walk up an ancestry returns the nearest rule, for any
  depth, cycles included. `RollupCountsOnce`: a member is added once to each unit
  above his own.
* `ScopeCorrect`: `[]ScopeInv`. `ReservationsCorrect`: `ReservationsCovered`.
* `PriceCorrect`: `[]PriceInv`; the two ways of computing a scoped price agree for
  every price and cut, which is arithmetic over the rounding of hundredths.
* `SettingCorrect`: `[]SettingInv`. A verdict is of the row it stands in, a schedule
  within its interval, and links of the token beside them, each unless one of the
  races it is subject to has happened (`VerdictOK`, `IntervalOK`, `LinksOK`). An
  edit between its commits is followed by what it has still to write.
* `AccessCorrect`: `AccessSound`. An external account has no forbidden override
  unless two patches crossed, and a patch at work was admissible for the account
  it loaded (`PatchOK`).
* `ReportsCorrect`: `[]ReportInv`. For every journey that does not move while a
  report is built, the invariant says what each query that has already run has
  counted of it (`SummaryOK`, `SeriesOK`, `TableOK`, `PreviousOK`). That the chart
  adds up to the cards is `BucketsTile`: every instant of a window lies in exactly
  one bucket, be they days, hours or calendar months.
* `ScreenCorrect`: `[]ScreenInv`. RFG's form is what its stored contract says.
  Toluna's rows follow the counts while its form does not: the invariant says that
  the form was built from rules among which, until capacity comes back, are those
  advertised now (`BuiltOK`). `MergedIs`: the ranges sorted and joined cover the
  ages the given ones cover; that the sort exists is `Ranks`, fewer ranges standing
  before an earlier one. `NarrowedIs` says the same of the alias's ranges.
* `RecordsCorrect`, `RecordsStand`: the same of `RecordsSpec`.

What these proofs assume of the constants beyond types: no attempt or job has the
name that stands for "none", the members of the tree are finitely many, the feed
has a worker, clocks that start at 1 may reach it, RFG's quotas are single rules
without a limit below the quota's, and the instants at which months start increase.

Only model-checked: every liveness property (`ReservationSettles`, `SyncResumes`,
`PendingEventSettles`, `JobsSettle`), which is out of the prover's reach. All other
properties of the passing runs are theorems.
No module uses a RECURSIVE operator.

## 7. Observations, and what is not modelled

Met while modelling, beside the four violated runs. None of them breaks a property
as stated, since the properties name them as their exceptions or do not speak of
them.

Respondents and reservations.

* A second POST of a prescreener replaces the captured answers after the
  redirect (`surveys/views.py:2881-2889`; the docstring at
  `surveys/services.py:302-306` says otherwise), and captures an own vault row for
  an attempt that reused a profile. A reuse may be committed after the redirect.
* The address learned after the entry makes no claim (`survey_flow.py:178`).
* Reservations check `survey.remaining`, which only a synchronization changes, and
  keep no count of outstanding units (`vendors/services.py:573`).
* `queue_supplier_result_callback` has no caller in this commit; it is modelled as
  its docstring and tests call it, at any time after a terminal outcome.
* A supplier's event stays pending when its attempt's `callback_at` falls out of the
  dispatcher's lookback or its status leaves the terminal ones
  (`tasks.py:389-400`), and is gone when a late poll replaces the audit whole
  (`services.py:316`, `erased` in `SupplierCallbacks`). An event that the supplier has
  accepted may then be queued again by the next call of
  `queue_supplier_result_callback`, which its docstring (`supplier_callbacks.py:187`)
  excludes; the idempotency key `eventId` is the same.
* `survey_start` calls `build_outbound_url` inside its transaction, holding the
  attempt's row through Toluna's HTTP calls (`views.py:2921-2943`), which the
  comment at `toluna.py:1206-1209` means to avoid. A failed invite therefore rolls
  back the member row and its `last_error` after Toluna has taken the profile, and
  a later submission of the profile before may skip the call on the hash that
  stayed (`doubtful` in `TolunaMembers`).

Inventory and details.

* On the adapter path the inventory's result is stored as settled while the run
  still refreshes details, so the dispatcher queues a second job
  (`provider_services.py:440`, `tasks.py:211`). The lease keeps the runs apart.
* The dispatcher reads all rows, then marks and queues one by one without looking
  again (`tasks.py:229-232`). A run that "sync now" started meanwhile has its marker
  overwritten and gets a duplicate job behind it, which `tasks.py:210` means to
  prevent. `NotDueWhileFetching` says that there is no second one.
* A refresh overtaken by a merge stores older questions and sets the stamp that
  covers the change (`overtaken`).
* InnovateMR stamps a collection when it stores it: a change between answer and
  store goes unnoticed. A run's `bulk_update` writes back stamps it read earlier.
* A refresh of Track or Zamplia can reopen a row that a poll has closed. Every
  Track poll stores a remaining count of 0 (`track_opinion.py:150`), which refuses
  suppliers' entries until a refresh. A Zamplia poll restores the
  whole target (`zamplia.py:197-199`; `docs/vendor-allocation.md:73`).
* UniMarket skips a country it could not read and closes its surveys
  (`docs/synchronization.md:24` excludes that).
* As many failing surveys as a batch holds keep the head of the detail batch and
  starve the others (`provider_services.py:475`).

Forms, records and reports.

* Where quotas name different questions, the form built from all of them can fail
  a respondent who fits an open one (`QualifiedPass` asks that they name the
  same); any of several matching quotas may refuse.
* A conversion of an account and an override for it, each validated on the row it
  read, can cross and leave an external account a forbidden permission; the `records`
  instance has one request at a time, and `AccessSound` excepts what crossed.
* The profile of a request is loaded before it reads the cache generation
  (`accounts/profile_context.py:36`, `access.py:285`). A change committed in between
  leaves a snapshot of the old profile under the new generation until the next
  change or its end of life (`early` in `SharedCache`), although "Signals invalidate
  the shared generation as soon as a role, profile, function or per-user override
  changes" (`access.py:101`).
* An edit of an integration that ends after its first commit, be it that the token
  cannot be encrypted, leaves the new connection with the success and the schedule
  of the old one (`vendors/serializers.py:480-490`, `torn_save` in
  `IntegrationSettings`). A verdict is stored by primary key, whatever connection
  stands in the row by then, and schedules it (`provider_services.py:61`,
  `foreign_verdict`).
* Two edits of one tree, each legal, can together break its hierarchy; a unit
  with members may be deleted.
* Final-ID imports of two clients can deadlock; the repair command can override a
  client's decision for an attempt that matches two clients; a journey completed
  after an accepted import stays undecided.
* The termination report credits early rows by the viewer's scope.

Not modelled: `LocalIdSequence` (one locked counter row); BioBrain's closing by
end date and rehydration of raw questions; the bounded replay batch of Toluna's
notifications over many surveys; several integrations, months or workspaces at
once; the URLs and signatures of redirects and callbacks and the adapters' wire
formats; sessions, passwords and the encryption of secrets; filters, rates and
layout of dashboards and exports; the upstream explorer, which only reads
through; the user interface; deployment, which was read for its concurrency,
restart and time-limit settings. They are conversion, validation of single
requests and presentation: no order of steps matters in them.

Worth doing next: journeys composed with the admission of `SupplierScope`, so that
the price frozen by an entry and the unit it holds are one state.
