---------------------------- MODULE TolunaInventory ----------------------------
(***************************************************************************)
(* One Toluna survey and its quota, written by four parties: inventory      *)
(* runs, detail refreshes (of the sync task and of respondents' requests),  *)
(* the webhook that receives quota-status and survey-closed notifications,  *)
(* and the replay of those notifications that runs and refreshes end with.  *)
(* Toluna sends notifications late, twice and in any order.                 *)
(*                                                                          *)
(* Every upstream change is an event with a number, which is also the       *)
(* occurred_at of the notification it sends.  received_at is only ever      *)
(* compared with the start of a run or with last_seen_at, which is one, so  *)
(* such a time is the set of events received before it.                     *)
(***************************************************************************)
EXTENDS Naturals

CONSTANTS
  Refreshers,  \* processes that refresh details
  Contracts,   \* targeting contracts the survey may have
  MaxEvents    \* bound: upstream changes

ASSUME TolunaInventoryAssumption ==
  /\ Contracts # {}
  /\ MaxEvents \in Nat

Events == 1 .. MaxEvents

VARIABLES
  upstream,  \* what Toluna's inventory says of the survey
  happened,  \* upstream changes so far
  notice,    \* the notification of each event
  survey,    \* the Survey row
  quota,     \* the SurveyQuota row's status
  run,       \* the inventory run in flight
  refresh,   \* each detail refresh in flight
  clean      \* history: a run to which nothing happened has completed, and
             \* neither Toluna nor the webhook has done anything since

tolunaVars == <<upstream, happened, notice, survey, quota, run, refresh, clean>>

Payload == [open : BOOLEAN, contract : Contracts]

Snapshot == [listed : BOOLEAN, raw : Payload]

\* A "silent" event sends nothing and stays "none".
Notice == [kind : {"silent", "closed", "quota"}, live : BOOLEAN,
           state : {"none", "sent", "stored", "applied"}]

SurveyRow ==
  [status   : {"absent", "live", "closed"},
   raw      : Payload,        \* raw_data
   form     : Contracts,      \* what the targeting questions were built from
   details  : BOOLEAN,        \* detail_synced_at IS NOT NULL
   lastSeen : SUBSET Events]  \* last_seen_at

\* The notifications still to reconcile, each once: applied ones, pending ones.
Replay == {r \in [again : SUBSET Events, pending : SUBSET Events] :
             r.again \cap r.pending = {}}

NoReplay == [again |-> {}, pending |-> {}]

Run ==
  [pc       : {"idle", "started", "fetched", "merged", "replaying"},
   start    : SUBSET Events,
   snapshot : Snapshot,
   as_of    : 0 .. MaxEvents,  \* history: the events the snapshot reflects
   touched  : BOOLEAN,         \* whether the survey is among the touched
   replay   : Replay,
   quiet    : BOOLEAN]         \* history: nothing has happened since it began

Refresh ==
  [pc : {"idle", "rebuilt", "replaying"}, seen : SUBSET Events, replay : Replay]

TolunaTypeOK ==
  /\ upstream \in Snapshot
  /\ happened \in 0 .. MaxEvents
  /\ notice \in [Events -> Notice]
  /\ survey \in SurveyRow
  /\ quota \in {"absent", "open", "full"}
  /\ run \in Run
  /\ refresh \in [Refreshers -> Refresh]
  /\ clean \in BOOLEAN

IdleRefresh == [pc |-> "idle", seen |-> {}, replay |-> NoReplay]

TolunaInit ==
  /\ upstream \in Snapshot
  /\ happened = 0
  /\ notice = [n \in Events |-> [kind |-> "silent", live |-> FALSE, state |-> "none"]]
  /\ survey = [status |-> "absent", raw |-> upstream.raw, details |-> FALSE,
               form |-> upstream.raw.contract, lastSeen |-> {}]
  /\ quota = "absent"
  /\ run = [pc |-> "idle", start |-> {}, snapshot |-> upstream, as_of |-> 0,
            touched |-> FALSE, replay |-> NoReplay, quiet |-> FALSE]
  /\ refresh = [d \in Refreshers |-> IdleRefresh]
  /\ clean = FALSE

InInventory == survey.status # "absent"

QuotaOf(raw) == IF raw.open THEN "open" ELSE "full"

\* The notifications that have a row.
Received == {n \in Events : notice[n].state \in {"stored", "applied"}}

\* History: what just happened may disagree with the run in flight.
Disturbed == /\ clean' = FALSE
             /\ run' = [run EXCEPT !.quiet = FALSE]

-----------------------------------------------------------------------------
(* Toluna *)

Happen(now, kind, live) ==
  /\ happened < MaxEvents
  /\ happened' = happened + 1
  /\ upstream' = now
  /\ notice' = [notice EXCEPT ![happened + 1] =
                  [kind |-> kind, live |-> live,
                   state |-> IF kind = "silent" THEN "none" ELSE "sent"]]
  /\ Disturbed
  /\ UNCHANGED <<survey, quota, refresh>>

QuotaChanges ==
  LET live == ~upstream.raw.open
  IN  Happen([upstream EXCEPT !.raw.open = live], "quota", live)

SurveyCloses ==
  /\ upstream.listed
  /\ Happen([upstream EXCEPT !.listed = FALSE], "closed", FALSE)

\* Neither a reopened survey nor new targeting is notified.
SurveyReopens ==
  /\ ~upstream.listed
  /\ Happen([upstream EXCEPT !.listed = TRUE], "silent", FALSE)

TargetingChanges ==
  \E c \in Contracts \ {upstream.raw.contract} :
    Happen([upstream EXCEPT !.raw.contract = c], "silent", FALSE)

-----------------------------------------------------------------------------
(* Notifications *)

\* The first transaction of ingest_toluna_notification.
Store(n) ==
  /\ notice[n].state = "sent"
  /\ notice' = [notice EXCEPT ![n].state = "stored"]
  /\ Disturbed
  /\ UNCHANGED <<upstream, happened, survey, quota, refresh>>

\* Faulty: the notification reconciled last counts.
NoneNewer(n) == FALSE

\* _newer_applied_quota_notification_exists
NewerApplied(n) ==
  \E m \in Events :
    m > n /\ notice[m].kind = "quota" /\ notice[m].state = "applied"

\* _reconcile_notification: apply, and store whether it applied; a notification
\* that found no survey or no quota row is (again) pending.
Reconcile(n) ==
  LET applies == InInventory /\ (notice[n].kind = "quota" => quota # "absent")
  IN
  /\ notice' = [notice EXCEPT ![n].state = IF applies THEN "applied" ELSE "stored"]
  /\ survey' = IF applies /\ notice[n].kind = "closed"
                 THEN [survey EXCEPT !.status = "closed"] ELSE survey
  /\ quota' = IF applies /\ notice[n].kind = "quota" /\ ~NewerApplied(n)
                THEN IF notice[n].live THEN "open" ELSE "full"
                ELSE quota

\* The second transaction of the first delivery, or a duplicate delivery; an
\* applied notification is left alone.
Deliver(n) ==
  /\ notice[n].state = "stored"
  /\ Reconcile(n)
  /\ Disturbed
  /\ UNCHANGED <<upstream, happened, refresh>>

\* Faulty: only quota notifications are applied again.
AgainQuota(before) ==
  {n \in Received \ before : notice[n].kind = "quota" /\ notice[n].state = "applied"
                               /\ ~NewerApplied(n)}

\* Faulty: it does not matter whether the newest has been applied.
AgainAny(before) ==
  {n \in Received \ before :
     \A m \in Received : notice[m].kind = notice[n].kind => m <= n}

\* _latest_applied_operational_ids: of each kind the newest applied one, unless
\* it was received before the boundary.
Again(before) ==
  {n \in Received \ before :
     /\ notice[n].state = "applied"
     /\ \A m \in Events :
          notice[m].kind = notice[n].kind /\ notice[m].state = "applied" => m <= n}

ReplayFrom(before) ==
  [again |-> Again(before), pending |-> {n \in Events : notice[n].state = "stored"}]

\* Applied ones first, then pending ones by occurred_at.
Upcoming(replay) ==
  IF replay.again # {} THEN replay.again
  ELSE {n \in replay.pending : \A m \in replay.pending : n <= m}

Without(replay, n) ==
  [again |-> replay.again \ {n}, pending |-> replay.pending \ {n}]

-----------------------------------------------------------------------------
(* sync_client_integration *)

AllProcessed == \A n \in Events : notice[n].state \in {"none", "applied"}

StartRun ==
  /\ run.pc = "idle"
  /\ run' = [run EXCEPT !.pc = "started", !.start = Received,
                        !.quiet = AllProcessed /\ \A d \in Refreshers :
                                                    refresh[d].pc = "idle"]
  /\ UNCHANGED <<upstream, happened, notice, survey, quota, refresh, clean>>

Fetch ==
  /\ run.pc = "started"
  /\ run' = [run EXCEPT !.pc = "fetched", !.snapshot = upstream, !.as_of = happened]
  /\ UNCHANGED <<upstream, happened, notice, survey, quota, refresh, clean>>

\* Faulty: a new contract keeps the details.
DetailsKept(raw) == survey.details /\ quota # "absent"

\* A changed contract makes the details stale, and so does a missing quota row.
DetailsAfter(raw) ==
  survey.details /\ raw.contract = survey.raw.contract /\ quota # "absent"

\* A survey new to the inventory, one whose payload or status differs from the
\* snapshot's, one that only gets the heartbeat, and one that is missing.
Create(raw) ==
  /\ ~InInventory
  /\ survey' = [survey EXCEPT !.status = "live", !.raw = raw, !.lastSeen = run.start]
  /\ UNCHANGED quota

Differs(raw) == survey.raw # raw \/ survey.status # "live"

Update(raw) ==
  /\ InInventory
  /\ Differs(raw)
  /\ survey' = [survey EXCEPT !.status = "live", !.raw = raw, !.lastSeen = run.start,
                              !.details = DetailsAfter(raw)]
  /\ quota' = IF quota # "absent" /\ raw.contract = survey.raw.contract
                THEN QuotaOf(raw) ELSE quota

Heartbeat(raw) ==
  /\ InInventory
  /\ ~Differs(raw)
  /\ survey' = [survey EXCEPT !.lastSeen = run.start]
  /\ UNCHANGED quota

CloseMissing ==
  /\ survey' = IF survey.status = "live" THEN [survey EXCEPT !.status = "closed"]
               ELSE survey
  /\ UNCHANGED quota

\* The merge, one transaction.
Merge ==
  LET raw == run.snapshot.raw IN
  /\ run.pc = "fetched"
  /\ \/ /\ run.snapshot.listed
        /\ Create(raw) \/ Update(raw) \/ Heartbeat(raw)
     \/ /\ ~run.snapshot.listed
        /\ CloseMissing
  /\ run' = [run EXCEPT !.pc = "merged",
                        !.touched = run.snapshot.listed /\ (~InInventory \/ Differs(raw))]
  /\ UNCHANGED <<upstream, happened, notice, refresh, clean>>

\* The replay lists its notifications once ...
ListReplay ==
  /\ run.pc = "merged"
  /\ run' = [run EXCEPT !.pc = "replaying",
                        !.replay = IF run.touched THEN ReplayFrom(run.start) ELSE NoReplay]
  /\ UNCHANGED <<upstream, happened, notice, survey, quota, refresh, clean>>

\* ... and reconciles each in a transaction of its own.
ReplayOne ==
  /\ run.pc = "replaying"
  /\ \E n \in Upcoming(run.replay) :
       /\ Reconcile(n)
       /\ run' = [run EXCEPT !.replay = Without(@, n)]
  /\ UNCHANGED <<upstream, happened, refresh, clean>>

FinishRun ==
  /\ run.pc = "replaying"
  /\ run.replay = NoReplay
  /\ run' = [run EXCEPT !.pc = "idle", !.touched = FALSE]
  /\ clean' = (clean \/ run.quiet)
  /\ UNCHANGED <<upstream, happened, notice, survey, quota, refresh>>

\* A provider error, a kill: what is committed stays, the replay is lost.
FailRun ==
  /\ run.pc # "idle"
  /\ run' = [run EXCEPT !.pc = "idle", !.touched = FALSE, !.replay = NoReplay]
  /\ UNCHANGED <<upstream, happened, notice, survey, quota, refresh, clean>>

-----------------------------------------------------------------------------
(* TolunaProvider.refresh_details *)

\* Under the survey's row lock questions and quotas are rebuilt from raw_data.
Rebuild(d) ==
  /\ refresh[d].pc = "idle"
  /\ InInventory
  /\ survey' = [survey EXCEPT !.form = survey.raw.contract, !.details = TRUE]
  /\ quota' = QuotaOf(survey.raw)
  /\ refresh' = [refresh EXCEPT ![d].pc = "rebuilt", ![d].seen = survey.lastSeen]
  /\ run' = [run EXCEPT !.quiet = FALSE]
  /\ UNCHANGED <<upstream, happened, notice, clean>>

\* After the lock is released, with the last_seen_at read under it.
ListReplayAfter(d) ==
  /\ refresh[d].pc = "rebuilt"
  /\ refresh' = [refresh EXCEPT ![d].pc = "replaying",
                                ![d].replay = ReplayFrom(refresh[d].seen)]
  /\ UNCHANGED <<upstream, happened, notice, survey, quota, run, clean>>

ReplayOneAfter(d) ==
  /\ refresh[d].pc = "replaying"
  /\ \E n \in Upcoming(refresh[d].replay) :
       /\ Reconcile(n)
       /\ refresh' = [refresh EXCEPT ![d].replay = Without(@, n)]
  /\ UNCHANGED <<upstream, happened, run, clean>>

FinishRefresh(d) ==
  /\ refresh[d].pc = "replaying"
  /\ refresh[d].replay = NoReplay
  /\ refresh' = [refresh EXCEPT ![d] = IdleRefresh]
  /\ UNCHANGED <<upstream, happened, notice, survey, quota, run, clean>>

\* The process dies after the rebuild has committed.
FailRefresh(d) ==
  /\ refresh[d].pc # "idle"
  /\ refresh' = [refresh EXCEPT ![d] = IdleRefresh]
  /\ UNCHANGED <<upstream, happened, notice, survey, quota, run, clean>>

-----------------------------------------------------------------------------

Provider == QuotaChanges \/ SurveyCloses \/ SurveyReopens \/ TargetingChanges

Webhook == \E n \in Events : Store(n) \/ Deliver(n)

Sync == StartRun \/ Fetch \/ Merge \/ ListReplay \/ ReplayOne \/ FinishRun \/ FailRun

Details(d) ==
  Rebuild(d) \/ ListReplayAfter(d) \/ ReplayOneAfter(d) \/ FinishRefresh(d)
    \/ FailRefresh(d)

TolunaNext == Provider \/ Webhook \/ Sync \/ \E d \in Refreshers : Details(d)

TolunaSpec == TolunaInit /\ [][TolunaNext]_tolunaVars

-----------------------------------------------------------------------------
(* Properties *)

(***************************************************************************)
(* The page that is served while details are not stale asks what the stored *)
(* payload targets: every merge that changes the contract makes the details *)
(* stale, and every rebuild reads the payload under the lock.               *)
(***************************************************************************)
FormMatchesPayload ==
  survey.details => survey.form = survey.raw.contract

(***************************************************************************)
(* Whatever notifications came late, twice, out of order or never reached   *)
(* their replay, a run that starts when all are processed, and that nothing *)
(* disturbs, leaves the rows as Toluna has them: the survey is live iff it  *)
(* is listed, and its quota row says what Toluna says unless the details    *)
(* are stale.  Later runs and refreshes, failed ones too, keep it so.       *)
(***************************************************************************)
QuietAgrees ==
  clean => /\ survey.status = "live" <=> upstream.listed
           /\ upstream.listed /\ survey.details => quota = QuotaOf(upstream.raw)

(***************************************************************************)
(* A run never ends with a survey live that Toluna closed, and told us so,  *)
(* after the run's snapshot was taken: its replay closes again what its     *)
(* merge has reopened, whatever refreshes and notifications came between.   *)
(***************************************************************************)
CloseSurvivesRun ==
  [][FinishRun =>
       \A n \in Events :
         /\ n > run.as_of
         /\ notice[n].kind = "closed"
         /\ notice[n].state = "applied"
         => survey.status = "closed"]_tolunaVars
=============================================================================
