------------------------------ MODULE SurveyFeed ------------------------------
(***************************************************************************)
(* The installed supply adapters: what a poll of the inventory and a        *)
(* refresh of the details write into a survey's row, its questions and its  *)
(* quota.  The poll merges in one transaction; a refresh makes several      *)
(* calls and replaces the details in one transaction at the end.  Both run  *)
(* from the worker, and a refresh from the request of a respondent or of an *)
(* operator as well, with nothing held between its read and its write.      *)
(***************************************************************************)
EXTENDS Naturals, FiniteSets

CONSTANTS
  Surveys,        \* primary keys, in their order
  Markets,        \* country codes of the inventory calls
  MarketOf,       \* the market of each survey
  Adapters,       \* provider codes to consider
  DetailWorkers,     \* details being refreshed at the same time
  Broken,         \* surveys whose detail calls always fail
  DetailBatch,    \* surveys that one task refreshes
  MaxRevisions,   \* bound: changes at the provider
  MaxFeedFaults   \* bound: calls that fail

ASSUME FeedAssumption ==
  /\ Surveys \subseteq Nat
  /\ MarketOf \in [Surveys -> Markets]
  /\ Adapters \subseteq {"zamplia", "unimarket", "track", "acuity", "rfg"}
  /\ Broken \subseteq Surveys
  /\ DetailWorkers # {}   \* the worker's own task is always one of them
  /\ DetailBatch \in Nat \ {0}
  /\ MaxRevisions \in Nat
  /\ MaxFeedFaults \in Nat

VARIABLES
  adapter,   \* the integration's provider code
  offer,     \* what the provider offers now
  listing,   \* the Survey rows
  details,   \* their TargetingQuestion and SurveyQuota rows
  poll,      \* the inventory run
  batch,     \* surveys that the detail task has still to refresh
  detailWork,   \* the refreshes in progress
  overtaken, \* history: details written by a refresh older than the row
  revisions, \* changes at the provider so far
  feedFaults \* failed calls so far

feedVars == <<adapter, offer, listing, details, poll, batch, detailWork, overtaken,
              revisions, feedFaults>>

Revision == 0 .. MaxRevisions

\* The completes every survey asks for; a survey has some or none left.
Target == 1
Left   == 0 .. Target

\* "stamp" stands for source_modified_at and the provider's other time stamps,
\* "open" for the status it gives.
FeedPayload == [stamp : Revision, left : Left, open : BOOLEAN]

NoPayload == [stamp |-> 0, left |-> 0, open |-> FALSE]

FeedRow ==
  [status : {"absent", "live", "closed"}, remaining : Left, raw : FeedPayload,
   synced : BOOLEAN]

NoRefresh == [pc |-> "idle", survey |-> 0, read |-> NoPayload, capacity |-> 0,
              detail |-> NoPayload, asked |-> 0, left |-> 0]

NoPoll == [pc |-> "idle", todo |-> {}, failed |-> {},
           found |-> {}, seen |-> [s \in Surveys |-> NoPayload]]

FeedTypeOK ==
  /\ adapter \in Adapters
  /\ offer \in [Surveys -> FeedPayload]
  /\ listing \in [Surveys -> FeedRow]
  /\ details \in [Surveys -> [asked : Revision, left : Left]]
  /\ poll \in [pc : {"idle", "calling"}, todo : SUBSET Markets,
               failed : SUBSET Markets, found : SUBSET Surveys,
               seen : [Surveys -> FeedPayload]]
  /\ batch \subseteq Surveys
  /\ detailWork \in [DetailWorkers ->
                    [pc : {"idle", "survey", "questions", "quotas", "persist"},
                     survey : Surveys \cup {0}, read : FeedPayload,
                     capacity : Left, detail : FeedPayload,
                     asked : Revision, left : Left]]
  /\ overtaken \subseteq Surveys
  /\ revisions \in 0 .. MaxRevisions
  /\ feedFaults \in 0 .. MaxFeedFaults

FeedInit ==
  /\ adapter \in Adapters
  /\ offer = [s \in Surveys |-> [open |-> TRUE, stamp |-> 0, left |-> Target]]
  /\ listing = [s \in Surveys |->
                  [status |-> "absent", remaining |-> 0,
                   raw |-> NoPayload, synced |-> FALSE]]
  /\ details = [s \in Surveys |-> [asked |-> 0, left |-> 0]]
  /\ poll = NoPoll
  /\ batch = {}
  /\ detailWork = [w \in DetailWorkers |-> NoRefresh]
  /\ overtaken = {}
  /\ revisions = 0
  /\ feedFaults = 0

-----------------------------------------------------------------------------
(* The provider *)

\* Targeting is edited: the survey gets a new stamp.
Revise(s) ==
  /\ revisions < MaxRevisions
  /\ revisions' = revisions + 1
  /\ offer' = [offer EXCEPT ![s].stamp = revisions + 1]
  /\ UNCHANGED <<adapter, listing, details, poll, batch, detailWork, overtaken,
                 feedFaults>>

\* The last complete arrives, or the survey is withdrawn; no stamp changes.
Exhaust(s) ==
  /\ revisions < MaxRevisions
  /\ revisions' = revisions + 1
  /\ \/ offer' = [offer EXCEPT ![s].left = 0]
     \/ offer' = [offer EXCEPT ![s].open = FALSE]
  /\ UNCHANGED <<adapter, listing, details, poll, batch, detailWork, overtaken,
                 feedFaults>>

-----------------------------------------------------------------------------
(* inventory and sync_client_integration *)

\* One call lists everything, except at UniMarket, which is asked by country.
Calls == IF adapter = "unimarket" THEN {{m} : m \in Markets} ELSE {Markets}

StartPoll ==
  /\ poll.pc = "idle"
  /\ poll' = [NoPoll EXCEPT !.pc = "calling", !.todo = Markets]
  /\ UNCHANGED <<adapter, offer, listing, details, batch, detailWork, overtaken,
                 revisions, feedFaults>>

\* Zamplia and RFG may still list a survey that they have closed.
ListsClosed == adapter \in {"zamplia", "rfg"}

AnswerCall(ms) ==
  LET asked == {s \in Surveys : MarketOf[s] \in ms}
      live  == {s \in asked : offer[s].open}
  IN
  /\ poll.pc = "calling"
  /\ ms \in Calls /\ ms \subseteq poll.todo
  /\ \E now \in SUBSET asked :
       /\ live \subseteq now
       /\ now = live \/ ListsClosed
       /\ poll' = [poll EXCEPT
                     !.todo = @ \ ms,
                     !.found = @ \cup now,
                     !.seen = [s \in Surveys |-> IF s \in now THEN offer[s] ELSE @[s]]]
  /\ UNCHANGED <<adapter, offer, listing, details, batch, detailWork, overtaken,
                 revisions, feedFaults>>

\* Faulty: an adapter's failed call reads as an empty list.
AfterFailureEmpty(ms) ==
  IF adapter = "unimarket"
    THEN [poll EXCEPT !.todo = @ \ ms, !.failed = @ \cup ms]
    ELSE [poll EXCEPT !.todo = @ \ ms]

\* UniMarket goes on with the next country; any other adapter's run fails.
AfterFailure(ms) ==
  IF adapter = "unimarket"
    THEN [poll EXCEPT !.todo = @ \ ms, !.failed = @ \cup ms]
    ELSE NoPoll

CallFails(ms) ==
  /\ poll.pc = "calling"
  /\ ms \in Calls /\ ms \subseteq poll.todo
  /\ feedFaults < MaxFeedFaults
  /\ feedFaults' = feedFaults + 1
  /\ poll' = AfterFailure(ms)
  /\ UNCHANGED <<adapter, offer, listing, details, batch, detailWork, overtaken,
                 revisions>>

\* The run fails when no call has found anything and some have failed.
GiveUp ==
  /\ poll.pc = "calling" /\ poll.todo = {}
  /\ poll.found = {} /\ poll.failed # {}
  /\ poll' = NoPoll
  /\ UNCHANGED <<adapter, offer, listing, details, batch, detailWork, overtaken,
                 revisions, feedFaults>>

\* normalize_inventory_item of each adapter.  Zamplia's inventory has no count of
\* completes and Track Opinion's no count at all; UniMarket has no status.
StatusOf(live) == IF live THEN "live" ELSE "closed"

ZampliaItem(p) == [status |-> StatusOf(p.open), remaining |-> Target]

\* Faulty: an inventory without a count is taken for one with all of its target.
TrackItemFull(p) == [status |-> "live", remaining |-> Target]

TrackItem(p) == [status |-> "live", remaining |-> 0]

AcuityItem(p) == [status |-> "live", remaining |-> p.left]

\* Faulty: the provider's own word is stored.
UniMarketItemRaw(p) == [status |-> IF p.left > 0 THEN "live" ELSE "full", remaining |-> p.left]

UniMarketItem(p) == [status |-> StatusOf(p.left > 0), remaining |-> p.left]

RfgItem(p) == [status |-> StatusOf(p.open), remaining |-> p.left]

InventoryItem(p) ==
  CASE adapter = "zamplia"   -> ZampliaItem(p)
    [] adapter = "track"     -> TrackItem(p)
    [] adapter = "acuity"    -> AcuityItem(p)
    [] adapter = "unimarket" -> UniMarketItem(p)
    [] adapter = "rfg"       -> RfgItem(p)

\* detail_signature: Zamplia's has the status too.
Signature(p) == IF adapter = "zamplia" THEN <<p.stamp, p.open>> ELSE <<p.stamp>>

\* Faulty: a row that changed keeps the details it has.
StillSyncedAlways(s) == listing[s].synced

StillSynced(s) == listing[s].synced /\ Signature(listing[s].raw) = Signature(poll.seen[s])

Unlisted == {s \in Surveys \ poll.found : listing[s].status = "live"}

\* The merge writes every row found and closes the live rows not found.
MergePoll ==
  /\ poll.pc = "calling" /\ poll.todo = {}
  /\ poll.found # {} \/ poll.failed = {}
  /\ listing' = [s \in Surveys |->
       IF s \in poll.found
         THEN [status    |-> InventoryItem(poll.seen[s]).status,
               remaining |-> InventoryItem(poll.seen[s]).remaining,
               raw       |-> poll.seen[s],
               synced    |-> StillSynced(s)]
         ELSE IF s \in Unlisted THEN [listing[s] EXCEPT !.status = "closed"]
         ELSE listing[s]]
  /\ overtaken' = {s \in overtaken : listing'[s].synced}
  /\ poll' = NoPoll
  /\ UNCHANGED <<adapter, offer, details, batch, detailWork, revisions, feedFaults>>

-----------------------------------------------------------------------------
(* refresh_details *)

Waiting == {s \in Surveys : listing[s].status = "live" /\ ~listing[s].synced}

\* order_by("-source_modified_at", "pk")
Before(s, t) ==
  \/ listing[s].raw.stamp > listing[t].raw.stamp
  \/ listing[s].raw.stamp = listing[t].raw.stamp /\ s < t

\* Faulty: the batch is one survey short.
FirstOfShort == {s \in Waiting : Cardinality({t \in Waiting : Before(t, s)}) + 1 < DetailBatch}

FirstOf == {s \in Waiting : Cardinality({t \in Waiting : Before(t, s)}) < DetailBatch}

\* refresh_client_integration_details, under the lease of its integration.
StartBatch ==
  /\ batch = {}
  /\ Waiting # {}
  /\ batch' = FirstOf
  /\ UNCHANGED <<adapter, offer, listing, details, poll, detailWork, overtaken,
                 revisions, feedFaults>>

\* Zamplia asks for the survey first.
FirstCall == IF adapter = "zamplia" THEN "survey" ELSE "questions"

Reading(w, s) ==
  detailWork' = [detailWork EXCEPT ![w] =
                [NoRefresh EXCEPT !.pc = FirstCall, !.survey = s,
                             !.read = listing[s].raw,
                             !.capacity = listing[s].remaining]]

TaskWorker == CHOOSE w \in DetailWorkers : TRUE

NextOfBatch(s) ==
  /\ s \in batch
  /\ detailWork[TaskWorker].pc = "idle"
  /\ Reading(TaskWorker, s)
  /\ batch' = batch \ {s}
  /\ UNCHANGED <<adapter, offer, listing, details, poll, overtaken, revisions,
                 feedFaults>>

\* survey_start, quotas and targeting refresh a stale survey on demand.
RefreshOnDemand(w, s) ==
  /\ w # TaskWorker
  /\ detailWork[w].pc = "idle"
  /\ listing[s].status = "live" /\ ~listing[s].synced
  /\ Reading(w, s)
  /\ UNCHANGED <<adapter, offer, listing, details, poll, batch, overtaken,
                 revisions, feedFaults>>

\* GetSurveyById; without an answer the stored payload stands in for it.
AskSurvey(w) ==
  LET r == detailWork[w] IN
  /\ r.pc = "survey"
  /\ r.survey \notin Broken
  /\ \E detail \in {offer[r.survey]} \cup IF offer[r.survey].open THEN {} ELSE {r.read} :
       detailWork' = [detailWork EXCEPT ![w].pc = "questions", ![w].detail = detail]
  /\ UNCHANGED <<adapter, offer, listing, details, poll, batch, overtaken,
                 revisions, feedFaults>>

\* The qualifications, as of the stamp they belong to: Acuity's are those of the
\* row read, everybody else's are asked for.
AcuityQuestions(r)   == r.read.stamp
UpstreamQuestions(r) == offer[r.survey].stamp

\* RFG's quotas come with its targeting.
AskQuestions(w) ==
  LET r == detailWork[w] IN
  /\ r.pc = "questions"
  /\ r.survey \notin Broken
  /\ detailWork' = [detailWork EXCEPT ![w].pc = "quotas",
                   ![w].asked = IF adapter = "acuity" THEN AcuityQuestions(r)
                                                      ELSE UpstreamQuestions(r),
                   ![w].left = offer[r.survey].left]
  /\ UNCHANGED <<adapter, offer, listing, details, poll, batch, overtaken,
                 revisions, feedFaults>>

\* The remaining counts that the quota rows may be given.
ZampliaQuota(r)   == {offer[r.survey].left}
TrackQuota(r)     == {offer[r.survey].left}
AcuityQuota(r)    == {r.read.left}
\* Without quotas, the remaining count of the row that was read.
UniMarketQuota(r) == {r.capacity, offer[r.survey].left}
RfgQuota(r)       == {r.left}

QuotaCounts(r) ==
  CASE adapter = "zamplia"   -> ZampliaQuota(r)
    [] adapter = "track"     -> TrackQuota(r)
    [] adapter = "acuity"    -> AcuityQuota(r)
    [] adapter = "unimarket" -> UniMarketQuota(r)
    [] adapter = "rfg"       -> RfgQuota(r)

AskQuotas(w) ==
  /\ detailWork[w].pc = "quotas"
  /\ \E left \in QuotaCounts(detailWork[w]) :
       detailWork' = [detailWork EXCEPT ![w].pc = "persist", ![w].left = left]
  /\ UNCHANGED <<adapter, offer, listing, details, poll, batch, overtaken,
                 revisions, feedFaults>>

\* Whatever call fails, nothing has been written.
RefreshFails(w) ==
  /\ \/ detailWork[w].pc = FirstCall /\ detailWork[w].survey \in Broken
        /\ UNCHANGED feedFaults
     \/ detailWork[w].pc \in {"survey", "questions", "quotas"}
        /\ detailWork[w].survey \notin Broken
        /\ feedFaults < MaxFeedFaults
        /\ feedFaults' = feedFaults + 1
  /\ detailWork' = [detailWork EXCEPT ![w] = NoRefresh]
  /\ UNCHANGED <<adapter, offer, listing, details, poll, batch, overtaken,
                 revisions>>

\* survey_updates of each adapter; UniMarket and RFG leave these fields alone.
ZampliaUpdates(row, r) ==
  [row EXCEPT !.remaining = r.left, !.status = StatusOf(r.detail.open),
              !.raw = [r.detail EXCEPT !.left = r.left]]

TrackUpdates(row, r) == [row EXCEPT !.remaining = r.left, !.status = StatusOf(r.left > 0)]

AcuityUpdates(row, r) == [row EXCEPT !.remaining = r.left]

Updated(row, r) ==
  CASE adapter = "zamplia" -> ZampliaUpdates(row, r)
    [] adapter = "track"   -> TrackUpdates(row, r)
    [] adapter = "acuity"  -> AcuityUpdates(row, r)
    [] OTHER               -> row

\* "overtaken" notes a row that a merge has changed since the refresh read it.
PersistDetails(w) ==
  LET r == detailWork[w] IN
  /\ r.pc = "persist"
  /\ details' = [details EXCEPT ![r.survey] = [asked |-> r.asked, left |-> r.left]]
  /\ listing' = [listing EXCEPT ![r.survey] = [Updated(listing[r.survey], r) EXCEPT !.synced = TRUE]]
  /\ overtaken' = IF listing'[r.survey].raw.stamp # r.read.stamp
                     /\ adapter # "zamplia"
                    THEN overtaken \cup {r.survey} ELSE overtaken \ {r.survey}
  /\ detailWork' = [detailWork EXCEPT ![w] = NoRefresh]
  /\ UNCHANGED <<adapter, offer, poll, batch, revisions, feedFaults>>

-----------------------------------------------------------------------------

RefreshSteps(w) ==
  \/ AskSurvey(w) \/ AskQuestions(w) \/ AskQuotas(w) \/ RefreshFails(w)
  \/ PersistDetails(w)

FeedNext ==
  \/ StartPoll \/ GiveUp \/ MergePoll \/ StartBatch
  \/ \E ms \in SUBSET Markets : AnswerCall(ms) \/ CallFails(ms)
  \/ \E s \in Surveys :
       \/ Revise(s) \/ Exhaust(s) \/ NextOfBatch(s)
       \/ \E w \in DetailWorkers : RefreshOnDemand(w, s)
  \/ \E w \in DetailWorkers : RefreshSteps(w)

\* The detail task runs every minute, goes through its batch, and every
\* provider call ends by its timeout.
FeedFairness ==
  /\ WF_feedVars(StartBatch)
  /\ WF_feedVars(\E s \in Surveys : NextOfBatch(s))
  /\ \A w \in DetailWorkers : WF_feedVars(RefreshSteps(w))

FeedSpec == FeedInit /\ [][FeedNext]_feedVars /\ FeedFairness

-----------------------------------------------------------------------------
(* Properties *)

(***************************************************************************)
(* The questions of a survey whose details count as fresh are at least as   *)
(* new as the inventory its row shows, however polls and refreshes          *)
(* interleave, unless the refresh that wrote them was overtaken: then       *)
(* detail_synced_at covers the change that the merge had just announced.    *)
(***************************************************************************)
FreshDetailsCurrent ==
  \A s \in Surveys :
    listing[s].synced /\ s \notin overtaken
      => details[s].asked >= listing[s].raw.stamp

(***************************************************************************)
(* A row is closed only when the provider has withdrawn the survey or has   *)
(* nothing left of it: a poll that cannot be read closes nothing.  The      *)
(* exception is UniMarket, which skips a country that cannot be read and    *)
(* then closes its surveys (docs/synchronization.md: "a partial upstream    *)
(* response cannot incorrectly close surveys").                             *)
(***************************************************************************)
ClosedIsOver ==
  \A s \in Surveys :
    listing[s].status = "closed" =>
      \/ ~offer[s].open
      \/ offer[s].left = 0
      \/ adapter = "unimarket" /\ feedFaults > 0

(***************************************************************************)
(* A live survey without current details gets them, or is closed, while     *)
(* fewer surveys than one batch holds keep failing.                         *)
(***************************************************************************)
DetailsArrive ==
  \A s \in Surveys \ Broken :
    s \in Waiting ~> (listing[s].synced \/ listing[s].status # "live")

(***************************************************************************)
(* docs/vendor-allocation.md: capacity is available only when the upstream  *)
(* survey's remaining count is positive.  Once a refresh has stored that    *)
(* nothing is left, the count that reservations read says so too, and no    *)
(* later poll brings it back.  Not so for Zamplia, whose polls restore the  *)
(* whole target, and for RFG and UniMarket, whose refreshes leave the count *)
(* to the next poll.                                                        *)
(***************************************************************************)
FilledIsRefused ==
  adapter \in {"track", "acuity"} =>
    \A s \in Surveys :
      listing[s].synced /\ details[s].left = 0 => listing[s].remaining = 0

(***************************************************************************)
(* What readers rely on in the rows of an adapter's survey: its questions,  *)
(* its status and its remaining count.                                      *)
(***************************************************************************)
FeedInv == FreshDetailsCurrent /\ ClosedIsOver /\ FilledIsRefused
=============================================================================
