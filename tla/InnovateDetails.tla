---------------------------- MODULE InnovateDetails ----------------------------
(***************************************************************************)
(* Quotas and targeting of InnovateMR and BioBrain surveys.  The two are    *)
(* fetched and replaced one after the other, each in a transaction of its   *)
(* own, and each has its own time stamp; a survey is due for a refresh when *)
(* a stamp is missing or older than the provider's modifiedDate.  The task, *)
(* an operator's request and a respondent's entry refresh with no lock, and *)
(* the inventory run writes back whole rows that it read before.            *)
(***************************************************************************)
EXTENDS Naturals

CONSTANTS
  Studies,         \* surveys of the integration
  Fetchers,        \* refreshes in progress at the same time
  LastHour,        \* bound: clock readings
  MaxFetchFaults   \* bound: calls that fail

ASSUME InnovateAssumption ==
  /\ Studies # {}
  /\ LastHour \in Nat \ {0}
  /\ MaxFetchFaults \in Nat

VARIABLES
  hour,        \* the time, at the provider and here
  modified,    \* the provider's modifiedDate of each survey
  study,       \* the stamps of the Survey rows
  stored,      \* the date of the quotas and the targeting that are stored
  inventory,   \* the inventory run
  fetch,       \* the refreshes
  unnoticed,   \* history: what was replaced by, or stamped over, something older
  fetchFaults

innovateVars == <<hour, modified, study, stored, inventory, fetch, unnoticed, fetchFaults>>

Hours == 1 .. LastHour

\* 0 stands for NULL and for details that have never been stored.
Stamp == 0 .. LastHour

Collections == {"quotas", "targeting"}

StudyRow == [known : BOOLEAN, modified : Stamp, synced : [Collections -> Stamp], detail : Stamp]

NoStudy == [known |-> FALSE, modified |-> 0, synced |-> [c \in Collections |-> 0], detail |-> 0]

NoFetch == [pc |-> "idle", study |-> CHOOSE s \in Studies : TRUE, collection |-> "quotas",
            both |-> FALSE, reply |-> 0]

NoInventory == [pc |-> "idle", payload |-> [s \in Studies |-> 0],
                read |-> [s \in Studies |-> NoStudy]]

InnovateTypeOK ==
  /\ hour \in Hours
  /\ modified \in [Studies -> Hours]
  /\ study \in [Studies -> StudyRow]
  /\ \A s \in Studies, c \in Collections : study[s].synced[c] =< hour
  /\ stored \in [Studies -> [Collections -> Stamp]]
  /\ inventory \in [pc : {"idle", "fetched", "read"}, payload : [Studies -> Stamp],
                    read : [Studies -> StudyRow]]
  /\ fetch \in [Fetchers ->
                 [pc : {"idle", "ask", "store", "look", "stamp"}, study : Studies,
                  collection : Collections, both : BOOLEAN, reply : Stamp]]
  /\ \A w \in Fetchers : fetch[w].pc \in {"look", "stamp"} => fetch[w].both
  /\ unnoticed \subseteq Studies \X Collections
  /\ fetchFaults \in 0 .. MaxFetchFaults

InnovateInit ==
  /\ hour = 1
  /\ modified = [s \in Studies |-> 1]
  /\ study = [s \in Studies |-> NoStudy]
  /\ stored = [s \in Studies |-> [c \in Collections |-> 0]]
  /\ inventory = NoInventory
  /\ fetch = [w \in Fetchers |-> NoFetch]
  /\ unnoticed = {}
  /\ fetchFaults = 0

-----------------------------------------------------------------------------
(* The provider *)

HourPasses ==
  /\ hour < LastHour
  /\ hour' = hour + 1
  /\ UNCHANGED <<modified, study, stored, inventory, fetch, unnoticed, fetchFaults>>

\* A change within the unit of time of a stamp already given goes unnoticed.
ProviderModifies(s) ==
  /\ modified[s] < hour
  /\ modified' = [modified EXCEPT ![s] = hour]
  /\ unnoticed' = unnoticed \cup {<<s, c>> : c \in {d \in Collections : study[s].synced[d] = hour}}
  /\ UNCHANGED <<hour, study, stored, inventory, fetch, fetchFaults>>

-----------------------------------------------------------------------------
(* sync_surveys *)

FetchInventoryOf ==
  /\ inventory.pc = "idle"
  /\ inventory' = [inventory EXCEPT !.pc = "fetched", !.payload = modified]
  /\ UNCHANGED <<hour, modified, study, stored, fetch, unnoticed, fetchFaults>>

ReadStudies ==
  /\ inventory.pc = "fetched"
  /\ inventory' = [inventory EXCEPT !.pc = "read", !.read = study]
  /\ UNCHANGED <<hour, modified, study, stored, fetch, unnoticed, fetchFaults>>

\* Faulty: the update takes the new modifiedDate for a refresh.
WrittenAsSynced(s) ==
  [inventory.read[s] EXCEPT !.known = TRUE, !.modified = inventory.payload[s],
     !.synced = [c \in Collections |-> IF @[c] = 0 THEN 0 ELSE hour]]

\* _survey_values leaves the stamps alone, so the row keeps those that were read.
Written(s) ==
  [inventory.read[s] EXCEPT !.known = TRUE, !.modified = inventory.payload[s]]

\* _detail_changed: a later date, or any other difference in the payload.
WriteStudies(changed) ==
  /\ inventory.pc = "read"
  /\ \A s \in Studies :
       ~inventory.read[s].known \/ inventory.payload[s] > inventory.read[s].modified
         => s \in changed
  /\ study' = [s \in Studies |-> IF s \in changed THEN Written(s) ELSE study[s]]
  /\ inventory' = NoInventory
  /\ UNCHANGED <<hour, modified, stored, fetch, unnoticed, fetchFaults>>

-----------------------------------------------------------------------------
(* replace_survey_details, replace_survey_quotas, replace_survey_targeting *)

StaleCollection(s, c) ==
  study[s].synced[c] = 0 \/ study[s].synced[c] < study[s].modified

\* The task refreshes both collections of a stale survey.
RefreshBoth(w, s) ==
  /\ fetch[w].pc = "idle"
  /\ study[s].known /\ \E c \in Collections : StaleCollection(s, c)
  /\ fetch' = [fetch EXCEPT ![w] = [NoFetch EXCEPT !.pc = "ask", !.study = s, !.both = TRUE]]
  /\ UNCHANGED <<hour, modified, study, stored, inventory, unnoticed, fetchFaults>>

\* _refresh_if_stale refreshes the one that is looked at, survey_start the targeting,
\* on a survey without detail_synced_at too.
RefreshOne(w, s, c) ==
  /\ fetch[w].pc = "idle"
  /\ study[s].known
  /\ StaleCollection(s, c) \/ (c = "targeting" /\ study[s].detail = 0)
  /\ fetch' = [fetch EXCEPT ![w] = [NoFetch EXCEPT !.pc = "ask", !.study = s,
                                                   !.collection = c]]
  /\ UNCHANGED <<hour, modified, study, stored, inventory, unnoticed, fetchFaults>>

AskProvider(w) ==
  /\ fetch[w].pc = "ask"
  /\ fetch' = [fetch EXCEPT ![w].pc = "store", ![w].reply = modified[fetch[w].study]]
  /\ UNCHANGED <<hour, modified, study, stored, inventory, unnoticed, fetchFaults>>

\* Faulty: a single collection's refresh stamps the details too.
OnwardAlways(f) ==
  IF f.both /\ f.collection = "quotas"
    THEN [f EXCEPT !.pc = "ask", !.collection = "targeting", !.reply = 0]
    ELSE [f EXCEPT !.pc = "look", !.reply = 0]

\* After the quotas the targeting is asked for, whether or not they were had.
Onward(f) ==
  IF f.both /\ f.collection = "quotas"
    THEN [f EXCEPT !.pc = "ask", !.collection = "targeting", !.reply = 0]
  ELSE IF f.both THEN [f EXCEPT !.pc = "look", !.reply = 0]
  ELSE NoFetch

FetchFails(w) ==
  /\ fetch[w].pc = "ask"
  /\ fetchFaults < MaxFetchFaults
  /\ fetchFaults' = fetchFaults + 1
  /\ fetch' = [fetch EXCEPT ![w] = Onward(fetch[w])]
  /\ UNCHANGED <<hour, modified, study, stored, inventory, unnoticed>>

\* The stamp is the time of the store, not of the answer.
StoreCollection(w) ==
  LET f == fetch[w] IN
  /\ f.pc = "store"
  /\ stored' = [stored EXCEPT ![f.study][f.collection] = f.reply]
  /\ study' = [study EXCEPT ![f.study].synced[f.collection] = hour]
  /\ unnoticed' = IF f.reply < modified[f.study]
                    THEN unnoticed \cup {<<f.study, f.collection>>}
                    ELSE unnoticed \ {<<f.study, f.collection>>}
  /\ fetch' = [fetch EXCEPT ![w] = Onward(f)]
  /\ UNCHANGED <<hour, modified, inventory, fetchFaults>>

\* Faulty: the later stamp is taken for both.
LaterOf(synced) ==
  IF synced["quotas"] < synced["targeting"] THEN synced["targeting"] ELSE synced["quotas"]

OlderOf(synced) ==
  IF synced["quotas"] < synced["targeting"] THEN synced["quotas"] ELSE synced["targeting"]

\* refresh_from_db; without both stamps there is nothing to save.
LookAtStamps(w) ==
  LET oldest == OlderOf(study[fetch[w].study].synced) IN
  /\ fetch[w].pc = "look"
  /\ fetch' = [fetch EXCEPT ![w] = IF oldest = 0 THEN NoFetch
                                   ELSE [@ EXCEPT !.pc = "stamp", !.reply = oldest]]
  /\ UNCHANGED <<hour, modified, study, stored, inventory, unnoticed, fetchFaults>>

StampDetails(w) ==
  /\ fetch[w].pc = "stamp"
  /\ study' = [study EXCEPT ![fetch[w].study].detail = fetch[w].reply]
  /\ fetch' = [fetch EXCEPT ![w] = NoFetch]
  /\ UNCHANGED <<hour, modified, stored, inventory, unnoticed, fetchFaults>>

-----------------------------------------------------------------------------

InnovateNext ==
  \/ HourPasses \/ FetchInventoryOf \/ ReadStudies
  \/ \E s \in Studies : ProviderModifies(s)
  \/ \E changed \in SUBSET Studies : WriteStudies(changed)
  \/ \E w \in Fetchers :
       \/ AskProvider(w) \/ FetchFails(w) \/ StoreCollection(w) \/ LookAtStamps(w)
       \/ StampDetails(w)
       \/ \E s \in Studies : RefreshBoth(w, s) \/ \E c \in Collections : RefreshOne(w, s, c)

InnovateSpec == InnovateInit /\ [][InnovateNext]_innovateVars

-----------------------------------------------------------------------------
(* Properties *)

(***************************************************************************)
(* A collection that no refresh would replace is the one of the row's       *)
(* modifiedDate or a later one, whatever runs and refreshes overlap, calls  *)
(* fail and rows are written back, unless the provider changed the survey   *)
(* between its answer and the store or within the stamp's unit of time: the *)
(* stamp is taken when the details are stored.                              *)
(***************************************************************************)
SettledIsCurrent ==
  \A s \in Studies, c \in Collections :
    study[s].known /\ ~StaleCollection(s, c) /\ <<s, c>> \notin unnoticed
      => stored[s][c] >= study[s].modified

(***************************************************************************)
(* replace_survey_details promises that detail_synced_at covers both        *)
(* collections.  Writing rows back can leave it later than their stamps,    *)
(* but never on a survey with a collection that was not stored at least     *)
(* once: entries that trust it find questions.                              *)
(***************************************************************************)
StampedHasBoth ==
  \A s \in Studies :
    study[s].detail # 0 => \A c \in Collections : stored[s][c] # 0

(***************************************************************************)
(* What the stamps of an InnovateMR survey may be trusted for: by the batch *)
(* and the readers that skip a fresh collection, and by the entries that    *)
(* skip a survey with details.                                              *)
(***************************************************************************)
InnovateInv == InnovateTypeOK /\ SettledIsCurrent /\ StampedHasBoth
=============================================================================
