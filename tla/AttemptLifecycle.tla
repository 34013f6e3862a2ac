--------------------------- MODULE AttemptLifecycle ---------------------------
(***************************************************************************)
(* The life of a SurveyAttempt row and of its AllocationReservation, from   *)
(* the entry link to the last callback.  Web requests, provider callbacks,  *)
(* Toluna notifications, the InnovateMR transaction poll and the            *)
(* reservation expiry task all write these two rows; each action below is   *)
(* one committed transaction of one of them, taken under the row lock.      *)
(***************************************************************************)
EXTENDS Naturals, FiniteSets

CONSTANTS
  Attempts,        \* the respondent attempts that may be created
  Surveys,         \* local survey rows
  SurveyOf,        \* the survey an attempt enters
  ProviderOf,      \* the provider_code class of that survey's integration
  EntryIPs,        \* public addresses respondents arrive from
  NoIP,            \* initiation_ip IS NULL
  ArrivalIPs,      \* what get_request_ip may return for an entry request
  EnforceUniqueIP, \* settings.ENFORCE_PROJECT_UNIQUE_ENTRY_IP
  HashRequired,    \* {INNOVATEMR,BIOBRAIN}_CALLBACK_HASH_REQUIRED
  Workers,         \* Celery processes that may run the expiry task
  BatchSize,       \* rows one expiry run lists
  MaxAnswers,      \* bound: poll answers fetched and not yet applied
  MaxKills         \* bound: expiry runs killed before they finish

(***************************************************************************)
(* "biobrain" stands for biobrain and voqall, "dynamic" for the installed   *)
(* adapters other than RFG and Toluna (acuity, track_opinion, unimarket,    *)
(* zamplia).  "terminated" stands for status 2 and for Toluna's extended    *)
(* codes 7 to 12, which every handler treats alike.                         *)
(***************************************************************************)
Providers == {"innovatemr", "biobrain", "toluna", "rfg", "dynamic"}
Pending   == {"initiated", "redirected"}
Terminal  == {"completed", "terminated", "over_quota", "quality_terminated"}
Sources   == {"none", "browser_callback", "signed_redirect", "toluna_callback",
              "toluna_notification", "rfg_callback", "innovatemr_transaction",
              "local", "local_duplicate_ip_guard"}
Holds     == {"none", "reserved", "consumed", "released", "expired"}
Visits    == {"none", "rejecting", "open", "no_ip", "lost"}
\* One payload of each event type; a member has one completion per survey wave.
Events    == {"member_complete", "member_terminate", "enhanced_termination",
              "reconciliation"}

ASSUME AttemptAssumption ==
  /\ SurveyOf \in [Attempts -> Surveys]
  /\ ProviderOf \in [Attempts -> Providers]
  /\ \A a, b \in Attempts :
       SurveyOf[a] = SurveyOf[b] => ProviderOf[a] = ProviderOf[b]
  /\ NoIP \notin EntryIPs
  /\ ArrivalIPs \subseteq EntryIPs \cup {NoIP}
  /\ EnforceUniqueIP \in BOOLEAN
  /\ HashRequired \in BOOLEAN
  /\ BatchSize \in Nat \ {0}
  /\ MaxAnswers \in Nat
  /\ MaxKills \in Nat

VARIABLES
  row,      \* the SurveyAttempt row of each attempt
  hold,     \* AllocationReservation.status, "none" when there is no row
  visit,    \* what the entry request has told the respondent
  answers,  \* provider transactions fetched by a poll and not yet applied
  notices,  \* TolunaNotification rows: not stored, stored, or applied
  overdue,  \* reservations whose expires_at has passed
  listed,   \* the ids an expiry run has listed and still has to visit
  kills     \* expiry runs killed so far

vars == <<row, hold, visit, answers, notices, overdue, listed, kills>>

journeyVars == <<visit, answers, notices>>
expiryVars  == <<overdue, listed, kills>>

AttemptRow ==
  [status     : {"absent"} \cup Pending \cup Terminal,
   source     : Sources,                       \* status_source
   callbackAt : BOOLEAN,                       \* callback_at IS NOT NULL
   verified   : BOOLEAN,                       \* is_verified
   redirected : BOOLEAN,                       \* redirected_at IS NOT NULL
   invited    : BOOLEAN,                       \* submitted_at and outbound_url
   ip         : EntryIPs \cup {NoIP},          \* initiation_ip
   exit       : {"none", "ending", "later"}]   \* the request exit_* describe:
                                               \* the one that ended the journey,
                                               \* or another one

\* A provider transaction row: its mapped status, whether verifyToken is
\* "valid" (looked at only when the status ends the journey), and its address.
Answer ==
  {m \in [attempt : Attempts, outcome : {"none"} \cup Terminal, valid : BOOLEAN,
          ip : EntryIPs \cup {NoIP}] : m.valid => m.outcome # "none"}

NewRow(ip) ==
  [status |-> "initiated", source |-> "none", callbackAt |-> FALSE,
   verified |-> FALSE, redirected |-> FALSE, invited |-> FALSE, ip |-> ip,
   exit |-> "none"]

TypeOK ==
  /\ row \in [Attempts -> AttemptRow]
  /\ hold \in [Attempts -> Holds]
  /\ visit \in [Attempts -> Visits]
  /\ answers \subseteq Answer
  /\ notices \in [Attempts \X Events -> {"absent", "stored", "applied"}]
  /\ overdue \subseteq Attempts
  /\ listed \in [Workers -> SUBSET Attempts]
  /\ kills \in Nat

(***************************************************************************)
(* Toluna attempts that an earlier release prepared (submitted, invite URL  *)
(* stored, respondent not yet sent) may exist when this release starts.     *)
(***************************************************************************)
Init ==
  /\ \E legacy \in SUBSET {a \in Attempts : ProviderOf[a] = "toluna"} :
       /\ row = [a \in Attempts |->
                   IF a \in legacy
                     THEN [NewRow(NoIP) EXCEPT !.invited = TRUE]
                     ELSE [NewRow(NoIP) EXCEPT !.status = "absent"]]
       /\ hold = [a \in Attempts |-> IF a \in legacy THEN "reserved" ELSE "none"]
       /\ visit = [a \in Attempts |-> IF a \in legacy THEN "no_ip" ELSE "none"]
  /\ answers = {}
  /\ notices = [n \in Attempts \X Events |-> "absent"]
  /\ overdue = {}
  /\ listed = [w \in Workers |-> {}]
  /\ kills = 0

-----------------------------------------------------------------------------
(* Shared transaction bodies *)

\* Faulty variants, here and below, are what the mutation runs put in place of
\* the definition that follows them.

\* Faulty: the reservation stores the attempt's status.
FinalizedByStatus(h, status) == IF h = "reserved" THEN status ELSE h
\* Faulty: terminations keep the unit.
FinalizedOnComplete(h, status) ==
  IF h = "reserved" /\ status = "completed" THEN "consumed" ELSE h
\* Faulty: not idempotent.
FinalizedAgain(h, status) ==
  IF h = "none" THEN h
  ELSE IF status = "completed" THEN "consumed" ELSE "released"

\* finalize_attempt_capacity: only a RESERVED row moves.
Finalized(h, status) ==
  IF h # "reserved" THEN h
  ELSE IF status = "completed" THEN "consumed" ELSE "released"

\* Save the attempt row and finalize its reservation in one transaction.
Record(a, r) ==
  /\ row' = [row EXCEPT ![a] = r]
  /\ hold' = [hold EXCEPT ![a] = Finalized(@, r.status)]

\* Faulty: callback_at is left to the next callback.
EndedUnstamped(r, outcome, source) ==
  [r EXCEPT !.status = outcome, !.source = source]

\* What every transaction that ends a journey writes.
Ended(r, outcome, source) ==
  [r EXCEPT !.status = outcome, !.source = source, !.callbackAt = TRUE]

Exists(a) == row[a].status # "absent"

\* Faulty: trusts the row read before the lock.
NotRechecked(a) == Exists(a)

\* The entry handlers re-read the row under its lock and do nothing unless it is
\* still INITIATED.
StillInitiated(a) == row[a].status = "initiated"

\* Faulty: the stored row is not looked at again.
AnyRow(r) == r.status \in Pending \cup Terminal

\* No callback yet, for the handlers that refuse or skip any other row.
Unanswered(r) == ~r.callbackAt /\ r.status \in Pending

\* The four _finish_* handlers.
FinishLocally(a, outcome, source) ==
  /\ StillInitiated(a)
  /\ Record(a, [Ended(row[a], outcome, source) EXCEPT !.exit = "ending"])

-----------------------------------------------------------------------------
(* Entry *)

\* Faulty: only journeys already sent to the provider claim the address.
ClaimedBySent(a, ip) ==
  /\ EnforceUniqueIP
  /\ ip # NoIP
  /\ \E b \in Attempts :
       row[b].redirected /\ SurveyOf[b] = SurveyOf[a] /\ row[b].ip = ip

\* claim_project_entry_ip: an earlier attempt on this survey from this address,
\* attempts rejected by the guard itself aside.
Claimed(a, ip) ==
  /\ EnforceUniqueIP
  /\ ip # NoIP
  /\ \E b \in Attempts :
       /\ row[b].status # "absent"
       /\ SurveyOf[b] = SurveyOf[a]
       /\ row[b].ip = ip
       /\ row[b].source # "local_duplicate_ip_guard"

\* The entry request: claim, create and reserve in one transaction under the
\* survey row lock.  A refused reservation rolls everything back, so it is no
\* step.  Staff entries have no allocation context and reserve nothing.
EnterSurvey(a, ip, reserves) ==
  /\ row[a].status = "absent"
  /\ row' = [row EXCEPT ![a] = NewRow(ip)]
  /\ hold' = [hold EXCEPT ![a] = IF reserves THEN "reserved" ELSE "none"]
  /\ visit' = [visit EXCEPT ![a] = IF Claimed(a, ip) THEN "rejecting"
                                   ELSE IF ip = NoIP THEN "no_ip" ELSE "open"]
  /\ UNCHANGED <<answers, notices, expiryVars>>

\* _finish_duplicate_ip_attempt runs in a second transaction of the same request.
RejectDuplicate(a) ==
  /\ visit[a] = "rejecting"
  /\ IF StillInitiated(a)
       THEN FinishLocally(a, "quality_terminated", "local_duplicate_ip_guard")
       ELSE UNCHANGED <<row, hold>>
  /\ visit' = [visit EXCEPT ![a] = "open"]
  /\ UNCHANGED <<answers, notices, expiryVars>>

\* The web process dies between the two transactions: the row stays INITIATED
\* and its RID never reaches the respondent.
EntryRequestDies(a) ==
  /\ visit[a] = "rejecting"
  /\ visit' = [visit EXCEPT ![a] = "lost"]
  /\ UNCHANGED <<row, hold, answers, notices, expiryVars>>

\* The respondent has the RID.
HasRid(a) == visit[a] \in {"open", "no_ip"}

\* A later request for the RID records the address that entry did not see.  It
\* read the row without a lock, so it may replace an address that another
\* request or the poll has recorded since.  No claim is made for it.
BackfillEntryIP(a, ip) ==
  /\ visit[a] = "no_ip"
  /\ row' = [row EXCEPT ![a].ip = ip]
  /\ UNCHANGED <<hold, journeyVars, expiryVars>>

\* The country guard of the RID page.
RejectCountry(a) ==
  /\ HasRid(a)
  /\ FinishLocally(a, "quality_terminated", "local")
  /\ UNCHANGED <<journeyVars, expiryVars>>

\* RFG's prescreener mismatch and the RFG and UniMarket duplicate checks.
RejectPrescreener(a) ==
  /\ HasRid(a)
  /\ ProviderOf[a] \in {"rfg", "dynamic"}
  /\ FinishLocally(a, "terminated", "local")
  /\ UNCHANGED <<journeyVars, expiryVars>>

\* A documented Toluna invite ResultCode, raised while the submit transaction
\* holds the row; that transaction rolls back and this one records the refusal.
RejectInvite(a, outcome) ==
  /\ HasRid(a)
  /\ ProviderOf[a] = "toluna"
  /\ outcome \in Terminal \ {"completed"}
  /\ FinishLocally(a, outcome, "local")
  /\ UNCHANGED <<journeyVars, expiryVars>>

\* The accepted prescreener POST: lock, re-check INITIATED, build the outbound
\* URL, save.  A prepared Toluna invite is released by the same write.
SubmitPrescreener(a) ==
  /\ HasRid(a)
  /\ StillInitiated(a)
  /\ row' = [row EXCEPT ![a].status = "redirected", ![a].redirected = TRUE,
                        ![a].invited = TRUE]
  /\ UNCHANGED <<hold, journeyVars, expiryVars>>

\* _release_prepared_toluna_invite, from the RID page or /toluna/member-ready.
ReleasePreparedInvite(a) ==
  /\ ProviderOf[a] = "toluna"
  /\ StillInitiated(a)
  /\ row[a].invited
  /\ row' = [row EXCEPT ![a].status = "redirected", ![a].redirected = TRUE]
  /\ UNCHANGED <<hold, journeyVars, expiryVars>>

-----------------------------------------------------------------------------
(* Browser callbacks: GET /survey *)

\* InnovateMR: the first callback sets the outcome; a signed one also marks the
\* row verified and stores its exit snapshot, first or not.
InnovateCallback(a, outcome) ==
  LET r     == row[a]
      first == IF r.callbackAt THEN r
               ELSE [Ended(r, outcome, IF HashRequired THEN "signed_redirect"
                                       ELSE "browser_callback")
                       EXCEPT !.exit = "ending"]
  IN
  /\ ProviderOf[a] = "innovatemr"
  /\ Exists(a)
  /\ Record(a, IF HashRequired
                 THEN [first EXCEPT !.verified = TRUE,
                                    !.exit = IF r.callbackAt THEN "later" ELSE @]
                 ELSE first)
  /\ UNCHANGED <<journeyVars, expiryVars>>

\* BioBrain and Voqall: anything but a pending row without callback is refused.
BiobrainCallback(a, outcome) ==
  /\ ProviderOf[a] = "biobrain"
  /\ Unanswered(row[a])
  /\ Record(a, [Ended(row[a], outcome, IF HashRequired THEN "signed_redirect"
                                       ELSE "browser_callback")
                  EXCEPT !.exit = "ending",
                         !.verified = IF HashRequired THEN TRUE ELSE @])
  /\ UNCHANGED <<journeyVars, expiryVars>>

\* RFG and the other installed adapters: unsigned, the first callback wins.
UnsignedCallback(a, outcome) ==
  /\ ProviderOf[a] \in {"rfg", "dynamic"}
  /\ Exists(a)
  /\ Record(a, IF row[a].callbackAt THEN row[a]
               ELSE [Ended(row[a], outcome, "browser_callback")
                       EXCEPT !.exit = "ending"])
  /\ UNCHANGED <<journeyVars, expiryVars>>

\* Faulty: notifications do not count.
TolunaCalledBack(r) == r.verified /\ r.source = "toluna_callback"

\* toluna_already_finalized
TolunaFinalized(r) ==
  r.verified /\ r.source \in {"toluna_callback", "toluna_notification"}

\* Toluna: always verified; replaces any outcome that no verified Toluna
\* callback or notification has set.
TolunaCallback(a, outcome) ==
  /\ ProviderOf[a] = "toluna"
  /\ Exists(a)
  /\ ~TolunaFinalized(row[a])
  /\ Record(a, [Ended(row[a], outcome, "toluna_callback")
                  EXCEPT !.verified = TRUE, !.exit = "ending"])
  /\ UNCHANGED <<journeyVars, expiryVars>>

-----------------------------------------------------------------------------
(* Server-to-server callbacks *)

\* RFG's trusted server callback overwrites the outcome every time.
RfgServerCallback(a, outcome) ==
  /\ ProviderOf[a] = "rfg"
  /\ Exists(a)
  /\ Record(a, [Ended(row[a], outcome, "rfg_callback") EXCEPT !.verified = TRUE])
  /\ UNCHANGED <<journeyVars, expiryVars>>

\* RFG's browser result page replaces the exit snapshot only.
RfgBrowserReturn(a) ==
  /\ ProviderOf[a] = "rfg"
  /\ Exists(a)
  /\ row' = [row EXCEPT ![a].exit = "later"]
  /\ UNCHANGED <<hold, journeyVars, expiryVars>>

\* _attempt_status_for: the statuses an event may carry.
EventOutcomes(e) ==
  CASE e = "member_complete" -> {"completed"}
    [] e = "reconciliation"  -> {"quality_terminated"}
    [] e \in {"member_terminate", "enhanced_termination"} -> Terminal \ {"completed"}

\* Faulty: forgets the enhanced termination.
SupersededTerminate(a, e) == row[a].status = "completed" /\ e = "member_terminate"

\* A late termination does not replace a completion.
Superseded(a, e) ==
  /\ row[a].status = "completed"
  /\ e \notin {"member_complete", "reconciliation"}

\* The first transaction of ingest_toluna_notification; a process may die here.
StoreNotice(a, e) ==
  /\ ProviderOf[a] = "toluna"
  /\ Exists(a)
  /\ notices[<<a, e>>] = "absent"
  /\ notices' = [notices EXCEPT ![<<a, e>>] = "stored"]
  /\ UNCHANGED <<row, hold, visit, answers, expiryVars>>

\* _reconcile_notification, by the first delivery or by an exact duplicate: an
\* applied notice is left alone, any other is tried again.
ApplyNotice(a, e, outcome) ==
  /\ notices[<<a, e>>] = "stored"
  /\ ~Superseded(a, e)
  /\ outcome \in EventOutcomes(e)
  /\ Record(a, [Ended(row[a], outcome, "toluna_notification")
                  EXCEPT !.verified = TRUE])
  /\ notices' = [notices EXCEPT ![<<a, e>>] = "applied"]
  /\ UNCHANGED <<visit, answers, expiryVars>>

-----------------------------------------------------------------------------
(* The transaction poll: reconcile_pending_attempts_task, and the term        *)
(* report's refresh of one unsuccessful InnovateMR attempt *)

\* The candidate is read, and the provider answers, outside any lock.
FetchTransaction(m) ==
  LET r == row[m.attempt] IN
  /\ \/ /\ ProviderOf[m.attempt] \in {"innovatemr", "biobrain"}
        /\ r.status = "redirected"
        /\ ~r.callbackAt
     \/ /\ ProviderOf[m.attempt] = "innovatemr"
        /\ r.status \in Terminal \ {"completed"}
  /\ Cardinality(answers) < MaxAnswers
  /\ answers' = answers \cup {m}
  /\ UNCHANGED <<row, hold, visit, notices, expiryVars>>

\* reconcile_attempt_status once it holds the lock.
ApplyTransaction(m) ==
  LET r     == row[m.attempt]
      known == IF r.ip = NoIP THEN [r EXCEPT !.ip = m.ip] ELSE r
      ends  == m.outcome # "none" /\ Unanswered(r)
      next  == IF ends
                 THEN [Ended(known, m.outcome, "innovatemr_transaction")
                         EXCEPT !.verified = m.valid]
                 ELSE known
  IN
  /\ m \in answers
  /\ answers' = answers \ {m}
  /\ IF m.outcome # "none"
       THEN Record(m.attempt, next)
       ELSE row' = [row EXCEPT ![m.attempt] = next] /\ hold' = hold
  /\ UNCHANGED <<visit, notices, expiryVars>>

\* The poll's worker is killed before it takes the lock.
DropTransaction(m) ==
  /\ m \in answers
  /\ answers' = answers \ {m}
  /\ UNCHANGED <<row, hold, visit, notices, expiryVars>>

-----------------------------------------------------------------------------
(* Reservation expiry *)

\* VENDOR_RESERVATION_TTL_MINUTES pass.
TtlElapses(a) ==
  /\ hold[a] = "reserved"
  /\ a \notin overdue
  /\ overdue' = overdue \cup {a}
  /\ UNCHANGED <<row, hold, journeyVars, listed, kills>>

\* Faulty: only journeys already sent to the provider lapse.
DueSent == {a \in overdue : hold[a] = "reserved" /\ row[a].redirected}

Due == {a \in overdue : hold[a] = "reserved"}

\* expire_allocation_reservations_task lists ids outside any lock ...
ListDue(w) ==
  /\ listed[w] = {}
  /\ \E batch \in SUBSET Due :
       /\ batch # {}
       /\ \/ batch = Due /\ Cardinality(batch) <= BatchSize
          \/ Cardinality(batch) = BatchSize
       /\ listed' = [listed EXCEPT ![w] = batch]
  /\ UNCHANGED <<row, hold, journeyVars, overdue, kills>>

\* ... then visits each under its row lock; a row settled meanwhile is skipped.
ExpireListed(w, a) ==
  /\ a \in listed[w]
  /\ listed' = [listed EXCEPT ![w] = @ \ {a}]
  /\ hold' = [hold EXCEPT ![a] = IF @ = "reserved" THEN "expired" ELSE @]
  /\ UNCHANGED <<row, journeyVars, overdue, kills>>

\* The worker is killed: the rest of its batch waits for a later run.
KillExpiryRun(w) ==
  /\ kills < MaxKills
  /\ listed[w] # {}
  /\ listed' = [listed EXCEPT ![w] = {}]
  /\ kills' = kills + 1
  /\ UNCHANGED <<row, hold, journeyVars, overdue>>

-----------------------------------------------------------------------------

Entry(a) ==
  \/ \E ip \in ArrivalIPs, reserves \in BOOLEAN : EnterSurvey(a, ip, reserves)
  \/ RejectDuplicate(a)
  \/ EntryRequestDies(a)
  \/ \E ip \in EntryIPs : BackfillEntryIP(a, ip)
  \/ RejectCountry(a)
  \/ RejectPrescreener(a)
  \/ \E o \in Terminal : RejectInvite(a, o)
  \/ SubmitPrescreener(a)
  \/ ReleasePreparedInvite(a)

Callback(a) ==
  \/ \E o \in Terminal :
       \/ InnovateCallback(a, o)
       \/ BiobrainCallback(a, o)
       \/ UnsignedCallback(a, o)
       \/ TolunaCallback(a, o)
       \/ RfgServerCallback(a, o)
  \/ RfgBrowserReturn(a)
  \/ \E e \in Events :
       \/ StoreNotice(a, e)
       \/ \E o \in Terminal : ApplyNotice(a, e, o)

Poll ==
  \E m \in Answer : FetchTransaction(m) \/ ApplyTransaction(m) \/ DropTransaction(m)

Expiry(w) ==
  \/ ListDue(w)
  \/ \E a \in Attempts : ExpireListed(w, a)
  \/ KillExpiryRun(w)

Next ==
  \/ \E a \in Attempts : Entry(a) \/ Callback(a) \/ TtlElapses(a)
  \/ Poll
  \/ \E w \in Workers : Expiry(w)

Spec == Init /\ [][Next]_vars

(***************************************************************************)
(* Time passes, Celery Beat keeps starting the expiry task and a run that   *)
(* is not killed visits its whole list.  Respondents and providers owe us   *)
(* nothing.                                                                 *)
(***************************************************************************)
Fairness ==
  /\ \A a \in Attempts : WF_vars(TtlElapses(a))
  /\ \A w \in Workers :
       /\ WF_vars(ListDue(w))
       /\ WF_vars(\E a \in Attempts : ExpireListed(w, a))

FairSpec == Spec /\ Fairness

-----------------------------------------------------------------------------
(* Properties *)

(***************************************************************************)
(* Every transaction that ends a journey also finalizes its reservation,    *)
(* and no other finalizes one: an ended attempt holds no RESERVED unit, and *)
(* a consumed or released unit belongs to an ended attempt.  It stands on   *)
(* callback_at being set exactly by the transactions that end the journey,  *)
(* which the poll and the browser callbacks use as their "first" test.      *)
(***************************************************************************)
HoldFollowsJourney ==
  \A a \in Attempts :
    /\ row[a].callbackAt <=> row[a].status \in Terminal
    /\ row[a].status \in Terminal => hold[a] # "reserved"
    /\ hold[a] \in {"consumed", "released"} => row[a].status \in Terminal
    /\ row[a].status = "absent" => hold[a] = "none"

(***************************************************************************)
(* The attempt and reservation rows together implement the ledger: one      *)
(* settlement per unit, in the transaction that first ends the journey.     *)
(***************************************************************************)
JourneyOf(status) ==
  CASE status = "absent"     -> "absent"
    [] status \in Pending    -> "open"
    [] status = "completed"  -> "completed"
    [] OTHER                 -> "failed"

Ledger == INSTANCE ReservationLedger
            WITH journey <- [a \in Attempts |-> JourneyOf(row[a].status)],
                 unit    <- hold

LedgerSpec == Ledger!Spec

(***************************************************************************)
(* Direct callbacks and the poll race under the row lock, and whichever     *)
(* ends the journey first stands, except where RFG's server callback or a   *)
(* Toluna event may revise it.                                              *)
(***************************************************************************)
FirstOutcomeStands ==
  [][\A a \in Attempts :
       (ProviderOf[a] \in {"innovatemr", "biobrain", "dynamic"}
          /\ row[a].status \in Terminal)
       => /\ row'[a].status = row[a].status
          /\ row'[a].source = row[a].source]_vars

(***************************************************************************)
(* A respondent is sent to the provider at most once, from an INITIATED     *)
(* row only, whatever second POST, prepared invite, local rejection or      *)
(* early callback interleaves; and an ended journey is never reopened.      *)
(***************************************************************************)
SentOnce ==
  [][\A a \in Attempts :
       /\ row'[a].status = "redirected" /\ row[a].status # "redirected"
            => row[a].status = "initiated" /\ ~row[a].redirected
       /\ row[a].status \in Terminal => row'[a].status \in Terminal]_vars

(***************************************************************************)
(* Two attempts that entered one project from one address (known when they  *)
(* entered) are never both sent to the provider while the duplicate check   *)
(* is in force, even when the request that should reject the second dies    *)
(* between its two transactions.  An address recorded later makes no claim. *)
(***************************************************************************)
OneRedirectPerEntryIP ==
  EnforceUniqueIP =>
    \A a, b \in Attempts :
      /\ a # b /\ SurveyOf[a] = SurveyOf[b]
      /\ row[a].ip = row[b].ip /\ row[a].ip # NoIP
      /\ visit[a] # "no_ip" /\ visit[b] # "no_ip"
      => ~(row[a].redirected /\ row[b].redirected)

(***************************************************************************)
(* A Toluna completion is replaced only by a reconciliation: no late        *)
(* termination, browser callback or duplicate delivery takes it back.       *)
(***************************************************************************)
TolunaCompletionStands ==
  [][\A a \in Attempts :
       (ProviderOf[a] = "toluna" /\ row[a].status = "completed"
          /\ row'[a].status # "completed")
       => /\ notices[<<a, "reconciliation">>] # "applied"
          /\ notices'[<<a, "reconciliation">>] = "applied"]_vars

(***************************************************************************)
(* Once Toluna's completion and its reconciliation have both been applied   *)
(* and the journey is not completed, no replay of either, no termination    *)
(* and no browser callback makes it completed again.                        *)
(***************************************************************************)
ClawbackStands ==
  [][\A a \in Attempts :
       (/\ notices[<<a, "member_complete">>] = "applied"
        /\ notices[<<a, "reconciliation">>] = "applied"
        /\ row[a].status # "completed")
       => row'[a].status # "completed"]_vars

(***************************************************************************)
(* A verified RFG or Toluna row carries an outcome that a verified source   *)
(* of that provider set: no unsigned browser callback, local rejection or   *)
(* poll leaves its outcome under another's verification mark.               *)
(***************************************************************************)
VerifiedOutcomeHasVerifiedSource ==
  \A a \in Attempts :
    row[a].verified =>
      /\ ProviderOf[a] = "rfg" => row[a].source = "rfg_callback"
      /\ ProviderOf[a] = "toluna" =>
            row[a].source \in {"toluna_callback", "toluna_notification"}

(***************************************************************************)
(* No unit stays reserved for ever: a journey the respondent abandons, or   *)
(* whose callback never comes, gives its unit back, worker kills included.  *)
(***************************************************************************)
ReservationSettles ==
  \A a \in Attempts : hold[a] = "reserved" ~> hold[a] # "reserved"

(***************************************************************************)
(* docs/vendor-allocation.md, quantity lifecycle: status 1 moves the        *)
(* reserved unit to consumed.                                               *)
(***************************************************************************)
CompletionConsumesUnit ==
  \A a \in Attempts :
    row[a].status = "completed" => hold[a] \in {"none", "consumed"}

(***************************************************************************)
(* docs/respondent-flow.md, callback contract: requests after the first     *)
(* leave the exit audit alone.                                              *)
(***************************************************************************)
ExitAuditStands ==
  [][\A a \in Attempts :
       row[a].source = "signed_redirect" => row'[a].exit = row[a].exit]_vars

(***************************************************************************)
(* docs/client-integrations.md, RFG: only the trusted server callback makes *)
(* a completion payable; a browser return is display-only.                  *)
(***************************************************************************)
RfgCompletionFromServer ==
  \A a \in Attempts :
    ProviderOf[a] = "rfg" /\ row[a].status = "completed" => row[a].verified
=============================================================================
