--------------------------- MODULE SupplierCallbacks ---------------------------
(***************************************************************************)
(* Results sent to external suppliers (surveys/supplier_callbacks.py): one  *)
(* delivery record per attempt, kept in the attempt's audit JSON, a Celery  *)
(* task that claims it, calls the supplier outside any transaction and then *)
(* finishes it, and a periodic dispatcher that recovers stranded records.   *)
(* Tasks are acknowledged late: a killed worker's task is delivered again.  *)
(* A status poll that answers late replaces the audit, and the record in it.*)
(***************************************************************************)
EXTENDS Naturals, FiniteSets

CONSTANTS
  Results,       \* attempts with a supplier key, first numbered in callback_at order
  SupplierCodes,         \* TERMINAL_STATUS_CODES
  Deliverers,         \* bound: delivery tasks queued or running at a time
  RecoveryBatch, \* SUPPLIER_CALLBACK_RECOVERY_BATCH
  MaxCallbackRetries,    \* max_retries of the task
  MaxMishaps     \* bound: broker outages, killed processes and workers

ASSUME SupplierCallbacksAssumption ==
  /\ Results \subseteq Nat /\ IsFiniteSet(Results)
  /\ RecoveryBatch \in Nat \ {0} /\ MaxCallbackRetries \in Nat /\ MaxMishaps \in Nat

VARIABLES
  outcome,     \* SurveyAttempt.status of each attempt
  newer,       \* <<b, a>>: the callback_at of b is later than that of a
  lapsed,      \* attempts whose callback_at is before the dispatcher's lookback
  configured,  \* its key still yields a callback URL
  record,      \* the delivery record: event, state, and the time since written
  commit,      \* what the requests that queued an event have still to do with it
  delivery,        \* delivery tasks
  sent,        \* history: events the supplier has been sent, by attempt
  accepted,    \* history: events it answered with 2xx
  overran,     \* history: attempts whose claim was taken over from a live worker
  erased,      \* history: attempts whose record was replaced by a poll's answer
  mishaps

attemptVars == <<outcome, newer, lapsed, configured>>
callbackVars == <<attemptVars, record, commit, delivery, sent, accepted, overran, erased,
                  mishaps>>

None == "none"
Other == "other"   \* a status that no supplier hears of
Outcomes == SupplierCodes \cup {Other}
Pending == {"dispatch", "mark"} \X SupplierCodes
NoTask == [pc |-> "free", of |-> 0, event |-> None, retries |-> 0, reply |-> None]
\* age 0: below the 30 s of a claim; 1: below the 60 s of the dispatcher; 2: older.
NoRecord == [event |-> None, state |-> "absent", age |-> 0]

CallbackTypeOK ==
  /\ outcome \in [Results -> Outcomes] /\ configured \in [Results -> BOOLEAN]
  /\ newer \subseteq Results \X Results /\ lapsed \subseteq Results
  /\ record \in [Results -> [event : SupplierCodes \cup {None}, age : 0 .. 2,
                  state : {"absent", "queued", "queue_failed", "delivering",
                           "delivered", "failed"}]]
  /\ commit \in [Results -> SUBSET Pending]
  /\ delivery \in [Deliverers -> [pc : {"free", "ready", "sending", "answered"},
                         of : Results \cup {0}, event : SupplierCodes \cup {None},
                         retries : 0 .. MaxCallbackRetries,
                         reply : {None, "ok", "busy", "refused"}]]
  /\ sent \in [Results -> SUBSET SupplierCodes] /\ accepted \in [Results -> SUBSET SupplierCodes]
  /\ overran \subseteq Results /\ erased \subseteq Results /\ mishaps \in 0 .. MaxMishaps

CallbackInit ==
  /\ outcome \in [Results -> SupplierCodes]
  /\ newer = {p \in Results \X Results : p[1] > p[2]} /\ lapsed = {}
  /\ configured = [a \in Results |-> TRUE]
  /\ record = [a \in Results |-> NoRecord]
  /\ commit = [a \in Results |-> {}]
  /\ delivery = [t \in Deliverers |-> NoTask]
  /\ sent = [a \in Results |-> {}] /\ accepted = [a \in Results |-> {}]
  /\ overran = {} /\ erased = {} /\ mishaps = 0

Mishap == mishaps < MaxMishaps /\ mishaps' = mishaps + 1

Enqueued(t, a, e) == [delivery EXCEPT ![t] = [NoTask EXCEPT !.pc = "ready", !.of = a, !.event = e]]
InFlight(a) == {t \in Deliverers : delivery[t].of = a /\ delivery[t].pc \in {"sending", "answered"}}

-----------------------------------------------------------------------------
(* Environment: outcomes are revised, polls answer, keys change, time passes *)

\* A further provider result; that of a Toluna return also moves callback_at.
ReviseOutcome(a) ==
  /\ Mishap
  /\ \E c \in Outcomes : outcome' = [outcome EXCEPT ![a] = c]
  /\ \/ outcome' # outcome /\ UNCHANGED <<newer, lapsed>>
     \/ /\ newer' = {p \in newer : a \notin {p[1], p[2]}} \cup {<<a, b>> : b \in Results \ {a}}
        /\ lapsed' = lapsed \ {a}
  /\ UNCHANGED <<configured, record, commit, delivery, sent, accepted, overran, erased>>

\* reconcile_attempt_status and _refresh_provider_outcome store the provider's
\* row in place of the audit: no key of the old audit is kept.
ReplaceAudit(a) ==
  /\ record[a] # NoRecord /\ Mishap
  /\ record' = [record EXCEPT ![a] = NoRecord]
  /\ erased' = erased \cup {a}
  /\ UNCHANGED <<attemptVars, commit, delivery, sent, accepted, overran>>

RemoveCallbackUrl(a) ==
  /\ configured[a] /\ configured' = [configured EXCEPT ![a] = FALSE]
  /\ Mishap
  /\ UNCHANGED <<outcome, newer, lapsed, record, commit, delivery, sent, accepted, overran, erased>>

\* SUPPLIER_CALLBACK_RECOVERY_LOOKBACK_HOURS pass, for the oldest first.
LapseRecovery(a) ==
  /\ a \notin lapsed /\ \A b \in Results : <<a, b>> \in newer => b \in lapsed
  /\ lapsed' = lapsed \cup {a}
  /\ UNCHANGED <<outcome, newer, configured, record, commit, delivery, sent, accepted, overran, erased, mishaps>>

\* A task ends within its 60 s limit, so no call outlives age 1.
GrowOlder(a) ==
  /\ record[a].age < 2 /\ record[a].state \in {"queued", "delivering"}
  /\ record[a].age = 1 => InFlight(a) = {}
  /\ record' = [record EXCEPT ![a].age = @ + 1]
  /\ UNCHANGED <<attemptVars, commit, delivery, sent, accepted, overran, erased, mishaps>>

-----------------------------------------------------------------------------
(* queue_supplier_result_callback and what follows its commit *)

\* Faulty: a revised outcome replaces the event.
SupplierAcceptsRevised(rec, e) == rec.event # e \/ rec.state = "queue_failed"
\* A new record, or the same event after a broker outage.
SupplierAccepts(rec, e) == rec = NoRecord \/ (rec.event = e /\ rec.state = "queue_failed")

QueueResult(a) ==
  /\ configured[a] /\ outcome[a] \in SupplierCodes /\ SupplierAccepts(record[a], outcome[a])
  /\ <<"dispatch", outcome[a]>> \notin commit[a]
  /\ record' = [record EXCEPT ![a] = [event |-> outcome[a], state |-> "queued", age |-> 0]]
  /\ commit' = [commit EXCEPT ![a] = @ \cup {<<"dispatch", outcome[a]>>}]
  /\ UNCHANGED <<attemptVars, delivery, sent, accepted, overran, erased, mishaps>>

\* on_commit keeps the event that was queued, whatever the record says by then.
DispatchCallback(a, e) ==
  /\ <<"dispatch", e>> \in commit[a]
  /\ commit' = [commit EXCEPT ![a] = @ \ {<<"dispatch", e>>}]
  /\ \E t \in Deliverers : delivery[t] = NoTask /\ delivery' = Enqueued(t, a, e)
  /\ UNCHANGED <<attemptVars, record, sent, accepted, overran, erased, mishaps>>

\* The broker refuses the task, or the process dies before it is sent.
DispatchLost(a, e) ==
  /\ <<"dispatch", e>> \in commit[a] /\ Mishap
  /\ \E next \in {{<<"mark", e>>}, {}} :
       commit' = [commit EXCEPT ![a] = (@ \ {<<"dispatch", e>>}) \cup next]
  /\ UNCHANGED <<attemptVars, record, delivery, sent, accepted, overran, erased>>

MarkQueueFailure(a, e) ==
  /\ <<"mark", e>> \in commit[a]
  /\ commit' = [commit EXCEPT ![a] = @ \ {<<"mark", e>>}]
  /\ record' = IF record[a].event # e \/ record[a].state # "queued" THEN record
               ELSE [record EXCEPT ![a].state = "queue_failed", ![a].age = 0]
  /\ UNCHANGED <<attemptVars, delivery, sent, accepted, overran, erased, mishaps>>

-----------------------------------------------------------------------------
(* The delivery task *)

\* Faulty: the retries are not counted against the maximum.
RetriedAlways(t) ==
  [delivery EXCEPT ![t] = [delivery[t] EXCEPT !.pc = "ready", !.reply = None, !.retries = @ + 1]]
Retried(t) ==
  [delivery EXCEPT ![t] = IF delivery[t].retries = MaxCallbackRetries THEN NoTask
                      ELSE [delivery[t] EXCEPT !.pc = "ready", !.reply = None,
                                           !.retries = @ + 1]]

\* Faulty: any claim may be taken over.
RunningNever(rec) == FALSE
Running(rec) == rec.state = "delivering" /\ rec.age = 0

\* Faulty: a delivered record is sent again by a late duplicate.
DeliverableAgain(rec) == rec.state # "absent"
Deliverable(rec) == rec.state \in {"queued", "failed", "queue_failed", "delivering"}

ClaimDelivery(t) ==
  LET a == delivery[t].of
      mine == record[a].event = delivery[t].event
      claimed == mine /\ Deliverable(record[a]) /\ ~ Running(record[a])
  IN /\ delivery[t].pc = "ready"
     /\ delivery' = IF claimed
                  THEN [delivery EXCEPT ![t].pc = IF configured[a] THEN "sending" ELSE "answered",
                                    ![t].reply = IF configured[a] THEN None ELSE "refused"]
                  ELSE IF mine /\ Running(record[a]) THEN Retried(t)
                  ELSE [delivery EXCEPT ![t] = NoTask]
     /\ record' = IF claimed THEN [record EXCEPT ![a].state = "delivering", ![a].age = 0]
                             ELSE record
     /\ overran' = IF claimed /\ record[a].age > 0 /\ InFlight(a) # {}
                     THEN overran \cup {a} ELSE overran
     /\ UNCHANGED <<attemptVars, commit, sent, accepted, erased, mishaps>>

\* "ok" is 2xx; "busy" is 429, 5xx or a transport error, after which the
\* supplier may have accepted the event; "refused" is any other status and an
\* unsafe destination.
CallSupplier(t) ==
  /\ delivery[t].pc = "sending"
  /\ \E reply \in {"ok", "busy", "refused"} :
       /\ delivery' = [delivery EXCEPT ![t].pc = "answered", ![t].reply = reply]
       /\ sent' = [sent EXCEPT ![delivery[t].of] = @ \cup {delivery[t].event}]
       /\ accepted' = IF reply = "ok"
                        THEN [accepted EXCEPT ![delivery[t].of] = @ \cup {delivery[t].event}]
                        ELSE accepted
  /\ UNCHANGED <<attemptVars, record, commit, overran, erased, mishaps>>

\* Faulty: a redirect or client error counts as delivered.
FinishedStateLax(reply) == IF reply = "busy" THEN "failed" ELSE "delivered"
FinishedState(reply) == IF reply = "ok" THEN "delivered" ELSE "failed"

FinishDelivery(t) ==
  LET a == delivery[t].of
  IN /\ delivery[t].pc = "answered"
     /\ record' = IF record[a].event # delivery[t].event THEN record
                  ELSE [record EXCEPT ![a].state = FinishedState(delivery[t].reply),
                                      ![a].age = 0]
     /\ delivery' = IF delivery[t].reply = "busy" THEN Retried(t)
                    ELSE [delivery EXCEPT ![t] = NoTask]
     /\ UNCHANGED <<attemptVars, commit, sent, accepted, overran, erased, mishaps>>

WorkerLost(t) ==
  /\ delivery[t].pc \in {"sending", "answered"} /\ Mishap
  /\ delivery' = [delivery EXCEPT ![t].pc = "ready", ![t].reply = None]
  /\ UNCHANGED <<attemptVars, record, commit, sent, accepted, overran, erased>>

\* The soft limit of 45 s ends the task, which is acknowledged all the same.
CallbackTimeLimit(t) ==
  /\ delivery[t].pc = "sending" /\ Mishap
  /\ record[delivery[t].of].age = 1 \/ delivery[t].of \in erased
  /\ delivery' = [delivery EXCEPT ![t] = NoTask]
  /\ UNCHANGED <<attemptVars, record, commit, sent, accepted, overran, erased>>

-----------------------------------------------------------------------------
(* dispatch_pending_supplier_callbacks_task *)

\* Faulty: failed deliveries take up the batch as well.
StrandedFailed == {a \in Results \ lapsed :
                     /\ outcome[a] \in SupplierCodes
                     /\ record[a].state \in {"queued", "queue_failed", "delivering", "failed"}}
Stranded == {a \in Results \ lapsed :
               /\ outcome[a] \in SupplierCodes
               /\ record[a].state \in {"queued", "queue_failed", "delivering"}}
\* The newest RecoveryBatch of them, whether or not they are due.
Batch == {a \in Stranded :
            Cardinality({b \in Stranded : <<b, a>> \in newer}) < RecoveryBatch}

Due(rec) == rec.state = "queue_failed" \/ rec.age = 2

Recover(a) ==
  /\ a \in Batch /\ Due(record[a])
  /\ \E t \in Deliverers : delivery[t] = NoTask /\ delivery' = Enqueued(t, a, record[a].event)
  /\ UNCHANGED <<attemptVars, record, commit, sent, accepted, overran, erased, mishaps>>

CallbackNext ==
  \/ \E a \in Results :
       \/ ReviseOutcome(a) \/ ReplaceAudit(a) \/ RemoveCallbackUrl(a) \/ LapseRecovery(a)
       \/ GrowOlder(a) \/ QueueResult(a) \/ Recover(a)
       \/ \E e \in SupplierCodes :
            DispatchCallback(a, e) \/ DispatchLost(a, e) \/ MarkQueueFailure(a, e)
  \/ \E t \in Deliverers :
       ClaimDelivery(t) \/ CallSupplier(t) \/ FinishDelivery(t) \/ WorkerLost(t)
       \/ CallbackTimeLimit(t)

CallbackSpec == CallbackInit /\ [][CallbackNext]_callbackVars

\* Workers take ready tasks and run them to their end, requests run on after
\* their commit, beat starts the dispatcher, and time passes.
CallbackFairness ==
  /\ \A a \in Results : /\ WF_callbackVars(GrowOlder(a))
                        /\ WF_callbackVars(Recover(a))
                        /\ \A e \in SupplierCodes :
                             /\ WF_callbackVars(DispatchCallback(a, e))
                             /\ WF_callbackVars(MarkQueueFailure(a, e))
  /\ \A t \in Deliverers : WF_callbackVars(ClaimDelivery(t) \/ CallSupplier(t) \/ FinishDelivery(t))

FairCallbackSpec == CallbackSpec /\ CallbackFairness

-----------------------------------------------------------------------------
(* Properties *)

\* Two workers call the supplier for one attempt only when the claim of the
\* first outlived its 30 seconds or a poll erased it: retries, duplicates and
\* the dispatcher never start a second call inside them.
OneCallPerClaim ==
  \A a \in Results \ (overran \cup erased) : Cardinality(InFlight(a)) <= 1

\* A record is marked delivered only for an event that the supplier answered
\* with 2xx. While no poll erases its record, a supplier hears one result per
\* attempt, however the outcome is revised and whichever of the tasks runs last.
SupplierHearsOneResult ==
  \A a \in Results : /\ a \notin erased => Cardinality(sent[a]) <= 1
                     /\ record[a].state = "delivered" => record[a].event \in accepted[a]

\* No task takes back a delivered result, unless two workers were calling at
\* once. A poll that answers late erases it, and the event may be queued again.
DeliveredStands ==
  [][\A a \in Results \ (overran' \cup erased') :
       record[a].state = "delivered" => record'[a].state = "delivered"]_callbackVars

\* A stored event does not stay pending: broker outages and killed workers are
\* made good by redelivery and by the dispatcher, which newer events do not
\* starve. Left pending are those that age out of the dispatcher's lookback and
\* those whose attempt's status leaves the terminal codes; a poll may erase one.
PendingEventSettles ==
  \A a \in Results :
    a \in Stranded ~> \/ record[a].state \in {"delivered", "failed", "absent"}
                     \/ a \in lapsed \/ outcome[a] = Other

\* What deliver_supplier_result_callback promises the supplier although it calls
\* between two transactions and its task may run twice.
CallbackInv == CallbackTypeOK /\ OneCallPerClaim /\ SupplierHearsOneResult
=============================================================================
