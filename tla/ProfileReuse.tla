----------------------------- MODULE ProfileReuse -----------------------------
(***************************************************************************)
(* The decision, taken while a prescreener is submitted, to send the        *)
(* provider an older profile's UID (prescreener_vault/reuse.py), and the    *)
(* capture of the submission otherwise (prescreener_vault/services.py).     *)
(* Monthly slots, events, per-UID states and attempts live in the main      *)
(* database, submissions in the vault; no transaction spans the two, so one *)
(* POST is a sequence of transactions and may fail or die between any two.  *)
(* One integration and one calendar month are modelled.                     *)
(***************************************************************************)
EXTENDS Naturals, FiniteSets

CONSTANTS
  Attempts, SurveyOf,
  UidOf,        \* the UID each attempt is created with
  Registered,   \* attempts of earlier traffic: captured, and sent
  Legacy,       \* attempts stored before UIDs existed
  Uids,         \* UIDs the generator may draw; 0 is NULL
  Answers,      \* submissions, as sets of <<dimension, value>>
  Eligible,     \* those of the configured age groups and genders
  Posts,        \* POST requests
  Previous,     \* attempts of the previous month
  Percentage,   \* profile_reuse_monthly_percentage
  FirstDelay, Interval, Window, MaxUses,
  MaxScan,      \* MAX_CANDIDATE_SCAN
  MaxTries,     \* candidates one POST tries: range(5)
  MaxNow,       \* bound: clock
  MaxTraffic,   \* bound: attempts of this month
  MaxFaults     \* bound: exceptions and killed workers

ASSUME ProfileReuseAssumption ==
  /\ Registered \subseteq Attempts /\ Legacy \subseteq Attempts \ Registered
  /\ IsFiniteSet(Attempts) /\ IsFiniteSet(Posts)
  /\ Uids \subseteq Nat \ {0} /\ IsFiniteSet(Uids)
  /\ UidOf \in [Attempts -> Uids]
  /\ \A a, b \in Attempts : UidOf[a] = UidOf[b] => a = b
  /\ Eligible \subseteq Answers /\ {} \notin Answers
  /\ {Previous, Percentage, FirstDelay, Interval, Window, MaxUses, MaxScan,
      MaxTries, MaxNow, MaxTraffic, MaxFaults} \subseteq Nat
  /\ MaxNow >= 1

VARIABLES
  now,      \* the clock, from 1; 0 is a NULL time
  traffic,  \* attempts initiated this month
  vault,    \* PrescreenerSubmission rows by UID
  attempt,  \* the columns of SurveyAttempt that reuse reads and writes
  counter,  \* the month's ProfileReuseMonthlyCounter
  events,   \* ProfileReuseEvent rows
  usages,   \* ProfileReuseProjectUsage rows
  lastUse,  \* ProfileReuseState.last_reused_at by UID
  post,     \* each request
  faults,   \* exceptions and killed workers so far
  refunds   \* history: slots given back although the reuse was committed

reuseVars == <<now, traffic, vault, attempt, counter, events, usages, lastUse,
               post, faults, refunds>>

Nobody == "nobody"
NoRow == [rid |-> Nobody, answers |-> {}, usage |-> 0, last |-> 0, submitted |-> 0]
NotSent == [uid |-> 0, answers |-> {}]
Free == [pc |-> "free", of |-> Nobody, answers |-> {}, own |-> 0, draft |-> FALSE,
         live |-> 0, slot |-> FALSE, held |-> {}, uid |-> 0, prev |-> 0,
         number |-> 0, tries |-> 0, excluded |-> {}]

ReuseTypeOK ==
  /\ now \in 1 .. MaxNow /\ traffic \in 0 .. MaxTraffic
  /\ faults \in 0 .. MaxFaults /\ refunds \in Nat
  /\ \A u \in Uids : /\ vault[u].rid \in Attempts \cup {Nobody}
                     /\ vault[u].usage \in Nat /\ vault[u].last \in 0 .. now
  /\ \A a \in Attempts : {attempt[a].uid, attempt[a].chosen} \subseteq Uids \cup {0}
  /\ {counter.baseline, counter.target, counter.allocated} \subseteq Nat
  /\ \A e \in events : e.attempt \in Attempts /\ e.uid \in Uids /\ e.at \in 1 .. now
  /\ lastUse \in [Uids -> 0 .. now]
  /\ \A p \in Posts : post[p].of \in Attempts \cup {Nobody}

ReuseInit ==
  /\ now = 1 /\ traffic = 0
  /\ \E profile \in [Registered -> Answers] :
       /\ vault = [u \in Uids |->
            IF \E a \in Registered : UidOf[a] = u
              THEN LET a == CHOOSE b \in Registered : UidOf[b] = u
                   IN [rid |-> a, answers |-> profile[a], usage |-> 1, last |-> 0,
                       submitted |-> 0]
              ELSE NoRow]
       /\ attempt = [a \in Attempts |->
            [uid |-> IF a \in Legacy THEN 0 ELSE UidOf[a], chosen |-> 0,
             sent |-> IF a \in Registered THEN [uid |-> UidOf[a], answers |-> profile[a]]
                                          ELSE NotSent]]
  /\ counter = [exists |-> FALSE, baseline |-> 0, target |-> 0, allocated |-> 0,
                first |-> 0, returning |-> 0]
  /\ events = {} /\ usages = {} /\ lastUse = [u \in Uids |-> 0]
  /\ post = [p \in Posts |-> Free]
  /\ faults = 0 /\ refunds = 0

Of(p) == post[p].of
At(p, pc) == post[p].pc = pc
Moves(p, fields) ==
  post' = [post EXCEPT ![p] = [f \in DOMAIN @ |-> IF f \in DOMAIN fields
                                                    THEN fields[f] ELSE @[f]]]
Goes(p, pc) == post' = [post EXCEPT ![p].pc = pc]

\* The row lock of a vault row another request scans; an UPDATE waits for it.
Unlocked(p, u) == \A q \in Posts \ {p} : u \notin post[q].held

-----------------------------------------------------------------------------
(* The clock, this month's traffic, and the respondent *)

Tick == now < MaxNow /\ now' = now + 1
        /\ UNCHANGED <<traffic, vault, attempt, counter, events, usages, lastUse,
                       post, faults, refunds>>

Arrive == traffic < MaxTraffic /\ traffic' = traffic + 1
          /\ UNCHANGED <<now, vault, attempt, counter, events, usages, lastUse,
                         post, faults, refunds>>

\* The request loads the attempt; only an attempt not yet sent is submitted.
Submit(p) ==
  /\ At(p, "free")
  /\ \E a \in Attempts, ans \in Answers :
       /\ attempt[a].sent = NotSent
       /\ post' = [post EXCEPT ![p] = [Free EXCEPT !.pc = "decide", !.of = a,
                     !.answers = ans, !.own = attempt[a].uid, !.draft = TRUE]]
  /\ UNCHANGED <<now, traffic, vault, attempt, counter, events, usages, lastUse,
                 faults, refunds>>

-----------------------------------------------------------------------------
(* maybe_assign_reusable_profile *)

EventsOf(a) == {e \in events : e.attempt = a}

\* An event found is the decision; an attempt that lost it is repaired.
Decide(p) ==
  /\ At(p, "decide")
  /\ IF EventsOf(Of(p)) # {}
       THEN /\ \E e \in EventsOf(Of(p)) :
                 attempt' = [attempt EXCEPT ![Of(p)].chosen = e.uid]
            /\ Goes(p, "redirect")
       ELSE /\ Goes(p, IF post[p].answers \in Eligible THEN "baseline" ELSE "ensure")
            /\ UNCHANGED attempt
  /\ UNCHANGED <<now, traffic, vault, counter, events, usages, lastUse, faults, refunds>>

Target(baseline) == (baseline * Percentage) \div 100

ReadBaseline(p) ==
  /\ At(p, "baseline")
  /\ Moves(p, [live |-> IF Previous > 0 THEN Previous ELSE traffic, pc |-> "claim"])
  /\ UNCHANGED <<now, traffic, vault, attempt, counter, events, usages, lastUse,
                 faults, refunds>>

BaselineOf(live) ==
  IF ~ counter.exists \/ Previous > 0 \/ live > counter.baseline
    THEN live ELSE counter.baseline

\* Faulty: the slot is compared with one too many.
SlotLeftOff(target) == target > 0 /\ counter.allocated <= target
SlotLeft(target) == target > 0 /\ counter.allocated < target

ClaimMonthSlot(p) ==
  LET base == BaselineOf(post[p].live)
      ok == SlotLeft(Target(base))
  IN /\ At(p, "claim")
     /\ counter' = [counter EXCEPT !.exists = TRUE, !.baseline = base,
                      !.target = Target(base),
                      !.allocated = IF ok THEN @ + 1 ELSE @]
     /\ Moves(p, [slot |-> ok, pc |-> IF ok THEN "scan" ELSE "ensure"])
     /\ UNCHANGED <<now, traffic, vault, attempt, events, usages, lastUse, faults, refunds>>

\* Every required dimension has exactly the required values; more is allowed.
Values(ans, d) == {x[2] : x \in {y \in ans : y[1] = d}}
Matches(profile, required) ==
  \A d \in {x[1] : x \in required} : Values(profile, d) = Values(required, d)

Fairer(u, v) ==
  LET r == vault[u]  s == vault[v]
  IN \/ r.usage < s.usage
     \/ r.usage = s.usage /\ r.last < s.last
     \/ r.usage = s.usage /\ r.last = s.last /\ r.submitted < s.submitted
     \/ r.usage = s.usage /\ r.last = s.last /\ r.submitted = s.submitted /\ u < v

\* select_for_update(skip_locked): rows old enough, rested, and not locked.
Candidates(p) ==
  {u \in Uids : /\ vault[u] # NoRow
                /\ vault[u].submitted + FirstDelay <= now
                /\ vault[u].last = 0 \/ vault[u].last + Interval <= now
                /\ u # post[p].own /\ u \notin post[p].excluded
                /\ Unlocked(p, u)}

ScanVault(p) ==
  LET rows == {u \in Candidates(p) :
                 Cardinality({v \in Candidates(p) : Fairer(v, u)}) < MaxScan}
  IN /\ At(p, "scan")
     /\ Moves(p, [held |-> rows, pc |-> IF rows = {} THEN "release" ELSE "pick"])
     /\ UNCHANGED <<now, traffic, vault, attempt, counter, events, usages, lastUse,
                    faults, refunds>>

UsedOn(s) ==
  {u \in Uids : \/ <<s, u>> \in usages
                \/ \E a \in Attempts : SurveyOf[a] = s /\ u \in {attempt[a].uid, attempt[a].chosen}}

Recent(u, t) == {e \in events : e.uid = u /\ e.at + Window >= t}

\* Faulty: the time from which the row may be used again is stored.
VisitedUntil(row) == [row EXCEPT !.usage = @ + 1, !.last = now + Interval]
Visited(row) == [row EXCEPT !.usage = @ + 1, !.last = now]

\* The fairest scanned row that is unused on the project and below its limit.
PickProfile(p) ==
  LET fit == {u \in post[p].held : /\ u \notin UsedOn(SurveyOf[Of(p)])
                                   /\ Cardinality(Recent(u, now)) < MaxUses
                                   /\ Matches(vault[u].answers, post[p].answers)}
  IN /\ At(p, "pick")
     /\ IF fit = {}
          THEN /\ Moves(p, [held |-> {}, pc |-> "release"]) /\ UNCHANGED vault
          ELSE \E u \in fit :
                 /\ \A v \in fit \ {u} : Fairer(u, v)
                 /\ vault' = [vault EXCEPT ![u] = Visited(@)]
                 /\ Moves(p, [held |-> {}, uid |-> u, prev |-> vault[u].last,
                              number |-> vault[u].usage + 1, pc |-> "commit"])
     /\ UNCHANGED <<now, traffic, attempt, counter, events, usages, lastUse, faults, refunds>>

Rested(u) == lastUse[u] = 0 \/ lastUse[u] + Interval <= now

\* Faulty: the permanent project lock is not consulted.
UnusedUnchecked(p, u) == TRUE
Unused(p, u) ==
  /\ <<SurveyOf[Of(p)], u>> \notin usages
  /\ \A a \in Attempts \ {Of(p)} :
       SurveyOf[a] = SurveyOf[Of(p)] => u \notin {attempt[a].uid, attempt[a].chosen}

\* Faulty: the rolling limit is not counted again.
BelowLimitUncounted(u) == TRUE
BelowLimit(u) == Cardinality(Recent(u, now)) < MaxUses

\* Faulty: only the request's own copy of the attempt is changed.
ChosenInMemory(a, u) == attempt
Chosen(a, u) == [attempt EXCEPT ![a].chosen = u]

Undecided(a) == attempt[a].chosen = 0 /\ EventsOf(a) = {}

\* One main-database transaction under the attempt's and the UID state's locks.
\* The code reads its clock before it waits for them: the wait is taken to be
\* within one unit, of a clock whose policies count minutes.
\* An attempt without a registered UID fails on the event's NOT NULL column.
CommitReuse(p) ==
  LET a == Of(p)  u == post[p].uid
  IN /\ At(p, "commit")
     /\ IF Undecided(a) /\ Rested(u) /\ Unused(p, u) /\ BelowLimit(u) /\ post[p].own # 0
          THEN /\ attempt' = Chosen(a, u)
               /\ events' = events \cup {[attempt |-> a, uid |-> u, at |-> now]}
               /\ usages' = usages \cup {<<SurveyOf[a], u>>}
               /\ lastUse' = [lastUse EXCEPT ![u] = now]
               /\ Goes(p, "mark")
          ELSE /\ Goes(p, "undo")
               /\ UNCHANGED <<attempt, events, usages, lastUse>>
     /\ UNCHANGED <<now, traffic, vault, counter, faults, refunds>>

\* Faulty: the count read at the reservation is written back.
UndoneToRead(row, q) == [row EXCEPT !.usage = q.number - 1, !.last = q.prev]
Undone(row, q) ==
  IF row.usage > 1 THEN [row EXCEPT !.usage = @ - 1, !.last = q.prev] ELSE row

UndoReservation(p) ==
  LET u == post[p].uid
  IN /\ At(p, "undo") /\ Unlocked(p, u)
     /\ vault' = [vault EXCEPT ![u] = Undone(@, post[p])]
     /\ Moves(p, [excluded |-> post[p].excluded \cup {u}, tries |-> post[p].tries + 1,
                  pc |-> IF post[p].tries + 1 = MaxTries THEN "release" ELSE "scan"])
     /\ UNCHANGED <<now, traffic, attempt, counter, events, usages, lastUse, faults, refunds>>

MarkPool(p) ==
  /\ At(p, "mark")
  /\ counter' = IF post[p].number = 2 THEN [counter EXCEPT !.first = @ + 1]
                                      ELSE [counter EXCEPT !.returning = @ + 1]
  /\ Moves(p, [slot |-> FALSE, pc |-> "redirect"])
  /\ UNCHANGED <<now, traffic, vault, attempt, events, usages, lastUse, faults, refunds>>

\* After the last candidate, or after an exception, which then leaves the view.
ReleaseMonthSlot(p) ==
  /\ post[p].pc \in {"release", "raise"}
  /\ counter' = [counter EXCEPT !.allocated = IF @ > 0 THEN @ - 1 ELSE @]
  /\ Moves(p, [slot |-> FALSE, pc |-> IF At(p, "raise") THEN "done" ELSE "ensure"])
  /\ UNCHANGED <<now, traffic, vault, attempt, events, usages, lastUse, faults, refunds>>

-----------------------------------------------------------------------------
(* capture_prescreener_submission, and the redirect *)

\* Faulty: the update is not conditional on the column being NULL.
DrawsAlways(p) == post[p].own = 0
Draws(p) == post[p].own = 0 /\ attempt[Of(p)].uid = 0

\* A legacy attempt draws its UID by one conditional update; the loser of a
\* race, and a candidate another attempt holds, read or draw again.
EnsureUid(p) ==
  LET a == Of(p)
  IN /\ At(p, "ensure")
     /\ IF Draws(p)
          THEN \E u \in {v \in Uids : \A b \in Attempts : attempt[b].uid # v} :
                 /\ attempt' = [attempt EXCEPT ![a].uid = u]
                 /\ Moves(p, [own |-> u, pc |-> "persist"])
          ELSE /\ Moves(p, [own |-> attempt[a].uid, pc |-> "persist"])
               /\ UNCHANGED attempt
     /\ UNCHANGED <<now, traffic, vault, counter, events, usages, lastUse, faults, refunds>>

Fresh(p) == [rid |-> Of(p), answers |-> post[p].answers, usage |-> 1, last |-> 0,
             submitted |-> now]

\* The UID belongs to another RID, or the RID to another UID.
MappedToOther(p) ==
  IF vault[post[p].own] # NoRow
    THEN vault[post[p].own].rid # Of(p)
    ELSE \E u \in Uids : vault[u].rid = Of(p)

Replaced(row, p) == [row EXCEPT !.answers = post[p].answers, !.submitted = now]

\* persist_once: the same answers are idempotent, other answers replace a draft.
Persist(p) ==
  LET u == post[p].own
      differs == vault[u] # NoRow /\ vault[u].answers # post[p].answers
  IN /\ At(p, "persist") /\ Unlocked(p, u)
     /\ IF MappedToOther(p) \/ (differs /\ ~ post[p].draft)
          THEN Goes(p, "done") /\ UNCHANGED vault
          ELSE /\ vault' = [vault EXCEPT ![u] =
                     CASE @ = NoRow -> Fresh(p) [] differs -> Replaced(@, p) [] OTHER -> @]
               /\ Goes(p, "redirect")
     /\ UNCHANGED <<now, traffic, attempt, counter, events, usages, lastUse, faults, refunds>>

\* Under the attempt's lock the outbound URL is built for the effective UID.
Redirect(p) ==
  LET a == Of(p)
  IN /\ At(p, "redirect")
     /\ attempt' = IF attempt[a].sent # NotSent THEN attempt
                   ELSE [attempt EXCEPT ![a].sent =
                     [uid |-> IF attempt[a].chosen # 0 THEN attempt[a].chosen
                                                       ELSE attempt[a].uid,
                      answers |-> post[p].answers]]
     /\ Goes(p, "done")
     /\ UNCHANGED <<now, traffic, vault, counter, events, usages, lastUse, faults, refunds>>

-----------------------------------------------------------------------------
(* Failures *)

\* A database error: once the slot is claimed, the handler gives it back and
\* raises; a visit not undone, or an event already committed, stays.
DatabaseFails(p) ==
  /\ faults < MaxFaults /\ faults' = faults + 1
  /\ post[p].pc \in {"scan", "pick", "commit", "undo", "mark", "persist", "redirect"}
  /\ Moves(p, [held |-> {},
               pc |-> IF post[p].pc \in {"persist", "redirect"} THEN "done" ELSE "raise"])
  /\ refunds' = IF At(p, "mark") THEN refunds + 1 ELSE refunds
  /\ UNCHANGED <<now, traffic, vault, attempt, counter, events, usages, lastUse>>

WorkerKilled(p) ==
  /\ faults < MaxFaults /\ faults' = faults + 1
  /\ post[p].pc \notin {"free", "done"}
  /\ Moves(p, [held |-> {}, slot |-> FALSE, pc |-> "done"])
  /\ UNCHANGED <<now, traffic, vault, attempt, counter, events, usages, lastUse, refunds>>

ReuseNext ==
  \/ Tick \/ Arrive
  \/ \E p \in Posts :
       \/ Submit(p) \/ Decide(p) \/ ReadBaseline(p) \/ ClaimMonthSlot(p)
       \/ ScanVault(p) \/ PickProfile(p) \/ CommitReuse(p) \/ UndoReservation(p)
       \/ MarkPool(p) \/ ReleaseMonthSlot(p)
       \/ EnsureUid(p) \/ Persist(p) \/ Redirect(p)
       \/ DatabaseFails(p) \/ WorkerKilled(p)

ReuseSpec == ReuseInit /\ [][ReuseNext]_reuseVars

-----------------------------------------------------------------------------
(* Properties *)

\* A profile serves one project once: no two attempts of a survey are sent the
\* same UID, whether it was reused or registered there (the permanent
\* same-project exclusion of _commit_reuse).
ProfileOncePerProject ==
  \A a, b \in Attempts :
    a # b /\ SurveyOf[a] = SurveyOf[b] /\ attempt[a].chosen # 0 =>
      attempt[a].chosen \notin {attempt[b].chosen, attempt[b].uid}

\* The per-UID policy holds for committed reuses however requests interleave:
\* the minimum interval, and the rolling limit counted back from each reuse.
ReusePolicyHolds ==
  \A e \in events :
    /\ \A f \in events \ {e} : f.uid = e.uid => f.at + Interval <= e.at \/ e.at + Interval <= f.at
    /\ Cardinality({f \in events : f.uid = e.uid /\ f.at <= e.at /\ f.at + Window >= e.at}) <= MaxUses

\* The month's slots cover the committed reuses and the requests still holding
\* one, except those that a failing _mark_pool gave back; and the slots never
\* exceed the target the counter itself shows.
BudgetCoversReuses ==
  /\ Cardinality(events) + Cardinality({p \in Posts : post[p].slot /\ post[p].pc \notin {"mark", "raise"}})
       <= counter.allocated + refunds
  /\ counter.allocated <= counter.target

\* Every committed reuse is a visit of the vault row: undoing a lost race takes
\* back only its own visit.
VisitsCoverReuses ==
  \A u \in Uids : vault[u] # NoRow =>
    vault[u].usage >= 1 + Cardinality({e \in events : e.uid = u})

\* RID and UID of the vault stay one to one, and a row belongs to the attempt
\* its UID was drawn for.
VaultPairsStand ==
  \A u, v \in Uids : vault[u] # NoRow =>
    /\ attempt[vault[u].rid].uid = u
    /\ (u # v /\ vault[v] # NoRow => vault[u].rid # vault[v].rid)

\* One decision per attempt: an event is unique, and it names the UID the
\* attempt carries.
OneDecisionPerAttempt ==
  \A e \in events : attempt[e.attempt].chosen = e.uid
                     /\ \A f \in events : f.attempt = e.attempt => f = e

\* Every reuse that commits was allowed: _commit_reuse checks again, under its
\* locks, what the vault scan saw without them.
ReusesAllowed == ProfileOncePerProject /\ ReusePolicyHolds

\* The counters of the two databases account for the reuses, although no
\* transaction spans them and compensations may fail.
CountsCoverReuses == BudgetCoversReuses /\ VisitsCoverReuses

\* The rows of an attempt in the two databases belong together: its UID, its
\* vault row and its event, however its requests overlap.
VaultSound == ReuseTypeOK /\ VaultPairsStand /\ OneDecisionPerAttempt
=============================================================================
