--------------------------- MODULE TrafficReports ---------------------------
(***************************************************************************)
(* Traffic reports over respondent journeys: the main and the partner      *)
(* dashboards, User Hits and the termination report.  A report fixes one   *)
(* instant and one viewer scope, derives its window and its chart buckets, *)
(* and then issues one query per card, chart and table, outside any        *)
(* transaction, while entries commit and journeys end.                     *)
(*                                                                         *)
(* Counts are kept as the sets of journeys they count.  Time is in chart   *)
(* units: the two-hour buckets of a day, DayLength to the day.             *)
(***************************************************************************)
EXTENDS Integers, Sequences, FiniteSets, FiniteSetsExt

CONSTANTS
    ReportUsers, \* platform users, as primary keys
    EmployeeId,  \* [ReportUsers -> the employee id (username, email) of each]
    NoOwner,     \* platform_user is null: a row of an early link
    Hits,        \* journeys
    Sponsors,    \* clients
    SponsorOf,   \* [Hits -> Sponsors]: the client of the journey's survey
    Entries,     \* the [owner, legacy] a journey may start with
    Scopes,      \* the users a viewer may see
    DayLength,
    MonthStarts, \* sequence of the instants at which months begin
    YearMonths,  \* the months of MonthStarts that begin a financial year
    Kinds,       \* the ranges a viewer may select
    Rolling,     \* buckets of a rolling range
    RollingDays, \* days of a rolling range charted by day
    DailyUpTo,   \* days up to which a custom range is charted by day
    TableRows,   \* rows of the client table before "Other clients"
    LastInstant, \* bound on the clock
    MaxMoved     \* bound on the journeys that change under one report

MonthNumbers == DOMAIN MonthStarts

ASSUME ReportAssumption ==
    /\ NoOwner \notin ReportUsers
    /\ SponsorOf \in [Hits -> Sponsors]
    /\ \A e \in Entries : e.owner \in ReportUsers \cup {NoOwner}
    /\ \A scope \in Scopes : scope \subseteq ReportUsers
    /\ DayLength \in Nat \ {0} /\ Rolling \in Nat /\ RollingDays \in Nat /\ LastInstant \in Nat
    /\ MonthStarts \in Seq(Nat) /\ MonthStarts # <<>>
    /\ \A m, n \in MonthNumbers : m < n => MonthStarts[m] < MonthStarts[n]
    /\ MonthStarts[1] = 0 /\ MonthStarts[Len(MonthStarts)] > LastInstant
    /\ YearMonths \subseteq MonthNumbers /\ 1 \in YearMonths
    /\ Kinds \subseteq {"rolling", "days", "today", "date", "month", "months", "fy", "custom"}

VARIABLES
    instant,  \* timezone.now()
    journey,  \* [Hits -> the attempt row]
    report,   \* the report being built
    moved     \* history: journeys that changed while it was built

reportVars == <<instant, journey, report, moved>>

Unborn == [at |-> "unborn", entered |-> 0, owner |-> NoOwner, legacy |-> 0]

NoReport == [at |-> "idle", kind |-> "today", now |-> 0, scope |-> {}, partner |-> FALSE,
             summary |-> {}, series |-> <<>>, table |-> {}, previous |-> {}]

ReportInit ==
    /\ instant = 0
    /\ journey = [h \in Hits |-> Unborn]
    /\ report = NoReport
    /\ moved = {}

----------------------------------------------------------------------------
(* Windows, buckets and baselines.                                         *)

MidnightOf(t) == t - (t % DayLength)

MonthOfInstant(t) == Max({m \in MonthNumbers : MonthStarts[m] <= t})

\* _month_shift: the first instant of a month that many months away.
MonthShift(t, n) == MonthStarts[Max({1, Min({MonthOfInstant(t) + n, Len(MonthStarts)})})]

\* The viewer selects the first financial year with traffic.
FinancialYearStart == MonthStarts[Min(YearMonths)]

FinancialYearEnd ==
    LET later == YearMonths \ {Min(YearMonths)}
    IN  MonthStarts[IF later = {} THEN Len(MonthStarts) ELSE Min(later)]

\* A custom range is the two days up to the anchor, a selected date the day
\* before it.
WindowStart(kind, now) ==
    CASE kind = "rolling" -> now - Rolling
      [] kind = "days"    -> now - RollingDays * DayLength
      [] kind = "today"   -> MidnightOf(now)
      [] kind = "date"    -> MidnightOf(now) - DayLength
      [] kind = "month"   -> MonthStarts[MonthOfInstant(now)]
      [] kind = "months"  -> MonthShift(now, -1)
      [] kind = "fy"      -> FinancialYearStart
      [] kind = "custom"  -> Max({0, MidnightOf(now) - DayLength})

WindowEnd(kind, now) ==
    CASE kind = "fy"   -> Min({now, FinancialYearEnd})
      [] kind = "date" -> MidnightOf(now)
      [] OTHER         -> now

CustomDays(start, end) == (MidnightOf(end) - start) \div DayLength + 1

\* Where the bucket that begins at t ends, before it is cut at the window's end.
NextEdge(kind, start, end, t) ==
    CASE kind \in {"rolling", "today", "date"} -> t + 1
      [] kind \in {"days", "month"}            -> t + DayLength
      [] kind \in {"months", "fy"}             -> MonthShift(t, 1)
      [] kind = "custom"                       ->
            IF CustomDays(start, end) = 1 THEN t + 1
            ELSE IF CustomDays(start, end) <= DailyUpTo THEN t + DayLength
            ELSE MonthShift(t, 1)

\* A fault: the loop runs once more when the window ends on an edge.
LowersClosed(kind, start, end) ==
    LET edges[n \in 0 .. end - start + 1] ==
            IF n = 0 THEN {start}
            ELSE edges[n - 1] \cup {NextEdge(kind, start, end, t) : t \in edges[n - 1]}
    IN  {t \in edges[end - start + 1] : t <= end}

\* The while loop over the buckets, as the set of their lower edges.
Lowers(kind, start, end) ==
    LET edges[n \in 0 .. end - start + 1] ==
            IF n = 0 THEN {start}
            ELSE edges[n - 1] \cup {NextEdge(kind, start, end, t) : t \in edges[n - 1]}
    IN  {t \in edges[end - start + 1] : t < end}

Upper(kind, start, end, t) == Min({end, NextEdge(kind, start, end, t)})

\* dashboard_comparison_window and the partner pages' full previous period.
BaselineStart(kind, start, end, partner) ==
    CASE kind = "month"             -> MonthShift(start, -1)
      [] kind = "today" /\ partner  -> start - DayLength
      [] OTHER                      -> start - (end - start)

\* A fault: the previous month is compared as a whole.
BaselineEndWhole(kind, start, end, partner) == start

BaselineEnd(kind, start, end, partner) ==
    IF kind = "month" /\ ~partner
    THEN Min({start, MonthShift(start, -1) + (end - start)})
    ELSE start

----------------------------------------------------------------------------
(* Scope and the owner of a journey.                                       *)

IsStored(h) == journey[h].at \in {"started", "completed"}

\* Studies and the dashboards: the foreign key only.
DashboardRows(scope) == {h \in Hits : IsStored(h) /\ journey[h].owner \in scope}

\* A fault: the upper bound of a period is inclusive.
BetweenInclusive(rows, lower, upper) ==
    {h \in rows : lower <= journey[h].entered /\ journey[h].entered <= upper}

Between(rows, lower, upper) ==
    {h \in rows : lower <= journey[h].entered /\ journey[h].entered < upper}

Completed(rows) == {h \in rows : journey[h].at = "completed"}

\* A fault: an employee id takes precedence over a primary key.
LegacyOwnerNamed(id, scope) ==
    LET named == {u \in scope : EmployeeId[u] = id}
    IN  IF named # {} THEN {CHOOSE u \in named : TRUE}
        ELSE IF id \in scope THEN {id} ELSE {}

\* _legacy_identifier_user_map over the visible users: primary keys win.
LegacyOwner(id, scope) ==
    IF id \in scope THEN {id}
    ELSE LET named == {u \in scope : EmployeeId[u] = id}
         IN  IF named = {} THEN {} ELSE {CHOOSE u \in named : TRUE}

\* User Hits and the user dashboard: the journeys of one visible user.
UserHitRows(u, scope) ==
    {h \in Hits :
        /\ IsStored(h)
        /\ \/ journey[h].owner = u
           \/ /\ journey[h].owner = NoOwner
              /\ u \in LegacyOwner(journey[h].legacy, scope)}

\* _scope_attempt_queryset_to_user: the snapshot counts without the key only.
TrackedRows(scope) ==
    {h \in Hits :
        /\ IsStored(h)
        /\ \/ journey[h].owner \in scope
           \/ journey[h].owner = NoOwner /\ journey[h].legacy \in scope}

----------------------------------------------------------------------------
(* Journeys.                                                               *)

Touched(h) ==
    /\ report.at # "idle" => Cardinality(moved) < MaxMoved
    /\ moved' = IF report.at = "idle" THEN {} ELSE moved \cup {h}

\* The entry request stamps initiated_at; its transaction is still open.
Enter(h, e) ==
    /\ journey[h].at = "unborn"
    /\ journey' = [journey EXCEPT ![h] =
            [at |-> "entering", entered |-> instant, owner |-> e.owner, legacy |-> e.legacy]]
    /\ UNCHANGED <<instant, report, moved>>

CommitEntry(h) ==
    /\ journey[h].at = "entering"
    /\ journey' = [journey EXCEPT ![h].at = "started"]
    /\ Touched(h)
    /\ UNCHANGED <<instant, report>>

Complete(h) ==
    /\ journey[h].at = "started"
    /\ journey' = [journey EXCEPT ![h].at = "completed"]
    /\ Touched(h)
    /\ UNCHANGED <<instant, report>>

\* A report is built in less than a unit.
TimePasses ==
    /\ instant < LastInstant
    /\ report.at = "idle" \/ instant = report.now
    /\ instant' = instant + 1
    /\ UNCHANGED <<journey, report, moved>>

----------------------------------------------------------------------------
(* One report, query by query.                                             *)

Start == WindowStart(report.kind, report.now)
End == WindowEnd(report.kind, report.now)

\* Reports share nothing, so one is followed to its end.  The partner pages
\* differ in the baselines of these two ranges.
Anchor(kind, scope, partner) ==
    /\ report.at = "idle"
    /\ partner => kind \in {"today", "month"}
    /\ WindowStart(kind, instant) >= 0
    /\ report' = [NoReport EXCEPT !.at = "summary", !.kind = kind, !.now = instant,
                                  !.scope = scope, !.partner = partner]
    /\ moved' = {}
    /\ UNCHANGED <<instant, journey>>

Current == Between(DashboardRows(report.scope), Start, End)

ReadSummary ==
    /\ report.at = "summary"
    /\ report' = [report EXCEPT !.at = "series", !.summary = Current]
    /\ UNCHANGED <<instant, journey, moved>>

BucketUpper(t) == Upper(report.kind, Start, End, t)

ReadSeries ==
    /\ report.at = "series"
    /\ report' = [report EXCEPT !.at = "table",
            !.series = [t \in Lowers(report.kind, Start, End) |->
                            Between(Current, t, BucketUpper(t))]]
    /\ UNCHANGED <<instant, journey, moved>>

\* The client table: the rows with the most completes, and the others as one.
RowOf(c) == {h \in Current : SponsorOf[h] = c}

ListedClients == {c \in Sponsors : RowOf(c) # {}}

\* A fault: the rows after the kept ones are dropped.
FoldedAway(kept) == {RowOf(c) : c \in kept}

Folded(kept) == {RowOf(c) : c \in kept} \cup {UNION {RowOf(c) : c \in ListedClients \ kept}}

ReadTable ==
    /\ report.at = "table"
    /\ \E kept \in SUBSET ListedClients :
        /\ Cardinality(kept) = IF Cardinality(ListedClients) <= TableRows + 1
                               THEN Cardinality(ListedClients) ELSE TableRows
        /\ \A c \in kept, d \in ListedClients \ kept :
                Cardinality(Completed(RowOf(c))) >= Cardinality(Completed(RowOf(d)))
        /\ report' = [report EXCEPT !.at = "baseline", !.table = Folded(kept)]
    /\ UNCHANGED <<instant, journey, moved>>

ReadBaseline ==
    /\ report.at = "baseline"
    /\ report' = [report EXCEPT !.at = "done",
            !.previous = Between(DashboardRows(report.scope),
                                 BaselineStart(report.kind, Start, End, report.partner),
                                 BaselineEnd(report.kind, Start, End, report.partner))]
    /\ UNCHANGED <<instant, journey, moved>>

ReportNext ==
    \/ TimePasses
    \/ \E h \in Hits :
        \/ \E e \in Entries : Enter(h, e)
        \/ CommitEntry(h)
        \/ Complete(h)
    \/ \E k \in Kinds, scope \in Scopes, partner \in BOOLEAN : Anchor(k, scope, partner)
    \/ ReadSummary
    \/ ReadSeries
    \/ ReadTable
    \/ ReadBaseline

ReportSpec == ReportInit /\ [][ReportNext]_reportVars

----------------------------------------------------------------------------
(* Properties.                                                             *)

ReportTypeOK ==
    /\ instant \in 0 .. LastInstant
    /\ \A h \in Hits : /\ journey[h].at \in {"unborn", "entering", "started", "completed"}
                       /\ journey[h].entered \in 0 .. instant
    /\ report.kind \in Kinds \cup {"today"} /\ report.now \in 0 .. instant
    /\ report.summary \cup report.previous \subseteq Hits
    /\ \A t \in DOMAIN report.series : t < report.now
    /\ moved \subseteq Hits

\* A journey that did not change while the report was built is counted by the
\* summary card exactly when one bucket of the chart and one row of the client
\* table count it: the buckets of every range tile its window and the folded
\* table loses nobody.
CountedOnce ==
    report.at = "done" =>
        \A h \in Hits \ moved :
            LET buckets == {t \in DOMAIN report.series : h \in report.series[t]}
                rows == {row \in report.table : h \in row}
            IN  /\ (h \in report.summary) = (Cardinality(buckets) = 1)
                /\ (h \in report.summary) = (Cardinality(rows) = 1)
                /\ Cardinality(buckets) <= 1

\* No journey counts in a period and in the baseline it is compared with; and
\* for a rolling range or a day the two leave no gap.
PeriodsDisjoint ==
    report.at = "done" =>
        /\ report.summary \cap report.previous = {}
        /\ report.kind \in {"rolling", "days", "date"} =>
            Between(DashboardRows(report.scope) \ moved, Start - (End - Start), End)
                \subseteq report.summary \cup report.previous

\* The comparison of a month to date covers no more time than the month so far.
BaselineIsFair ==
    report.at = "done" /\ ~report.partner =>
        BaselineEnd(report.kind, Start, End, FALSE) - BaselineStart(report.kind, Start, End, FALSE)
            <= End - Start

\* The two ways of reading early rows agree: a row the termination report shows
\* is credited by User Hits to the user whose primary key it carries, to no
\* second user, and a row with an owner never to anybody else.
LegacyOwnersAgree ==
    LET scope == report.scope IN
    report.at = "done" =>
        /\ \A h \in TrackedRows(scope) :
                LET credited == {u \in scope : h \in UserHitRows(u, scope)}
                IN  credited = {IF journey[h].owner = NoOwner THEN journey[h].legacy
                                ELSE journey[h].owner}
        /\ \A h \in Hits : Cardinality({u \in scope : h \in UserHitRows(u, scope)}) <= 1

\* The parts of one report agree with each other and with the baseline and the
\* owners they are compared with, although every part is a query of its own.
ReportInv ==
    ReportTypeOK /\ CountedOnce /\ PeriodsDisjoint /\ BaselineIsFair /\ LegacyOwnersAgree
=============================================================================
