------------------------------- MODULE Reports -------------------------------
(***************************************************************************)
(* What the shop is told about itself: the weekly report of a shop and of  *)
(* all shops, the report of the first days, the two dashboards, the alerts *)
(* (storage/usage_report.go, chain_repo.go, cron/weekly_report.go,         *)
(* api/chain_dashboard.go and the queries of api/api.go and                *)
(* api/admin_features.go).                                                 *)
(*                                                                         *)
(* Each is computed from the tables when it is asked for.  The job makes   *)
(* the weekly reports at nine on one day of the week, so that its window   *)
(* begins and ends in the middle of a day; a handler makes them for the    *)
(* midnight of a date.  Time is counted in halves of a day, split at nine; *)
(* appointments are made for later and change status when they please.     *)
(***************************************************************************)
EXTENDS Integers, FiniteSets, FiniteSetsExt

CONSTANTS
    Shops,
    Appts, ShopOf, CustomerOf,  \* appointments; shop and customer of each
    Customers,                  \* ranked customers; a set of numbers
    Types,                      \* types of events, one of which is a hand-off
    Week, First, Baseline,      \* days of the weekly report, of the first report and of its first phase
    RankLimit, PageLimit,       \* rows of a ranking and of the list of appointments
    MaxTime                     \* bound: the last half day

Handoff == "handoff_to_human"

\* Assumed by the modules that instantiate this one.
ReportsAssumption ==
    /\ IsFiniteSet(Appts) /\ IsFiniteSet(Shops)
    /\ ShopOf \in [Appts -> Shops] /\ CustomerOf \in [Appts -> Customers] /\ Customers \subseteq Nat
    /\ Handoff \in Types /\ {Week, First, Baseline, RankLimit, PageLimit} \subseteq Nat \ {0} /\ MaxTime \in Nat

VARIABLES
    now,
    row,        \* appointments: status, "none" before it is made, and time
    moved,      \* history: appointments moved after they were made
    event,      \* event_log of a shop: how many of each type at each time
    sent,       \* totals of the weekly reports the job has made, by time and shop
    counted     \* history: the weekly reports that counted each appointment

vars == <<now, row, moved, event, sent, counted>>

Status == {"none", "active", "completed", "noshow", "cancelled"}
Times == 0..MaxTime
Day(t) == t \div 2
Midnight(t) == 2 * Day(t)
Days(n) == 2 * n

TypeOK ==
    /\ now \in Times /\ row \in [Appts -> [status : Status, at : Times]]
    /\ moved \subseteq Appts /\ event \in [Times \X Types -> 0..1]
    /\ DOMAIN sent \subseteq Times /\ counted \in [Appts -> SUBSET Times]

------------------------------------------------------------------------------
(* Counting *)

\* Appointments of a shop that occur in [from, to).
In(shop, from, to) ==
    {a \in Appts : row[a].status # "none" /\ ShopOf[a] = shop /\ from <= row[a].at /\ row[a].at < to}

With(rows, status) == Cardinality({a \in rows : row[a].status = status})

Summary(rows) ==
    [total     |-> Cardinality(rows),
     completed |-> With(rows, "completed"), noshow |-> With(rows, "noshow"),
     cancelled |-> With(rows, "cancelled"), active |-> With(rows, "active")]

Plus(s, t) == [f \in DOMAIN s |-> s[f] + t[f]]
Zero == Summary({})

\* topServices, topCustomers, TopShops: by count, then by name, and cut.
Precedes(count, m, n) == count[m] > count[n] \/ (count[m] = count[n] /\ m < n)
Top(count, limit) ==
    LET counted_ == {n \in DOMAIN count : count[n] > 0} IN
    {n \in counted_ : Cardinality({m \in counted_ : Precedes(count, m, n)}) < limit}

Visits(rows) == [c \in Customers |-> Cardinality({a \in rows : CustomerOf[a] = c})]

\* Mutant: the days start a day late.
Trend_Late(rows, from, days) ==
    [i \in 0..(days - 1) |-> Cardinality({a \in rows : Day(row[a].at) = Day(from) + i + 1})]

\* fillDailyTrend: one entry for each of so many days from the first.
Trend(rows, from, days) ==
    [i \in 0..(days - 1) |-> Cardinality({a \in rows : Day(row[a].at) = Day(from) + i})]

------------------------------------------------------------------------------
(* The weekly report *)

\* Mutant: the week before shares its last moment with this one.
LastWeek_Inclusive(shop, t) == Summary(In(shop, t - Days(Week) - Days(Week), t - Days(Week) + 1))

LastWeek(shop, t) == Summary(In(shop, t - Days(Week) - Days(Week), t - Days(Week)))

\* Mutant: what occurs at the moment of the report is in it.
Window_Closed(shop, t) == In(shop, t - Days(Week), t + 1)

Window(shop, t) == In(shop, t - Days(Week), t)

BuildWeeklyUsageReport(shop, t) ==
    LET rows == Window(shop, t) IN
    [all   |-> Summary(rows),
     trend |-> Trend(rows, t - Days(Week), Week),
     visit |-> Visits(rows),
     top   |-> Top(Visits(rows), RankLimit),
     last  |-> LastWeek(shop, t)]

\* Mutant: the loop over the shops ends after the first.
ChainTotal_OneShop(t) == BuildWeeklyUsageReport(CHOOSE s \in Shops : TRUE, t).all

ChainTotal(t) == FoldSet(LAMBDA s, sum : Plus(sum, BuildWeeklyUsageReport(s, t).all), Zero, Shops)

\* Only what each shop ranks is added up.
ChainVisits(t) ==
    [c \in Customers |->
        LET Ranked(s) == LET r == BuildWeeklyUsageReport(s, t) IN IF c \in r.top THEN r.visit[c] ELSE 0 IN
        FoldSet(LAMBDA s, sum : sum + Ranked(s), 0, Shops)]

BuildChainWeeklyUsageReport(t) == [all |-> ChainTotal(t), top |-> Top(ChainVisits(t), RankLimit)]

------------------------------------------------------------------------------
(* The report of the first days *)

Least(x, y) == IF x < y THEN x ELSE y

\* Mutant: the second phase has no end.
Phases_Open(shop, from, to) ==
    [baseline |-> Summary(In(shop, from, Least(to, from + Days(Baseline)))),
     growth   |-> Summary(In(shop, from + Days(Baseline), MaxTime + 1))]

\* computePhaseComparison
Phases(shop, from, to) ==
    [baseline |-> Summary(In(shop, from, Least(to, from + Days(Baseline)))),
     growth   |-> Summary(In(shop, from + Days(Baseline), to))]

BuildD15UsageReport(shop, from, t) ==
    LET to   == Least(t, from + Days(First))
        days == (to - from) \div 2
        rows == In(shop, from, to)
    IN [all |-> Summary(rows), days |-> days, trend |-> Trend(rows, from, days), phases |-> Phases(shop, from, to)]

------------------------------------------------------------------------------
(* Dashboards, alerts and lists *)

\* resolveWindowBounds: the day, or the week from its first day; days are counted from such a one.
Bounds(t, window) ==
    CASE window = "today" -> [from |-> Midnight(t), to |-> Midnight(t) + Days(1)]
      [] window = "week"  -> LET first == Days(Week) * (t \div Days(Week)) IN [from |-> first, to |-> first + Days(Week)]

ShopAggregate(shop, t, window) == Summary(In(shop, Bounds(t, window).from, Bounds(t, window).to))

ChainDashboard(t, window) == FoldSet(LAMBDA s, sum : Plus(sum, ShopAggregate(s, t, window)), Zero, Shops)

\* buildDashboard: today, and the days before it with the next 24 hours.
Dashboard(shop, t) ==
    [today |-> Summary(In(shop, Midnight(t), Midnight(t) + Days(1))),
     week  |-> Summary(In(shop, Midnight(t) - Days(Week), t + Days(1)))]

\* eventFunnel counts the events before now; findHandoffCount looks for one type in what is left
\* of the ranking.
Events(type, from, to) == Cardinality({t \in Times : from <= t /\ t < to /\ event[<<t, type>>] > 0})

\* Mutant: the funnel of the week is looked at.
Since_Week(t) == Midnight(t) - Days(Week)

Since(t) == Midnight(t)

HandoffPendingToday(t) ==
    LET n == Events(Handoff, Since(t), t)
        more == {y \in Types \ {Handoff} : Events(y, Since(t), t) > n}
    IN IF Cardinality(more) < RankLimit THEN n ELSE 0

\* checkHandoffPending
HandoffAlert(t) == Cardinality({u \in Times : Midnight(t) <= u /\ event[<<u, Handoff>>] > 0})

\* listAppointmentsHandler: in the order of time, the first of them.
Listed(shop) ==
    LET all == {a \in Appts : row[a].status # "none" /\ ShopOf[a] = shop} IN
    {a \in all : Cardinality({b \in all : row[b].at < row[a].at}) < PageLimit}

------------------------------------------------------------------------------
(* The tables change, reports are made *)

Make(a, at) ==
    /\ row[a].status = "none" /\ at > now
    /\ row' = [row EXCEPT ![a] = [status |-> "active", at |-> at]]
    /\ UNCHANGED <<now, moved, event, sent, counted>>

Change(a, status) ==
    /\ row[a].status # "none"
    /\ row' = [row EXCEPT ![a].status = status]
    /\ UNCHANGED <<now, moved, event, sent, counted>>

Move(a, at) ==
    /\ row[a].status = "active" /\ at > now /\ at # row[a].at
    /\ row' = [row EXCEPT ![a].at = at] /\ moved' = moved \cup {a}
    /\ UNCHANGED <<now, event, sent, counted>>

Track(type) ==
    /\ event' = [event EXCEPT ![<<now, type>>] = 1]
    /\ UNCHANGED <<now, row, moved, sent, counted>>

Tick == now < MaxTime /\ now' = now + 1 /\ UNCHANGED <<row, moved, event, sent, counted>>

\* The job runs at nine on one day of the week, or the process is down and the week has none.
JobTime(t) == t % Days(Week) = 1

Figures(report) == [total |-> report.all.total, last |-> report.last.total]

Scan ==
    /\ JobTime(now) /\ now \notin DOMAIN sent
    /\ sent' = [t \in DOMAIN sent \cup {now} |->
                    IF t = now THEN [s \in Shops |-> Figures(BuildWeeklyUsageReport(s, now))] ELSE sent[t]]
    /\ counted' = [a \in Appts |-> IF a \in Window(ShopOf[a], now) THEN counted[a] \cup {now} ELSE counted[a]]
    /\ UNCHANGED <<now, row, moved, event>>

Init ==
    /\ now = 0 /\ row = [a \in Appts |-> [status |-> "none", at |-> 0]] /\ moved = {}
    /\ event = [x \in Times \X Types |-> 0]
    /\ sent = [t \in {} |-> <<>>] /\ counted = [a \in Appts |-> {}]

Next ==
    \/ \E a \in Appts, at \in Times : Make(a, at) \/ Move(a, at)
    \/ \E a \in Appts, s \in Status \ {"none"} : Change(a, s)
    \/ \E y \in Types : Track(y)
    \/ Tick \/ Scan

Spec == Init /\ [][Next]_vars

------------------------------------------------------------------------------
(* What the figures mean *)

\* The weeks follow each other without a gap and without sharing a moment: an appointment that was
\* not moved is in one weekly report of the job at most, and in one if the job ran after it in time
\* (WeeklyReporter: each week once, with no table of what was sent).
CountedOnce ==
    \A a \in Appts \ moved :
        /\ Cardinality(counted[a]) <= 1
        /\ \A t \in DOMAIN sent : a \in Window(ShopOf[a], t) => counted[a] = {t}

\* What a weekly report gives as the total of the week before is what the report of that week gave
\* as its own, whatever has been completed or cancelled since (countLastWeekAppointments).
LastWeekAgrees ==
    moved = {} =>
        \A t \in DOMAIN sent, s \in Shops :
            (t - Days(Week)) \in DOMAIN sent => sent[t][s].last = sent[t - Days(Week)][s].total

Sum(trend) == FoldSet(LAMBDA i, sum : sum + trend[i], 0, DOMAIN trend)

\* A report made for a midnight shows every appointment it counts on one of its days; a report
\* made at nine shows no more than it counts (getWeeklyReportHandler, fillDailyTrend).
TrendTells ==
    \A s \in Shops :
        LET r == BuildWeeklyUsageReport(s, now) IN
        /\ Sum(r.trend) <= r.all.total
        /\ now = Midnight(now) => Sum(r.trend) = r.all.total

\* The two phases of the first report, whenever it is made, add up to its total.
PhasesAddUp ==
    \A s \in Shops, from \in 0..now :
        LET r == BuildD15UsageReport(s, from, now) IN Plus(r.phases.baseline, r.phases.growth) = r.all

\* The report of all shops counts what occurred in the week, each appointment once.
ChainCountsAll ==
    ChainTotal(now) = Summary(UNION {Window(s, now) : s \in Shops})

\* The number of hand-offs on the dashboard, when it shows any, is not above that of the alert.
PendingAgrees == HandoffPendingToday(now) <= HandoffAlert(now)

------------------------------------------------------------------------------
(* What the comments say and the code does not do *)

\* "daily_trend" covers the window of the report.
TrendAddsUp ==
    \A s \in Shops : LET r == BuildWeeklyUsageReport(s, now) IN Sum(r.trend) = r.all.total

\* top_customers of the report of all shops ranks the customers of all shops.
ChainRankIsTrue ==
    BuildChainWeeklyUsageReport(now).top =
        Top([c \in Customers |-> FoldSet(LAMBDA s, sum : sum + Visits(Window(s, now))[c], 0, Shops)], RankLimit)

\* Without a date the list has the latest appointments.
LatestListed ==
    \A a \in Appts :
        \/ row[a].status = "none" \/ a \in Listed(ShopOf[a])
        \/ \E b \in Appts : ShopOf[b] = ShopOf[a] /\ row[b].status # "none" /\ row[b].at > row[a].at

\* ShopAggregateByID counts as the dashboard of the shop does.
DashboardsAgree == \A s \in Shops : ShopAggregate(s, now, "week") = Dashboard(s, now).week
=============================================================================
