------------------------------ MODULE Outreach ------------------------------
(***************************************************************************)
(* What the program says to people of its own accord: the reminder of an   *)
(* appointment (cron/reminder.go), the messages of the first month         *)
(* (cron/lifecycle.go), the offer of an idle slot (cron/idle_push.go), the *)
(* end of a subscription (cron/subscription.go) and the notices of a leave *)
(* with their retries (storage/barber_leave.go, storage/notification.go).  *)
(*                                                                         *)
(* A message and the record of it are two steps, each of which can fail,   *)
(* and the process can stop between them.  Reminders, offers and notices   *)
(* send first and record then; the others record first.                    *)
(***************************************************************************)
EXTENDS Integers, FiniteSets

CONSTANTS
    Appts, Guests, Subs, Notes,     \* appointments, dormant customers, subscriptions, leave notices
    Admins,         \* requests of the admin API that retry notices
    Window,         \* [Appts \cup Nodes \cup Guests -> sets of times]: when each is due
    Ends,           \* possible ends of the first subscription; time for one is in half days
    Period,         \* length of a renewal
    MaxClock        \* bound: time

Nodes == {"D3", "D15", "D25"}
Timed == Appts \cup Nodes \cup Guests
Items == Timed \cup Subs \cup Notes

\* The jobs of cron and the items each goes through.
Of == [remind |-> Appts, lifecycle |-> Nodes, idle |-> Guests, subscription |-> Subs]
Jobs == DOMAIN Of

\* Assumed by the modules that instantiate this one.
OutreachAssumption ==
    /\ Window \in [Timed -> SUBSET Nat] /\ MaxClock \in Nat
    /\ Ends \subseteq Nat /\ Period \in Nat \ {0}     \* a subscription ends after it begins
    /\ Subs \cap (Timed \cup Notes) = {} /\ Notes \cap Timed = {}
    /\ Guests \cap (Appts \cup Nodes) = {} /\ Appts \cap Nodes = {}
    /\ IsFiniteSet(Items) /\ IsFiniteSet(Admins) /\ "leave" \notin Admins

VARIABLES
    clock, up,
    there,          \* active appointments, nodes of a shop in use, open subscriptions, notices to give
    ends,           \* subscriptions.expires_at
    log,            \* reminder_logs and event_logs: the keys written
    run,            \* the jobs: [step, todo, item, live, got]
    fired,          \* jobs that ran at this time
    row,            \* customer_notifications.status, "none" before there is a row
    work,           \* who is sending notices: the request that made the leave, and retries
    said,           \* what a record calls sent
    told,           \* how often each was delivered, up to 2
    unsure,         \* items delivered without the program getting to know or to record it
    warned, over    \* subscriptions warned of (or tried), and told to be over

jobs    == <<log, run, fired>>
notices == <<row, work>>
subs    == <<ends, warned, over>>
vars    == <<clock, up, there, jobs, notices, subs, said, told, unsure>>

Off  == [step |-> "off", todo |-> {}, item |-> "none", live |-> TRUE, got |-> "none"]
Rest == [step |-> "rest", todo |-> {}, item |-> "none", got |-> "none"]
Senders == Admins \cup {"leave"}

TypeOK ==
    /\ clock \in 0..MaxClock /\ up \in BOOLEAN /\ there \subseteq Items
    /\ log \subseteq Items \cup {"D7"} /\ fired \subseteq Jobs
    /\ \A j \in Jobs : run[j].step \in {"off", "next", "send", "log"} /\ run[j].todo \subseteq Of[j]
    /\ \A w \in Senders : work[w].step \in {"rest", "next", "send", "mark"} /\ work[w].todo \subseteq Notes
    /\ row \in [Notes -> {"none", "pending", "sent", "failed", "skipped"}]
    /\ said \subseteq Items /\ unsure \subseteq Items /\ told \in [Items -> 0..2]

Init ==
    /\ clock = 0 /\ up = TRUE
    /\ there \in {T \in SUBSET Items : (Nodes \subseteq T \/ T \cap Nodes = {}) /\ Cardinality(T \cap Subs) <= 1}
    /\ ends \in [Subs -> Ends]
    /\ log = {} /\ run = [j \in Jobs |-> Off] /\ fired = {}
    /\ row = [n \in Notes |-> "none"] /\ work = [w \in Senders |-> Rest]
    /\ said = {} /\ told = [i \in Items |-> 0] /\ unsure = {} /\ warned = {} /\ over = {}

\* What the messenger does with a message: it arrives and is acknowledged, it arrives and the
\* answer is lost, or it does not arrive.
Outcomes == {"ok", "lost", "refused"}
Deliver(i, o) == told' = [told EXCEPT ![i] = IF o # "refused" /\ @ < 2 THEN @ + 1 ELSE @]

------------------------------------------------------------------------------
(* The four jobs *)

\* int(time.Until(expires).Hours() / 24): the scan has taken some time, so a little less than
\* the whole of it is left, and what is past is truncated towards today.
DaysLeft(s) == LET d == ends[s] - clock IN IF d > 0 THEN (d - 1) \div 2 ELSE -((-d) \div 2)

Over(s) == DaysLeft(s) < 0

\* Mutant: a shop is warned once, whatever is left.
Quiet_ForGood(s) == "D7" \in log

\* A warning already given is not repeated while more than a day is left.
Quiet(s) == "D7" \in log /\ DaysLeft(s) > 1

Warn(s) == DaysLeft(s) \in {0, 1, 3} /\ ~Quiet(s)

\* What a subscription is due: the news that it is over, a warning, or nothing.
Handle(s) == IF Over(s) THEN "over" ELSE IF Warn(s) THEN "warn" ELSE "none"

\* The event that marks the node done.  triggerWecom writes that of D+3 for every node it serves.
Key(i) == IF i = "D25" THEN "D3" ELSE IF i \in Subs THEN "D7" ELSE i

Now(i) == i \in there /\ clock \in Window[i]

\* HasShopEvent, and the same question of reminder_logs: a failure counts as done.
Recorded(i) == i \in log

\* Mutant: the appointments already reminded of are not left out.
FindAppointmentsToRemind_All == {a \in Appts : Now(a)}

\* These two look at the records already when they list.
FindAppointmentsToRemind == {a \in Appts : Now(a) /\ ~Recorded(a)}
FindShopsForLifecycle == {d \in Nodes : Now(d) /\ ~Recorded(d)}

\* The dormant customers and the subscriptions are looked at one by one later.
Dormant == {g \in Guests : Now(g)}
Ending  == {s \in Subs \cap there : clock % 2 = 0 /\ ends[s] <= clock + 6}

Listed == [remind |-> FindAppointmentsToRemind, lifecycle |-> FindShopsForLifecycle,
           idle |-> Dormant, subscription |-> Ending]

\* pushForShop goes on only when some barber has a slot free in the next two hours.
SomeSlot(j) == IF j = "idle" THEN BOOLEAN ELSE {TRUE}

Fire(j) ==
    /\ up /\ run[j].step = "off" /\ j \notin fired
    /\ \E free \in SomeSlot(j) :
          run' = [run EXCEPT ![j] = [Off EXCEPT !.step = "next", !.todo = IF free THEN Listed[j] ELSE {}]]
    /\ fired' = fired \cup {j}
    /\ UNCHANGED <<clock, up, there, log, notices, subs, said, told, unsure>>

\* The next item: an offer already made today is left out, a subscription gets what it is due.
Reach(j) ==
    /\ run[j].step = "next"
    /\ \E i \in run[j].todo :
          LET to(step, got) == [run[j] EXCEPT !.step = step, !.todo = @ \ {i}, !.item = i, !.got = got]
          IN run' = [run EXCEPT ![j] =
                 CASE j = "remind" -> to("send", "none")
                   [] j = "lifecycle" -> to("log", "none")
                   [] j = "idle" -> to(IF Recorded(i) THEN "next" ELSE "send", "none")
                   [] j = "subscription" -> to(IF Handle(i) = "none" THEN "next" ELSE "log", Handle(i))]
    /\ UNCHANGED <<clock, up, there, log, fired, notices, subs, said, told, unsure>>

\* sendReminder, pushToCustomer, SendTextMessage.  Once the deadline of the scan has passed
\* nothing leaves any more; it can pass while the answer is awaited.
Send(j) ==
    /\ run[j].step = "send"
    /\ \E o \in Outcomes, late \in BOOLEAN :
          LET i == run[j].item  recorded == j = "remind" \/ (j = "idle" /\ o = "ok") IN
          /\ ~run[j].live => o = "refused"
          /\ late => o = "lost" \/ ~run[j].live
          /\ Deliver(i, o)
          /\ run' = [run EXCEPT ![j].step = IF recorded THEN "log" ELSE "next", ![j].got = IF i \in Subs THEN @ ELSE o,
                                ![j].live = @ /\ ~late]
          /\ unsure' = IF j = "idle" /\ o = "lost" THEN unsure \cup {i} ELSE unsure
          /\ warned' = IF run[j].got = "warn" THEN warned \cup {i} ELSE warned
          /\ over' = IF run[j].got = "over" THEN over \cup {i} ELSE over
    /\ UNCHANGED <<clock, up, there, ends, log, fired, notices, said>>

\* Mutant: every reminder that was tried is called sent.
Claims_Tried(j) == j \in {"remind", "idle"}

\* What MarkReminderSent calls the outcome, and an event whose existence means a message.
Claims(j) == j \in {"remind", "idle"} /\ run[j].got = "ok"

\* TrackEvent and MarkReminderSent drop the error of their insert.
Inserts(j) == IF run[j].live THEN BOOLEAN ELSE {FALSE}

\* A reminder is recorded whether it was sent or failed.
Record(j) ==
    /\ run[j].step = "log"
    /\ \E written \in Inserts(j) :
          LET i == run[j].item IN
          /\ log' = IF written THEN log \cup {IF run[j].got = "over" THEN i ELSE Key(i)} ELSE log
          /\ said' = IF written /\ Claims(j) THEN said \cup {i} ELSE said
          /\ unsure' = IF ~written /\ run[j].got # "refused" THEN unsure \cup {i} ELSE unsure
    /\ run' = [run EXCEPT ![j].step = IF j \in {"lifecycle", "subscription"} THEN "send" ELSE "next"]
    /\ UNCHANGED <<clock, up, there, fired, notices, subs, told>>

\* The context of the scan ends before its list does.
Deadline(j) ==
    /\ run[j].step # "off" /\ run[j].live
    /\ run' = [run EXCEPT ![j].live = FALSE]
    /\ UNCHANGED <<clock, up, there, log, fired, notices, subs, said, told, unsure>>

Finish(j) ==
    /\ run[j].step = "next" /\ run[j].todo = {}
    /\ run' = [run EXCEPT ![j] = Off]
    /\ UNCHANGED <<clock, up, there, log, fired, notices, subs, said, told, unsure>>

------------------------------------------------------------------------------
(* Notices of a leave *)

\* Mutant: the retry does not look at the status.
Retryable_Any(n) == row[n] # "none"

\* RetryNotification refuses what was sent.
Retryable(n) == row[n] \in {"pending", "failed", "skipped"}

Quietly == UNCHANGED <<clock, up, there, jobs, subs>>

\* CreateBarberLeave goes through the appointments it touched.
StartNotices ==
    /\ up /\ work["leave"] = Rest /\ Notes \cap there # {}
    /\ work' = [work EXCEPT !["leave"] = [Rest EXCEPT !.step = "next", !.todo = Notes \cap there]]
    /\ there' = there \ Notes
    /\ UNCHANGED <<clock, up, jobs, subs, row, said, told, unsure>>

\* The row is written before the message goes; without a row the message still goes.
OpenNotice ==
    /\ work["leave"].step = "next"
    /\ \E n \in work["leave"].todo, made \in BOOLEAN :
          /\ row' = IF made THEN [row EXCEPT ![n] = "pending"] ELSE row
          /\ work' = [work EXCEPT !["leave"].step = "send", !["leave"].todo = @ \ {n}, !["leave"].item = n]
    /\ Quietly /\ UNCHANGED <<said, told, unsure>>

Take(w, N) ==
    /\ up /\ work[w] = Rest /\ N # {}
    /\ work' = [work EXCEPT ![w] = [Rest EXCEPT !.step = "next", !.todo = N]]
    /\ Quietly /\ UNCHANGED <<row, said, told, unsure>>

\* The admin asks for one notice again, or for all that failed, which are then taken in turn.
AskRetry(w) == \E n \in Notes : row[n] # "none" /\ Take(w, {n})
AskRetryAll(w) == Take(w, {n \in Notes : row[n] = "failed"})

\* RetryNotification reads the row; two that hold the same notice at once cannot know of each other.
ReadNotice(w) ==
    /\ work[w].step = "next"
    /\ \E n \in work[w].todo :
          LET rivals == \E v \in Senders \ {w} : work[v].step \in {"send", "mark"} /\ work[v].item = n IN
          /\ work' = [work EXCEPT ![w].todo = @ \ {n}, ![w].item = n,
                                     ![w].step = IF Retryable(n) THEN "send" ELSE "next"]
          /\ unsure' = IF Retryable(n) /\ rivals THEN unsure \cup {n} ELSE unsure
    /\ Quietly /\ UNCHANGED <<row, said, told>>

\* SelectChannel: a customer without any channel is skipped; one with only a telephone, and a
\* shop without its account, are errors.
SelectChannel == {"wecom", "phone", "nothing"}

\* SendWithRetry: the attempts end with the first that is acknowledged; before it, and on any
\* of them when all fail, the message can have arrived and the answer been lost.
SendWithRetry == {[got |-> "sent", arrived |-> k] : k \in 1..3} \cup {[got |-> "failed", arrived |-> k] : k \in 0..3}

\* The sender of main.go.
SendNotice(w) ==
    /\ work[w].step = "send"
    /\ LET n == work[w].item IN
       \E channel \in SelectChannel, try \in SendWithRetry :
          LET got == CASE channel = "wecom" -> try.got [] channel = "phone" -> "failed" [] OTHER -> "skipped"
              more == IF channel = "wecom" THEN try.arrived ELSE 0
              lost == more > (IF got = "sent" THEN 1 ELSE 0)
          IN /\ told' = [told EXCEPT ![n] = IF @ + more > 2 THEN 2 ELSE @ + more]
             /\ unsure' = IF lost THEN unsure \cup {n} ELSE unsure
             /\ work' = [work EXCEPT ![w].step = "mark", ![w].got = got]
    /\ Quietly /\ UNCHANGED <<row, said>>

\* MarkNotificationSent leaves a row alone that was sent before; the other two overwrite it.
MarkNotice(w) ==
    /\ work[w].step = "mark"
    /\ \E written \in BOOLEAN :
          LET n == work[w].item  got == work[w].got  on == written /\ row[n] # "none" IN
          /\ row' = IF on THEN [row EXCEPT ![n] = got] ELSE row
          /\ said' = IF on THEN IF got = "sent" THEN said \cup {n} ELSE said \ {n} ELSE said
          /\ unsure' = IF ~on /\ got = "sent" THEN unsure \cup {n} ELSE unsure
          /\ work' = [work EXCEPT ![w].step = "next"]
    /\ Quietly /\ UNCHANGED told

EndNotices(w) ==
    /\ work[w].step = "next" /\ work[w].todo = {}
    /\ work' = [work EXCEPT ![w] = Rest]
    /\ Quietly /\ UNCHANGED <<row, said, told, unsure>>

------------------------------------------------------------------------------
(* Around them *)

\* An appointment is cancelled; a customer comes back.
Leave(i) ==
    /\ i \in there \cap (Appts \cup Guests)
    /\ there' = there \ {i}
    /\ UNCHANGED <<clock, up, jobs, notices, subs, said, told, unsure>>

\* A renewal closes the subscription and opens the next one.
Renew(s, t) ==
    /\ s \in there /\ t \notin there /\ t # s /\ t \notin warned \cup over
    /\ there' = (there \ {s}) \cup {t}
    /\ ends' = [ends EXCEPT ![t] = clock + Period]
    /\ UNCHANGED <<clock, up, jobs, notices, warned, over, said, told, unsure>>

\* Everything in flight is lost with the process.
Crash ==
    /\ up /\ up' = FALSE
    /\ run' = [j \in Jobs |-> Off] /\ work' = [w \in Senders |-> Rest]
    /\ unsure' = unsure
          \cup {run[j].item : j \in {k \in Jobs : run[k].step = "log" /\ run[k].got \in {"ok", "lost"}}}
          \cup {work[w].item : w \in {v \in Senders : work[v].step = "mark" /\ work[v].got = "sent"}}
          \cup (Subs \cap there)
    /\ UNCHANGED <<clock, there, log, fired, row, subs, said, told>>

Restart ==
    /\ ~up /\ up' = TRUE
    /\ UNCHANGED <<clock, there, jobs, notices, subs, said, told, unsure>>

\* Time passes.  A process that is up has run the jobs of the hour that found something to do.
Tick ==
    /\ clock < MaxClock /\ clock' = clock + 1
    /\ up => \A j \in Jobs : run[j] = Off /\ (j \in fired \/ Listed[j] = {})
    /\ fired' = {}
    /\ unsure' = IF up THEN unsure ELSE unsure \cup (Subs \cap there)
    /\ UNCHANGED <<up, there, log, run, notices, subs, said, told>>

Next ==
    \/ \E j \in Jobs : Fire(j) \/ Reach(j) \/ Send(j) \/ Record(j) \/ Deadline(j) \/ Finish(j)
    \/ StartNotices \/ OpenNotice
    \/ \E w \in Admins : AskRetry(w) \/ AskRetryAll(w) \/ ReadNotice(w)
    \/ \E w \in Senders : SendNotice(w) \/ MarkNotice(w) \/ EndNotices(w)
    \/ \E i \in Items : Leave(i)
    \/ \E s, t \in Subs : Renew(s, t)
    \/ Crash \/ Restart \/ Tick

Spec == Init /\ [][Next]_vars

------------------------------------------------------------------------------
(* Properties *)

\* Nobody is told the same thing twice, unless a message arrived without the program getting to
\* know or to record it: then it tries again.  The node D+25 is the exception, see the README.
SaidOnce == \A i \in (Appts \cup Guests \cup Notes \cup {"D3", "D15"}) : told[i] > 1 => i \in unsure

\* What a record calls sent has reached somebody.
RecordsAreTrue == \A i \in said : told[i] > 0

\* A shop is told that its subscription is over only after it was warned of its end, unless the
\* process stopped while it ran; a warning for an earlier period does not count for the next.
WarnedBeforeOver == over \subseteq warned \cup unsure

------------------------------------------------------------------------------
(* What the code's comments say and it does not keep; see the README. *)

\* D+25 is said once as well.
EachNodeOnce == \A d \in Nodes : told[d] > 1 => d \in unsure

\* What was recorded as sent stays so.
SentStays == [][\A n \in Notes : row[n] = "sent" => row'[n] = "sent"]_vars

\* The warning three days ahead happens.
NeverThreeDays == \A s \in run["subscription"].todo : DaysLeft(s) # 3
==============================================================================
