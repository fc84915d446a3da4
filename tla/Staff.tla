-------------------------------- MODULE Staff --------------------------------
(***************************************************************************)
(* The barbers of the shop and their leaves, storage/barber_leave.go,      *)
(* storage/barber_crud.go and cron/leave.go, next to the appointments they *)
(* disturb: the composition of both.                                       *)
(*                                                                         *)
(* CreateBarberLeave reads the appointments it affects, handles them in a  *)
(* transaction, and tells the customers one by one after it: three kinds   *)
(* of steps.  SoftDeleteBarber counts the appointments of the barber and   *)
(* then writes: two steps.                                                 *)
(***************************************************************************)
EXTENDS Appointments

VARIABLES
    plan,           \* the handler of each leave: its step, the appointments it has to
                    \* treat or tell, and all its barber had when it looked
    leaving,        \* barbers found free of appointments, and not yet written
    misled          \* appointments cancelled, whose customers were told of a new barber

leaves    == <<plan, leaving, misled>>
staffVars == <<apptVars, staff, leaves>>

LeaveStatuses == {"none", "active", "cancelled", "expired"}
Modes == {"cancel", "reschedule"}
Fates == {"found", "cancelled", "moved", "gone"}

NoLeave == [status |-> "none", barber |-> NoBarber, from |-> 0, to |-> 0, mode |-> "cancel"]

TypeOK ==
    /\ AppointmentsTypeOK
    /\ working \subseteq Barbers /\ leaving \subseteq Barbers
    /\ excused \subseteq Appts
    /\ leave \in [Leaves -> [status : LeaveStatuses, barber : Barbers \cup {NoBarber},
                             from : Nat, to : Nat, mode : Modes]]
    /\ plan \in [Leaves -> [step : {"idle", "found", "notify", "failed"},
                            seen : SUBSET Appts, todo : SUBSET (Appts \X Fates)]]
    /\ misled \subseteq Appts

Init ==
    /\ AppointmentsInit
    /\ working = Barbers
    /\ leave = [l \in Leaves |-> NoLeave]
    /\ excused = {}
    /\ plan = [l \in Leaves |-> [step |-> "idle", seen |-> {}, todo |-> {}]]
    /\ leaving = {} /\ misled = {}

------------------------------------------------------------------------------
(* CreateBarberLeave *)

\* Mutant: the ends of the leave do not belong to it.
Affected_Open(b, from, to) ==
    {a \in Appts : Active(a) /\ row[a].barber = b /\ from < row[a].time /\ row[a].time < to}

Affected(b, from, to) ==
    {a \in Appts : Active(a) /\ row[a].barber = b /\ from <= row[a].time /\ row[a].time <= to}

\* FindAppointmentsInRange, outside the transaction.
FindAffected(l, b, from, to, mode) ==
    /\ plan[l].step = "idle" /\ from <= to
    /\ leave' = [leave EXCEPT ![l] = [NoLeave EXCEPT !.barber = b, !.from = from, !.to = to,
                                                     !.mode = mode]]
    /\ plan' = [plan EXCEPT ![l] = [step |-> "found", seen |-> {a \in Appts : Active(a) /\ row[a].barber = b},
                                    todo |-> Affected(b, from, to) \X {"found"}]]
    /\ UNCHANGED <<apptVars, working, excused, leaving, misled>>

Found(l) == {p[1] : p \in plan[l].todo}

\* findAlternateBarber: the skills only rank these.  Nobody asks for their leaves.
Alternates(l, a) ==
    {b \in working \ {leave[l].barber} : ~KeyTaken(SlotKey(b, row[a].time))}

\* cancelApptInTx, which fails the whole leave otherwise.
Cancellable(a) == Active(a)

\* The transaction of CreateBarberLeave.  The update that reassigns a row is guarded
\* by its status, and its effect is not looked at.
CommitLeave(l) ==
    /\ plan[l].step = "found"
    /\ \E to \in [Found(l) -> Barbers \cup {NoBarber}] :
         LET moved == {a \in Found(l) : to[a] # NoBarber}
             moves == {a \in moved : Active(a)}
             fate(a) == IF a \notin moved THEN "cancelled"
                        ELSE IF a \in moves THEN "moved" ELSE "gone"
         IN
         /\ \A a \in Found(l) :
              IF leave[l].mode = "reschedule" /\ Alternates(l, a) # {}
              THEN to[a] \in Alternates(l, a)
              ELSE to[a] = NoBarber /\ Cancellable(a)
         /\ row' = [a \in Appts |->
                      IF a \in moves
                      THEN [row[a] EXCEPT !.barber = to[a], !.key = SlotKey(to[a], row[a].time)]
                      ELSE IF a \in Found(l) \ moved THEN Closed(a, "cancelled")
                      ELSE row[a]]
         /\ plan' = [plan EXCEPT ![l] = [step |-> "notify", seen |-> {},
                                         todo |-> {<<a, fate(a)>> : a \in Found(l)}]]
         /\ excused' = excused
              \cup {a \in moves : OnLeave(to[a], row[a].time)}
              \cup {a \in Appts \ (plan[l].seen \cup Found(l)) : Active(a) /\ Covers(l, row[a].barber, row[a].time)}
              \cup {a \in Appts : pc[a] \in InFlight /\ Covers(l, wish[a][1], wish[a][2])}
    /\ leave' = [leave EXCEPT ![l].status = "active"]
    /\ UNCHANGED <<clock, customer, requests, jobs, working, leaving, misled>>

\* Any error rolls all of it back.
AbortLeave(l) ==
    /\ plan[l].step = "found"
    /\ plan' = [plan EXCEPT ![l] = [step |-> "failed", seen |-> {}, todo |-> {}]]
    /\ UNCHANGED <<apptVars, staff, leaving, misled>>

TellsOfNewBarber(l) == leave[l].mode = "reschedule"

\* sendLeaveNotificationsV2: the text follows the mode asked for, not what was done.
Notify(l, a) ==
    /\ plan[l].step = "notify"
    /\ \E p \in plan[l].todo :
         /\ p[1] = a
         /\ plan' = [plan EXCEPT ![l].todo = @ \ {p}]
         /\ misled' = IF TellsOfNewBarber(l) /\ p[2] = "cancelled"
                      THEN misled \cup {a} ELSE misled
    /\ UNCHANGED <<apptVars, staff, leaving>>

\* CancelBarberLeave: only before it starts; what it did to appointments stays.
CancelLeave(l) ==
    /\ leave[l].status = "active" /\ clock < leave[l].from
    /\ leave' = [leave EXCEPT ![l].status = "cancelled"]
    /\ UNCHANGED <<apptVars, working, excused, leaves>>

Overstayed(l) == leave[l].status = "active" /\ leave[l].to < clock

\* ExpireOverdueLeaves: one UPDATE for all of them.
ExpireLeaves ==
    /\ \E l \in Leaves : Overstayed(l)
    /\ leave' = [l \in Leaves |-> IF Overstayed(l) THEN [leave[l] EXCEPT !.status = "expired"]
                                  ELSE leave[l]]
    /\ UNCHANGED <<apptVars, working, excused, leaves>>

------------------------------------------------------------------------------
(* SoftDeleteBarber, ActivateBarber *)

HasFuture(b) == \E a \in Appts : Active(a) /\ row[a].barber = b /\ clock < row[a].time

CountFuture(b) ==
    /\ b \in working \ leaving /\ ~HasFuture(b)
    /\ leaving' = leaving \cup {b}
    /\ UNCHANGED <<apptVars, staff, plan, misled>>

Deactivate(b) ==
    /\ b \in leaving
    /\ leaving' = leaving \ {b}
    /\ working' = working \ {b}
    /\ excused' = excused \cup {a \in Appts : Active(a) /\ row[a].barber = b}
    /\ UNCHANGED <<apptVars, leave, plan, misled>>

Activate(b) ==
    /\ b \in Barbers \ working
    /\ working' = working \cup {b}
    /\ UNCHANGED <<apptVars, leave, excused, leaves>>

------------------------------------------------------------------------------

\* Application.Execute of the legacy adapter, and the tools on their own.
Asking == \E a \in Appts :
    \/ Refuse(a) /\ UNCHANGED leaves
    \/ \E b \in Barbers, t \in Times : Check(a, b, t) /\ UNCHANGED leaves
    \/ Lock(a) /\ UNCHANGED leaves
    \/ Create(a) /\ UNCHANGED leaves
    \/ \E x \in Appts : RescheduleCancel(a, x) /\ UNCHANGED leaves
    \/ RescheduleVerify(a) /\ UNCHANGED leaves

\* Tools of the agent and buttons of the back office.
Changing == \E a \in Appts :
    \/ CancelTool(a) /\ UNCHANGED leaves
    \/ AdminCancel(a) /\ UNCHANGED leaves
    \/ Complete(a) /\ UNCHANGED leaves
    \/ Uncomplete(a) /\ UNCHANGED leaves
    \/ Uncancel(a) /\ UNCHANGED leaves
    \/ ReadForNoShow(a) /\ UNCHANGED leaves
    \/ WriteNoShow(a) /\ UNCHANGED leaves

Scanning ==
    \/ SelectOverdue /\ UNCHANGED leaves
    \/ \E a \in Appts : MarkNoShow(a) /\ UNCHANGED leaves

Passing == Tick /\ UNCHANGED leaves

\* The handlers of /api/admin/barber/:id/leave and /api/admin/leave.
Leaving == \E l \in Leaves :
    \/ \E b \in Barbers, from, to \in Times, mode \in Modes : FindAffected(l, b, from, to, mode)
    \/ CommitLeave(l)
    \/ AbortLeave(l)
    \/ \E a \in Appts : Notify(l, a)
    \/ CancelLeave(l)

Managing == \E b \in Barbers :
    \/ CountFuture(b)
    \/ Deactivate(b)
    \/ Activate(b)

Next == Asking \/ Changing \/ Scanning \/ Passing \/ Leaving \/ ExpireLeaves \/ Managing

Fairness ==
    /\ WF_staffVars(Passing)
    /\ WF_staffVars(Scanning)

Spec == Init /\ [][Next]_staffVars /\ Fairness

------------------------------------------------------------------------------
(* Properties *)

\* A row holds the key of its own slot while it is active and none otherwise, and
\* no two rows hold the same one (BackfillAppointmentActiveSlotKeys calls it the
\* runtime invariant): whoever creates, cancels, closes, reopens, overwrites or
\* reassigns a row must move the key along.
KeyTracksStatus ==
    /\ \A a \in Appts :
         row[a].key = IF Active(a) THEN SlotKey(row[a].barber, row[a].time) ELSE NoKey
    /\ \A a, x \in Appts : a # x /\ Active(a) /\ Active(x) => row[a].key # row[x].key

\* The visits of a customer are their completed appointments, but for those a
\* mark_no_show overwrote after they were completed.
VisitsMatchCompletions ==
    \A c \in Customers :
        customer[c].visits =
            Cardinality({a \in Appts : Owner[a] = c /\ row[a].status = "completed"})
            + Cardinality({a \in overwritten : Owner[a] = c})

\* A customer who heard that nothing was booked has no appointment of that request.
RefusedLeavesNothing ==
    \A a \in Appts : pc[a] = "refused" => row[a].status = "none"

\* So the tables agree on an appointment: its row, the key of its slot, the visits of its
\* customer, and what the customer was answered.
RecordsAgree == KeyTracksStatus /\ VisitsMatchCompletions /\ RefusedLeavesNothing

\* A customer is never sent to a barber who is on leave or gone, but for those who
\* slipped in while the leave was being made, were booked although the look at the
\* leaves had failed, were reopened, or were reassigned without a look at the leaves
\* of the new barber.
AttendedOrExcused ==
    \A a \in Appts :
        Active(a) /\ clock < row[a].time /\ a \notin excused
            => Attended(row[a].barber, row[a].time)

\* An appointment the customer missed does not stay active.
OverdueSettles ==
    \A a \in Appts : Overdue(a) ~> ~Active(a)

\* cancel_policy.go: the blacklist after LateCancelBlacklistThreshold late cancellations.
BlacklistAtThreshold ==
    \A c \in Customers : customer[c].black => customer[c].lates >= LateThreshold

\* A customer is counted a no-show for an appointment that became one.
CountedNoShows ==
    \A c \in Customers :
        customer[c].noshows <= Cardinality({a \in Appts : Owner[a] = c /\ row[a].status = "noshow"})

\* A reschedule that is refused leaves the customer with the old appointment.
RescheduleAllOrNothing ==
    \A a \in Appts : pc[a] = "refused" => \A x \in old[a] : Active(x)

\* A customer who was told of a new barber has one.
NoticeTellsFate == misled = {}

\* During a leave nobody is booked.
NobodyBookedOnLeave ==
    \A a \in Appts : Active(a) => ~OnLeave(row[a].barber, row[a].time)
==============================================================================
