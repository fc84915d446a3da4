---------------------------- MODULE Appointments ----------------------------
(***************************************************************************)
(* The legacy table of appointments and those who write it:                *)
(*   the create, cancel, mark_no_show and mark_completed tools of tools/,  *)
(*   the reschedule of internal/booking/legacy/application.go,             *)
(*   the complete, cancel and undo buttons of api/api.go,                  *)
(*   the no-show scanner of cron/noshow.go,                                *)
(* with the penalties of storage/cancel_policy.go.                         *)
(*                                                                         *)
(* One working day of one shop, not a holiday of it.  An appointment is    *)
(* named after the request that may create it.  One step is one SQL        *)
(* transaction, one statement outside a transaction, or the taking of the  *)
(* slot lock.  The clock ticks in steps longer than the 5 minutes of the   *)
(* undo buttons and of the tolerance for past slots, so both are "in the   *)
(* same tick".                                                             *)
(*                                                                         *)
(* working and leave belong to module Staff; here they are only read.      *)
(***************************************************************************)
EXTENDS Naturals, FiniteSets

CONSTANTS
    Appts,          \* requests of create_appointment, and the rows they make
    Customers,
    Barbers,
    Leaves,         \* rows of barber_leaves
    NoBarber,       \* in a row that does not exist
    Times,          \* slots of the day, as ticks
    MaxTime,        \* bound on the clock
    Owner,          \* the customer of each request
    FreeWindow,     \* cancelling earlier than this is free of penalty
    Grace,          \* after the slot, before the scanner calls it a no-show
    LateThreshold,  \* LateCancelBlacklistThreshold
    MaxUndos        \* bound on the undo buttons pressed

ASSUME AppointmentsAssumption ==
    /\ NoBarber \notin Barbers
    /\ Times \subseteq Nat
    /\ MaxTime \in Nat
    /\ Owner \in [Appts -> Customers]
    /\ FreeWindow \in Nat /\ Grace \in Nat /\ LateThreshold \in Nat
    /\ MaxUndos \in Nat

VARIABLES
    clock,
    row,            \* appointments
    customer,       \* the counters of customers and their BLACKLIST tag
    pc,             \* where each request is
    wish,           \* the slot a request asked for
    old,            \* the appointment a reschedule has given up, as a set
    scan,           \* rows the scanner has selected and not yet treated
    marking,        \* rows mark_no_show has read as active and not yet written
    overwritten,    \* rows a mark_no_show took out of "completed"
    undos,
    working,        \* barbers with active = true
    leave,          \* rows of barber_leaves
    excused         \* appointments that may be on a leave, see Staff

requests == <<pc, wish, old>>
jobs     == <<scan, marking, overwritten, undos>>
staff    == <<working, leave, excused>>
apptVars == <<clock, row, customer, requests, jobs>>

Slots == Barbers \X Times
NoKey == <<NoBarber, 0>>
NoRow == [status |-> "none", barber |-> NoBarber, time |-> 0, key |-> NoKey,
          fresh |-> FALSE]

Statuses == {"none", "active", "cancelled", "completed", "noshow"}
InFlight == {"checked", "locked"}
Booked == {"answered", "unsure"}
Labels == InFlight \cup Booked \cup {"new", "moving", "freed", "refused"}

AppointmentsTypeOK ==
    /\ clock \in 0..MaxTime
    /\ row \in [Appts -> [status : Statuses, barber : Barbers \cup {NoBarber}, time : Nat,
                          key : Slots \cup {NoKey}, fresh : BOOLEAN]]
    /\ customer \in [Customers -> [visits : Nat, lates : Nat, noshows : Nat,
                                   black : BOOLEAN]]
    /\ pc \in [Appts -> Labels]
    /\ wish \in [Appts -> Slots \cup {NoKey}]
    /\ old \in [Appts -> SUBSET Appts]
    /\ scan \subseteq Appts /\ marking \subseteq Appts /\ overwritten \subseteq Appts
    /\ undos \in 0..MaxUndos

AppointmentsInit ==
    /\ clock = 0
    /\ row = [a \in Appts |-> NoRow]
    /\ customer = [c \in Customers |->
                     [visits |-> 0, lates |-> 0, noshows |-> 0, black |-> FALSE]]
    /\ pc = [a \in Appts |-> "new"]
    /\ wish = [a \in Appts |-> NoKey]
    /\ old = [a \in Appts |-> {}]
    /\ scan = {} /\ marking = {} /\ overwritten = {}
    /\ undos = 0

Goto(a, label) == pc' = [pc EXCEPT ![a] = label]

Active(a) == row[a].status = "active"

\* active_slot_key of AppointmentActiveSlotKey; its unique index.
SlotKey(b, t) == <<b, t>>
KeyTaken(key) == \E x \in Appts : row[x].key = key

\* Mutant: two spellings of the status.
Closed_Spelling(a, status) ==
    [row[a] EXCEPT !.status = IF status = "noshow" THEN "no_show" ELSE status,
                   !.key = NoKey, !.fresh = TRUE]

\* A row leaves the slot: key NULL, updated_at now.
Closed(a, status) == [row[a] EXCEPT !.status = status, !.key = NoKey, !.fresh = TRUE]

\* IsBarberOnLeaveAt: both ends belong to the leave.
Covers(l, b, t) == leave[l].barber = b /\ leave[l].from <= t /\ t <= leave[l].to
OnLeave(b, t) == \E l \in Leaves : leave[l].status = "active" /\ Covers(l, b, t)

Attended(b, t) == b \in working /\ ~OnLeave(b, t)

------------------------------------------------------------------------------
(* create_appointment *)

\* Everything that ends a request before it has read the tables: parameters,
\* read-only mode, a barber of another shop, an unverified phone.
Refuse(a) ==
    /\ pc[a] \in {"new", "freed"}
    /\ Goto(a, "refused")
    /\ UNCHANGED <<clock, row, customer, wish, old, jobs, staff>>

\* The checks before the lock.  A repeated request is answered with its appointment.
\* A leave that could not be looked up is only logged, and the request goes on.
Check(a, b, t) ==
    /\ pc[a] \in {"new", "freed"}
    /\ LET repeated == \E x \in Appts : Active(x) /\ Owner[x] = Owner[a]
                                       /\ row[x].barber = b /\ row[x].time = t
       IN \/ clock > t /\ Goto(a, "refused") /\ UNCHANGED <<wish, excused>>
          \/ clock <= t /\ repeated /\ Goto(a, "answered") /\ UNCHANGED <<wish, excused>>
          \/ /\ clock <= t /\ ~repeated /\ OnLeave(b, t)
             /\ Goto(a, "refused")
             /\ UNCHANGED <<wish, excused>>
          \/ /\ clock <= t /\ ~repeated
             /\ Goto(a, "checked")
             /\ wish' = [wish EXCEPT ![a] = SlotKey(b, t)]
             /\ excused' = IF OnLeave(b, t) THEN excused \cup {a} ELSE excused
    /\ UNCHANGED <<clock, row, customer, old, jobs, working, leave>>

Give(a, answer) ==
    /\ Goto(a, answer)
    /\ wish' = [wish EXCEPT ![a] = NoKey]

\* AcquireAppointmentLock.  The lock of another request stops this one, unless it
\* has expired under its holder; without Redis there is no booking.
Lock(a) ==
    /\ pc[a] = "checked"
    /\ \/ Goto(a, "locked") /\ UNCHANGED wish
       \/ Give(a, "refused")
    /\ UNCHANGED <<clock, row, customer, old, jobs, staff>>

Insert(a) ==
    [status |-> "active", barber |-> wish[a][1], time |-> wish[a][2],
     key |-> wish[a], fresh |-> FALSE]

\* Mutant: the context is looked at after the commit.
Create_LateRefusal(a) ==
    /\ pc[a] = "locked"
    /\ \/ /\ wish[a][1] \in working
          /\ ~customer[Owner[a]].black
          /\ ~KeyTaken(wish[a])
          /\ row' = [row EXCEPT ![a] = Insert(a)]
       \/ UNCHANGED row
    /\ Give(a, "refused")
    /\ UNCHANGED <<clock, customer, old, jobs, staff>>

\* CreateAppointmentFullContext: active barber, blacklist, free slot, insert.  Any
\* transaction may fail and leave nothing: the watchdog cancels it when the lock is
\* lost.  When the answer of the commit is lost, or the row cannot be read back as it
\* was written, the customer hears that nothing is certain.
Create(a) ==
    /\ pc[a] = "locked"
    /\ \/ /\ wish[a][1] \in working
          /\ ~customer[Owner[a]].black
          /\ ~KeyTaken(wish[a])
          /\ row' = [row EXCEPT ![a] = Insert(a)]
          /\ \E answer \in Booked : Give(a, answer)
       \/ Give(a, "refused") /\ UNCHANGED row
    /\ UNCHANGED <<clock, customer, old, jobs, staff>>

------------------------------------------------------------------------------
(* cancelAppointmentWithPolicy *)

IsLate(a) == row[a].time < clock + FreeWindow

\* applyLateCancelPenalty reads the count it has just raised, and raises it again.
Penalised(c) ==
    [customer EXCEPT ![c].lates = @ + 1,
                     ![c].black = @ \/ customer[c].lates + 1 + 1 >= LateThreshold]

\* A customer, through the agent: refused once the time has come, and a late
\* cancellation counts.
CanCancel(a) == Active(a) /\ clock < row[a].time

CancelByCustomer(a) ==
    /\ CanCancel(a)
    /\ row' = [row EXCEPT ![a] = Closed(a, "cancelled")]
    /\ customer' = IF IsLate(a) THEN Penalised(Owner[a]) ELSE customer

CancelTool(a) ==
    /\ CancelByCustomer(a)
    /\ UNCHANGED <<clock, requests, jobs, staff>>

\* adminCancelHandler: at any time, without a penalty.
AdminCancel(a) ==
    /\ Active(a)
    /\ row' = [row EXCEPT ![a] = Closed(a, "cancelled")]
    /\ UNCHANGED <<clock, customer, requests, jobs, staff>>

\* executeReschedule gives up the old appointment first ...
RescheduleCancel(a, x) ==
    /\ pc[a] = "new" /\ Owner[x] = Owner[a]
    /\ CancelByCustomer(x)
    /\ old' = [old EXCEPT ![a] = {x}]
    /\ Goto(a, "moving")
    /\ UNCHANGED <<clock, wish, jobs, staff>>

\* ... reads it again, and only then runs create_appointment.
RescheduleVerify(a) ==
    /\ pc[a] = "moving"
    /\ Goto(a, IF \A x \in old[a] : row[x].status = "cancelled" THEN "freed" ELSE "answered")
    /\ UNCHANGED <<clock, row, customer, wish, old, jobs, staff>>

------------------------------------------------------------------------------
(* Completion, no-show and the undo buttons *)

Complete(a) ==
    /\ Active(a)
    /\ row' = [row EXCEPT ![a] = Closed(a, "completed")]
    /\ customer' = [customer EXCEPT ![Owner[a]].visits = @ + 1]
    /\ UNCHANGED <<clock, requests, jobs, staff>>

\* Mutant: the row is reopened without its key.
Reopen_NoKey(a, status) ==
    /\ undos < MaxUndos
    /\ row[a].status = status /\ row[a].fresh
    /\ row' = [row EXCEPT ![a].status = "active", ![a].fresh = FALSE]
    /\ undos' = undos + 1
    /\ excused' = IF Attended(row[a].barber, row[a].time) THEN excused ELSE excused \cup {a}

\* Back to active within 5 minutes, if the slot is still free.
Reopen(a, status) ==
    /\ undos < MaxUndos
    /\ row[a].status = status /\ row[a].fresh
    /\ ~KeyTaken(SlotKey(row[a].barber, row[a].time))
    /\ row' = [row EXCEPT ![a].status = "active", ![a].fresh = FALSE,
                          ![a].key = SlotKey(row[a].barber, row[a].time)]
    /\ undos' = undos + 1
    /\ excused' = IF Attended(row[a].barber, row[a].time) THEN excused ELSE excused \cup {a}

\* Mutant: the visit is not taken back.
Uncomplete_KeepsVisit(a) ==
    /\ Reopen(a, "completed")
    /\ UNCHANGED <<clock, customer, requests, scan, marking, overwritten, working, leave>>

Uncomplete(a) ==
    /\ Reopen(a, "completed")
    /\ customer' = [customer EXCEPT ![Owner[a]].visits = IF @ > 0 THEN @ - 1 ELSE @]
    /\ UNCHANGED <<clock, requests, scan, marking, overwritten, working, leave>>

\* The penalty of a late cancellation stays.
Uncancel(a) ==
    /\ Reopen(a, "cancelled")
    /\ UNCHANGED <<clock, customer, requests, scan, marking, overwritten,
                   working, leave>>

\* mark_no_show reads the status ...
ReadForNoShow(a) ==
    /\ Active(a) /\ a \notin marking
    /\ marking' = marking \cup {a}
    /\ UNCHANGED <<clock, row, customer, requests, scan, overwritten, undos, staff>>

\* ... and writes by id alone.
WriteNoShow(a) ==
    /\ a \in marking
    /\ marking' = marking \ {a}
    /\ row' = [row EXCEPT ![a] = Closed(a, "noshow")]
    /\ overwritten' = IF row[a].status = "completed" THEN overwritten \cup {a} ELSE overwritten
    /\ UNCHANGED <<clock, customer, requests, scan, undos, staff>>

\* NoShowScanner.scan selects what is overdue, unless the day is a holiday ...
Overdue(a) == Active(a) /\ row[a].time + Grace <= clock

SelectOverdue ==
    /\ scan = {} /\ \E a \in Appts : Overdue(a)
    /\ scan' = {a \in Appts : Overdue(a)}
    /\ UNCHANGED <<clock, row, customer, requests, marking, overwritten, undos, staff>>

\* ... and marks row by row.  The update is guarded, its effect is not looked at.
MarkNoShow(a) ==
    /\ a \in scan
    /\ scan' = scan \ {a}
    /\ row' = IF Active(a) THEN [row EXCEPT ![a] = Closed(a, "noshow")] ELSE row
    /\ customer' = [customer EXCEPT ![Owner[a]].noshows = @ + 1]
    /\ UNCHANGED <<clock, requests, marking, overwritten, undos, staff>>

------------------------------------------------------------------------------
(* The day *)

Tick ==
    /\ clock < MaxTime
    /\ clock' = clock + 1
    /\ row' = [a \in Appts |-> [row[a] EXCEPT !.fresh = FALSE]]
    /\ UNCHANGED <<customer, requests, jobs, staff>>
==============================================================================
