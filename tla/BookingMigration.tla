-------------------------- MODULE BookingMigration --------------------------
(***************************************************************************)
(* Moving the old appointments into the booking kernel                     *)
(* (storage/booking_migration.go, booking_migration_apply.go and           *)
(* booking_migration_db.go, openbook migrate -legacy-report).              *)
(*                                                                         *)
(* A planner reads the old table and then the new one, and decides for     *)
(* each appointment whether it can be moved; one that cannot blocks the    *)
(* plan.  An executor carries a plan out in one transaction: it checks     *)
(* what an earlier execution left, locks the bookings of the location,     *)
(* looks for conflicts again and inserts.  Meanwhile the old handlers may  *)
(* still write unless the operator has stopped them, and the kernel may    *)
(* already take bookings.  A commit may succeed and its answer be lost.    *)
(***************************************************************************)
EXTENDS Naturals, FiniteSets

CONSTANTS
    Legacy,             \* old appointments; each has one booking id, its own
    News,               \* bookings customers may make with the kernel
    Executors,          \* executions of a plan
    Detail,             \* Legacy \cup News -> [staff, start, end, clear]
    MaxPlans            \* bound: plans made

Ids == Legacy \cup News

\* clear: the appointment has one service with a duration, one employee, a customer and a time.
\* Assumed by the modules that instantiate this one.
BookingMigrationAssumption ==
    /\ Legacy \cap News = {} /\ MaxPlans \in Nat
    /\ \A b \in Ids : Detail[b].start \in Nat /\ Detail[b].end \in Nat /\ Detail[b].start < Detail[b].end
    /\ \A b \in Ids : Detail[b].clear \in BOOLEAN

VARIABLES
    appt,       \* the old table: status of each appointment
    stopped,    \* have the old handlers been stopped?
    booking,    \* the kernel's table: status of each booking
    mapping,    \* booking_migration_records
    origin,     \* history: the status an appointment was moved with
    seen,       \* what the planner has read of the old table
    plan,       \* the last plan
    plans,      \* bound: plans made
    run         \* the executions

vars == <<appt, stopped, booking, mapping, origin, seen, plan, plans, run>>

LegacyStatus == {"absent", "active", "cancelled", "completed", "noshow"}
BookingStatus == {"absent", "confirmed", "cancelled", "completed"}
Nothing == [a \in Legacy |-> "absent"]
NoPlan == [rows |-> Nothing, blocked |-> Legacy, quiet |-> FALSE, moved |-> {}]
PCs == {"idle", "checked", "ok", "failed"}

TypeOK ==
    /\ appt \in [Legacy -> LegacyStatus] /\ stopped \in BOOLEAN
    /\ booking \in [Ids -> BookingStatus] /\ mapping \subseteq Legacy
    /\ origin \in [Legacy -> BookingStatus] /\ plans \in 0..MaxPlans
    /\ seen.rows \in [Legacy -> LegacyStatus] /\ {seen.on, seen.quiet} \subseteq BOOLEAN
    /\ plan.rows \in [Legacy -> BookingStatus] /\ plan.blocked \subseteq Legacy
    /\ \A x \in Executors : run[x].pc \in PCs /\ run[x].plan.rows \in [Legacy -> BookingStatus]

------------------------------------------------------------------------------
(* Occupancies *)

BlocksAvailability(status) == status = "confirmed"

Overlaps(b, c) == Detail[b].start < Detail[c].end /\ Detail[c].start < Detail[b].end

Clash(b, c) == b # c /\ Detail[b].staff = Detail[c].staff /\ Overlaps(b, c)

\* Bookings among rows that b, as a blocking one, would collide with.
FindConflicts(b, rows) == {c \in DOMAIN rows : BlocksAvailability(rows[c]) /\ Clash(b, c)}

------------------------------------------------------------------------------
(* The planner *)

\* Statuses that map; a no-show does not and is not guessed.
Maps(status) == status \in {"active", "cancelled", "completed"}

BookingStatusOf(status) == IF status = "active" THEN "confirmed" ELSE IF Maps(status) THEN status ELSE "absent"

Taken(target) == {a \in Legacy : target[a] # "absent"}

\* What an appointment becomes if nothing but itself stands in the way.
Candidate(rows, target) ==
    [a \in Legacy |-> IF Detail[a].clear /\ a \notin Taken(target) THEN BookingStatusOf(rows[a]) ELSE "absent"]

Present(rows) == {a \in Legacy : rows[a] # "absent"}

\* A candidate in conflict with another, or with a booking there already: both sides are blocked.
InConflict(a, c, target) ==
    /\ BlocksAvailability(c[a])
    /\ FindConflicts(a, c) \cup FindConflicts(a, target) # {}

\* Mutant: an appointment whose status does not map is left out of the plan.
PlanOf_LeavesOut(rows, target, quiet) ==
    LET c == Candidate(rows, target) IN
    [rows |-> c, quiet |-> quiet, moved |-> mapping,
     blocked |-> {a \in Present(rows) : Maps(rows[a]) /\ (c[a] = "absent" \/ InConflict(a, c, target))}]

PlanOf(rows, target, quiet) ==
    LET c == Candidate(rows, target) IN
    [rows    |-> c,
     blocked |-> {a \in Present(rows) : c[a] = "absent" \/ InConflict(a, c, target)},
     quiet   |-> quiet,
     moved   |-> mapping]

\* LoadLegacyBookingMigrationInputs: the old table, then the new one, in no common transaction.
LoadAppointments ==
    /\ ~seen.on /\ plans < MaxPlans /\ plans' = plans + 1
    /\ seen' = [on |-> TRUE, rows |-> appt, quiet |-> stopped]
    /\ UNCHANGED <<appt, stopped, booking, mapping, origin, plan, run>>

MakePlan ==
    /\ seen.on
    /\ plan' = PlanOf(seen.rows, booking, seen.quiet)
    /\ seen' = [on |-> FALSE, rows |-> Nothing, quiet |-> FALSE]
    /\ UNCHANGED <<appt, stopped, booking, mapping, origin, plans, run>>

------------------------------------------------------------------------------
(* The executor *)

Rows(p) == {a \in Legacy : p.rows[a] # "absent"}

Executable(p) == p.blocked = {} /\ Rows(p) # {}

Pending(p) == Rows(p) \ mapping

\* verifyExistingMigration and rejectExistingTarget
Verified(p) ==
    /\ \A a \in Rows(p) \cap mapping : booking[a] = p.rows[a]
    /\ \A a \in Pending(p) : booking[a] = "absent"

\* The transaction's plain reads.
Check(x) ==
    /\ run[x].pc = "idle" /\ Executable(plan)
    /\ run' = [run EXCEPT ![x] = [pc |-> IF ~Verified(plan) THEN "failed"
                                         ELSE IF Pending(plan) = {} THEN "ok" ELSE "checked",
                                  plan |-> plan, rows |-> Pending(plan)]]
    /\ UNCHANGED <<appt, stopped, booking, mapping, origin, seen, plan, plans>>

\* Mutant: the bookings made since the plan was made are not looked at.
Recheck_Not(x) == TRUE

\* With the bookings of the location locked: conflicts with them, and between the rows to insert.
Recheck(x) ==
    \A a \in run[x].rows :
        BlocksAvailability(run[x].plan.rows[a]) =>
            FindConflicts(a, booking) \cup
            FindConflicts(a, [b \in run[x].rows |-> run[x].plan.rows[b]]) = {}

\* The three unique keys of the rows to insert.
Insertable(x) == \A a \in run[x].rows : booking[a] = "absent" /\ a \notin mapping

\* Mutant: every row of the plan is written, the ones an earlier execution wrote included.
ToWrite_All(x) == Rows(run[x].plan)

ToWrite(x) == run[x].rows

\* Mutant: the mapping is written after the transaction, and not at all when its answer is lost.
MappingWritten_After(x, answered) == IF answered THEN mapping \cup ToWrite(x) ELSE mapping

MappingWritten(x, answered) == mapping \cup ToWrite(x)

\* Locks, inserts and commit; the locks keep other inserts out.
Write(x) ==
    /\ run[x].pc = "checked" /\ Recheck(x) /\ Insertable(x)
    /\ booking' = [b \in Ids |-> IF b \in ToWrite(x) THEN run[x].plan.rows[b] ELSE booking[b]]
    /\ origin' = [a \in Legacy |-> IF a \in ToWrite(x) THEN run[x].plan.rows[a] ELSE origin[a]]
    /\ \E answered \in BOOLEAN :
        /\ mapping' = MappingWritten(x, answered)
        /\ run' = [run EXCEPT ![x].pc = IF answered THEN "ok" ELSE "failed"]
    /\ UNCHANGED <<appt, stopped, seen, plan, plans>>

\* The transaction is rolled back.
RollBack(x) ==
    /\ run[x].pc = "checked"
    /\ run' = [run EXCEPT ![x].pc = "failed"]
    /\ UNCHANGED <<appt, stopped, booking, mapping, origin, seen, plan, plans>>

------------------------------------------------------------------------------
(* The old handlers, the operator and the kernel *)

OldBook(a) ==
    /\ ~stopped /\ appt[a] = "absent" /\ appt' = [appt EXCEPT ![a] = "active"]
    /\ UNCHANGED <<stopped, booking, mapping, origin, seen, plan, plans, run>>

OldChange(a, status) ==
    /\ ~stopped /\ appt[a] = "active" /\ appt' = [appt EXCEPT ![a] = status]
    /\ UNCHANGED <<stopped, booking, mapping, origin, seen, plan, plans, run>>

StopOldPath ==
    /\ ~stopped /\ stopped' = TRUE
    /\ UNCHANGED <<appt, booking, mapping, origin, seen, plan, plans, run>>

Book(n) ==
    /\ booking[n] = "absent" /\ FindConflicts(n, booking) = {}
    /\ booking' = [booking EXCEPT ![n] = "confirmed"]
    /\ UNCHANGED <<appt, stopped, mapping, origin, seen, plan, plans, run>>

Change(b, status) ==
    /\ booking[b] = "confirmed" /\ booking' = [booking EXCEPT ![b] = status]
    /\ UNCHANGED <<appt, stopped, mapping, origin, seen, plan, plans, run>>

Init ==
    /\ appt \in [Legacy -> {"absent", "active", "cancelled"}]
    /\ stopped = FALSE /\ booking = [b \in Ids |-> "absent"] /\ mapping = {}
    /\ origin = [a \in Legacy |-> "absent"]
    /\ seen = [on |-> FALSE, rows |-> Nothing, quiet |-> FALSE] /\ plan = NoPlan /\ plans = 0
    /\ run = [x \in Executors |-> [pc |-> "idle", plan |-> NoPlan, rows |-> {}]]

Next ==
    \/ LoadAppointments \/ MakePlan
    \/ \E x \in Executors : Check(x) \/ Write(x) \/ RollBack(x)
    \/ \E a \in Legacy : OldBook(a) \/ \E status \in {"cancelled", "completed", "noshow"} : OldChange(a, status)
    \/ StopOldPath
    \/ \E n \in News : Book(n)
    \/ \E b \in Ids, status \in {"cancelled", "completed"} : Change(b, status)

Spec == Init /\ [][Next]_vars

------------------------------------------------------------------------------
(* Properties *)

\* However the history is moved while customers book, nobody serves two at a time.
NextKeepsClear == \A b \in Ids : BlocksAvailability(booking[b]) => FindConflicts(b, booking) = {}

\* The audit mapping and the bookings tell the same story, whatever became of an answer.
MappingTellsBookings == \A a \in Legacy : a \in mapping <=> booking[a] # "absent"

\* An execution that reported success has moved every appointment as it stands in the old table, if
\* every plan executed was made after the old handlers were stopped.
QuietIsFaithful ==
    \A x \in Executors : run[x].pc = "ok" /\ (\A y \in Executors : run[y].pc # "idle" => run[y].plan.quiet) =>
        \A a \in Present(appt) : a \in mapping /\ origin[a] = BookingStatusOf(appt[a])

\* An execution never touches a booking that is there, however often the same plan is executed.
WritesAreNew ==
    \A b \in Ids : booking[b] # "absent" /\ booking'[b] # booking[b] => run' = run

LaterWorkStays == [][WritesAreNew]_vars

------------------------------------------------------------------------------
(* What the documents say and the code does not keep; see the README. *)

\* "A repeated execution must find the same mapping and the same records": but a plan made again of
\* what was moved is blocked by the bookings the first execution made.
RepeatIsRecognised == \A a \in plan.blocked : a \notin plan.moved

\* What is moved stays what the old table says, without the operator's window.
AlwaysFaithful == \A a \in mapping : origin[a] = BookingStatusOf(appt[a])
=============================================================================
