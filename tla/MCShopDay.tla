--------------------------------- MODULE MCShopDay --------------------------
(***************************************************************************)
(* A day in the shop, for TLC: the appointments with the leaves of the     *)
(* employees (Staff), what the shop tells its customers and owners by      *)
(* itself (Outreach), and the day its appointments are moved into the      *)
(* booking kernel (BookingMigration).  They share no state that another    *)
(* reads: a behaviour is about one of them.                                *)
(***************************************************************************)
EXTENDS Staff, FiniteSets, TLC

\* of Outreach
CONSTANTS
    Guests, Subs, Notes, Admins, Window, Ends, Period, MaxClock

\* of BookingMigration
CONSTANTS
    Legacy, News, Executors, Detail, MaxPlans

VARIABLES
    part,   \* the component this behaviour is about
    outClock, up, there, ends, log, run, fired, outRow, work, said, told, unsure, warned, over,    \* of Outreach
    appt, stopped, booking, mapping, origin, seen, movePlan, plans, moveRun    \* of BookingMigration

Out == INSTANCE Outreach WITH
    clock <- outClock, row <- outRow
Move == INSTANCE BookingMigration WITH
    plan <- movePlan, run <- moveRun

ASSUME OutAssumption == Out!OutreachAssumption
ASSUME MoveAssumption == Move!BookingMigrationAssumption

Off == "off"

\* Its invariants are checked by their own names: where it is not studied, it is as at first.
StaffOff == Init

OutVars ==
    <<outClock, up, there, ends, log, run, fired, outRow, work, said, told, unsure, warned, over>>
OutOff ==
    /\ outClock = Off /\ up = Off /\ there = Off /\ ends = Off /\ log = Off /\ run = Off
    /\ fired = Off /\ outRow = Off /\ work = Off /\ said = Off /\ told = Off /\ unsure = Off
    /\ warned = Off /\ over = Off

MoveVars ==
    <<appt, stopped, booking, mapping, origin, seen, movePlan, plans, moveRun>>
MoveOff ==
    /\ appt = Off /\ stopped = Off /\ booking = Off /\ mapping = Off /\ origin = Off
    /\ seen = Off /\ movePlan = Off /\ plans = Off /\ moveRun = Off

PartInit ==
    \/ part = "staff" /\ Init /\ OutOff /\ MoveOff
    \/ part = "outreach" /\ Out!Init /\ StaffOff /\ MoveOff
    \/ part = "move" /\ Move!Init /\ StaffOff /\ OutOff

PartNext ==
    \/ part = "staff" /\ Next /\ UNCHANGED <<part, OutVars, MoveVars>>
    \/ part = "outreach" /\ Out!Next /\ UNCHANGED <<part, staffVars, MoveVars>>
    \/ part = "move" /\ Move!Next /\ UNCHANGED <<part, staffVars, OutVars>>

allVars == <<part, staffVars, OutVars, MoveVars>>

PartSpec == PartInit /\ [][PartNext]_allVars

------------------------------------------------------------------------------

CONSTANTS a1, a2, c1, b1, b2, l1, g1, s1, s2, n1, n2, w1, old1, old2, new1, x1, x2

MCOwner == [a \in Appts |-> c1]

\* A reminder is due during two scans, a node during two, an offer at both runs of the day.
MCWindow == [i \in Appts \cup {"D3", "D15", "D25"} \cup Guests |-> IF i = "D25" THEN {2, 3} ELSE IF i = "D15" THEN {2} ELSE {1, 2}]

\* The two old appointments of one employee overlap, and a new one wants to lie in both.
At(start, end) == [staff |-> "s", start |-> start, end |-> end, clear |-> TRUE]
OldAndNew == (old1 :> At(0, 2)) @@ (old2 :> At(1, 3)) @@ (new1 :> At(1, 2))

Symmetry ==
    UNION {Permutations(S) : S \in {Appts, Barbers, Notes, Executors}}

\* A day sees at most two of: an undo, a mark_no_show, a reschedule, a leave, a
\* barber dismissed, a request left unsure.  Every pair of them meets; all of them at once do not.
MaxUnusual == 2
FewUnusual ==
    undos + Cardinality(marking) + Cardinality({a \in Appts : row[a].status = "noshow" \/ old[a] # {}})
        + Cardinality({l \in Leaves : plan[l].step # "idle"})
        + Cardinality({a \in Appts : pc[a] = "unsure"}) + Cardinality(leaving \cup (Barbers \ working)) <= MaxUnusual

Quiet0(js) == \A j \in Out!Jobs \ js : j \notin fired /\ run[j] = Out!Off
NoNotices  == \A n \in Notes : outRow[n] = "none" /\ n \notin there
            /\ \A w \in Out!Senders : work[w] = Out!Rest

\* The jobs and the notices share nothing but the process: one of them at a time.
OneArea ==
    \/ \E j \in {"remind", "lifecycle", "idle"} :
          there \subseteq Out!Of[j] /\ Quiet0({j}) /\ outClock <= 3 /\ NoNotices
          /\ \A s \in Subs : ends[s] = CHOOSE e \in Ends : TRUE
    \/ there \subseteq Subs /\ there # {} /\ Quiet0({"subscription"}) /\ NoNotices
       /\ (s2 \in there => s1 \in warned)
    \/ there \subseteq Notes /\ Quiet0({}) /\ outClock = 0
       /\ Cardinality({w \in Out!Senders : work[w] # Out!Rest}) <= 2
       /\ \A s \in Subs : ends[s] = CHOOSE e \in Ends : TRUE

Bounds == (part = "staff" => FewUnusual) /\ (part = "outreach" => OneArea)

------------------------------------------------------------------------------
\* A customer hears a thing once, what a record calls sent was sent, and an owner is
\* warned before the subscription is over, but for what a crash or a lost answer left
\* unsure.
OutreachIsTrue ==
    part = "outreach" =>
        Out!TypeOK /\ Out!SaidOnce /\ Out!RecordsAreTrue /\ Out!WarnedBeforeOver

\* However the history is moved while customers book, nobody serves two at a time, the audit mapping
\* and the bookings tell the same story, and a move after the old handlers were stopped is complete.
MovedFaithfully ==
    part = "move" =>
        Move!TypeOK /\ Move!NextKeepsClear /\ Move!MappingTellsBookings /\ Move!QuietIsFaithful
=============================================================================
