------------------------------ MODULE ShopDayProofs ------------------------------
(***************************************************************************)
(* Theorems about a day in the shop, for any number of requests,           *)
(* employees, slots and leaves: the tables agree on an appointment, and    *)
(* nobody is sent to an employee who is away; for any old table and any    *)
(* executions of its move: the history moves as it was and no two bookings *)
(* clash; and for any appointments, subscriptions and notices: what the    *)
(* program says of its own accord is said once, and what it calls sent has *)
(* arrived.                                                                *)
(***************************************************************************)
EXTENDS MCShopDay, FiniteSetTheorems, TLAPS

\* A request that was neither answered nor left unsure has no row, and what lies in a row is a slot.
RowsInv ==
    /\ \A a \in Appts : pc[a] \notin Booked => row[a].status = "none"
    /\ \A a \in Appts : row[a].status # "none" => SlotKey(row[a].barber, row[a].time) \in Slots
    /\ \A a \in Appts : pc[a] \in InFlight => wish[a] \in Slots
    /\ \A a \in marking : row[a].status # "none"

InRange(l, a) == leave[l].from <= row[a].time /\ row[a].time <= leave[l].to

\* What the handler of a leave has read: rows with slots of their own, and the rest of
\* the employee's day lies outside the leave.
FindingsHold(l) ==
    /\ \A a \in plan[l].seen \cup Found(l) : row[a].status # "none"
    /\ \A a, x \in Found(l) : a # x => row[a].time # row[x].time
    /\ \A a \in plan[l].seen \ Found(l) : ~InRange(l, a)

PlanInv == \A l \in Leaves : plan[l].step = "found" => FindingsHold(l)

\* A request that has passed the check wishes for an hour without a leave, or is excused.
WishInv ==
    \A a \in Appts : pc[a] \in InFlight /\ a \notin excused => ~OnLeave(wish[a][1], wish[a][2])

CompletedOf(c)   == {a \in Appts : Owner[a] = c /\ row[a].status = "completed"}
OverwrittenOf(c) == {a \in overwritten : Owner[a] = c}

\* A no-show is final; what was counted is finite.
CountInv ==
    /\ \A a \in overwritten : row[a].status = "noshow"
    /\ \A c \in Customers :
         /\ IsFiniteSet(CompletedOf(c)) /\ IsFiniteSet(OverwrittenOf(c))
         /\ customer[c].visits = Cardinality(CompletedOf(c)) + Cardinality(OverwrittenOf(c))

------------------------------------------------------------------------------
(* What a step does to the rows *)

LEMMA SlotsApart == NoKey \notin Slots
BY AppointmentsAssumption DEF NoKey, Slots

Endings == {"cancelled", "completed", "noshow"}

Books(a) ==
    /\ pc[a] = "locked" /\ \E answer \in Booked : pc' = [pc EXCEPT ![a] = answer]
    /\ wish[a][1] \in working /\ ~KeyTaken(wish[a])
    /\ row' = [row EXCEPT ![a] = Insert(a)]

Closes(a, s) ==
    /\ s \in Endings /\ row[a].status # "none"
    /\ row' = [row EXCEPT ![a] = Closed(a, s)]

Reopens(a) ==
    /\ row[a].status \in {"completed", "cancelled"}
    /\ ~KeyTaken(SlotKey(row[a].barber, row[a].time))
    /\ row' = [row EXCEPT ![a].status = "active", ![a].fresh = FALSE,
                          ![a].key = SlotKey(row[a].barber, row[a].time)]
    /\ ~Attended(row[a].barber, row[a].time) => a \in excused'

Ages == row' = [a \in Appts |-> [row[a] EXCEPT !.fresh = FALSE]]

\* Every step but the transaction of a leave treats the rows in one of five ways.
RowGoes ==
    \/ row' = row
    \/ \E a \in Appts : Books(a)
    \/ \E a \in Appts, s \in Endings : Closes(a, s)
    \/ \E a \in Appts : Reopens(a)
    \/ Ages

LEMMA AskingRows ==
    ASSUME TypeOK, Asking
    PROVE  /\ RowGoes /\ UNCHANGED <<clock, leaves, working, leave, marking, overwritten>>
           /\ excused \subseteq excused' /\ excused' \subseteq Appts
<1>0. PICK a \in Appts :
        \/ Refuse(a) /\ UNCHANGED leaves
        \/ \E b \in Barbers, t \in Times : Check(a, b, t) /\ UNCHANGED leaves
        \/ Lock(a) /\ UNCHANGED leaves
        \/ Create(a) /\ UNCHANGED leaves
        \/ \E x \in Appts : RescheduleCancel(a, x) /\ UNCHANGED leaves
        \/ RescheduleVerify(a) /\ UNCHANGED leaves
  BY DEF Asking
<1> USE DEF TypeOK, staff
<1>1. CASE Refuse(a) /\ UNCHANGED leaves
  BY <1>1 DEF Refuse, RowGoes, jobs
<1>2. CASE \E b \in Barbers, t \in Times : Check(a, b, t) /\ UNCHANGED leaves
  BY <1>2 DEF Check, RowGoes, jobs
<1>3. CASE Lock(a) /\ UNCHANGED leaves
  BY <1>3 DEF Lock, RowGoes, jobs
<1>4. CASE Create(a) /\ UNCHANGED leaves
  BY <1>4 DEF Create, Give, Goto, RowGoes, Books, jobs
<1>5. CASE \E x \in Appts : RescheduleCancel(a, x) /\ UNCHANGED leaves
  BY <1>5 DEF RescheduleCancel, CancelByCustomer, CanCancel, Active, RowGoes, Closes, Endings, jobs
<1>6. CASE RescheduleVerify(a) /\ UNCHANGED leaves
  BY <1>6 DEF RescheduleVerify, RowGoes, jobs
<1> QED
  BY <1>0, <1>1, <1>2, <1>3, <1>4, <1>5, <1>6

LEMMA ChangingRows ==
    ASSUME TypeOK, RowsInv, Changing
    PROVE  RowGoes /\ UNCHANGED <<clock, requests, leaves, working, leave>>
<1>0. PICK a \in Appts :
        \/ CancelTool(a) /\ UNCHANGED leaves
        \/ AdminCancel(a) /\ UNCHANGED leaves
        \/ Complete(a) /\ UNCHANGED leaves
        \/ Uncomplete(a) /\ UNCHANGED leaves
        \/ Uncancel(a) /\ UNCHANGED leaves
        \/ ReadForNoShow(a) /\ UNCHANGED leaves
        \/ WriteNoShow(a) /\ UNCHANGED leaves
  BY DEF Changing
<1> USE DEF Active, RowGoes, Closes, Endings, staff
<1>1. CASE CancelTool(a) /\ UNCHANGED leaves
  BY <1>1 DEF CancelTool, CancelByCustomer, CanCancel
<1>2. CASE AdminCancel(a) /\ UNCHANGED leaves
  BY <1>2 DEF AdminCancel
<1>3. CASE Complete(a) /\ UNCHANGED leaves
  BY <1>3 DEF Complete
<1>4. CASE Uncomplete(a) /\ UNCHANGED leaves
  BY <1>4 DEF Uncomplete, Reopen, Reopens
<1>5. CASE Uncancel(a) /\ UNCHANGED leaves
  BY <1>5 DEF Uncancel, Reopen, Reopens
<1>6. CASE ReadForNoShow(a) /\ UNCHANGED leaves
  BY <1>6 DEF ReadForNoShow
<1>7. CASE WriteNoShow(a) /\ UNCHANGED leaves
  BY <1>7 DEF WriteNoShow, RowsInv
<1> QED
  BY <1>0, <1>1, <1>2, <1>3, <1>4, <1>5, <1>6, <1>7

LEMMA ScanningRows ==
    ASSUME TypeOK, Scanning
    PROVE  RowGoes /\ UNCHANGED <<clock, requests, leaves, staff, marking, overwritten>>
<1>1. CASE SelectOverdue /\ UNCHANGED leaves
  BY <1>1 DEF SelectOverdue, RowGoes
<1>2. CASE \E a \in Appts : MarkNoShow(a) /\ UNCHANGED leaves
  <2>0. PICK a \in Appts : MarkNoShow(a) /\ UNCHANGED leaves
    BY <1>2
  <2>1. CASE Active(a)
    BY <2>0, <2>1 DEF MarkNoShow, Active, RowGoes, Closes, Endings
  <2>2. CASE ~Active(a)
    BY <2>0, <2>2 DEF MarkNoShow, RowGoes
  <2> QED
    BY <2>0, <2>1, <2>2 DEF MarkNoShow
<1> QED
  BY <1>1, <1>2 DEF Scanning

LEMMA PassingRows ==
    ASSUME Passing
    PROVE  RowGoes /\ UNCHANGED <<requests, leaves, staff, marking, overwritten>>
BY DEF Passing, Tick, RowGoes, Ages, jobs

\* What the transaction of a leave does to one appointment.
Reassigned(l, a) ==
    /\ a \in Found(l) /\ Active(a)
    /\ \E b \in Alternates(l, a) :
         /\ row'[a] = [row[a] EXCEPT !.barber = b, !.key = SlotKey(b, row[a].time)]
         /\ OnLeave(b, row[a].time) => a \in excused'

CommitGoes(l, a) ==
    \/ row'[a] = row[a] /\ ~(a \in Found(l) /\ Active(a))
    \/ a \in Found(l) /\ Active(a) /\ row'[a] = Closed(a, "cancelled")
    \/ Reassigned(l, a)

LEMMA CommitRows ==
    ASSUME TypeOK, NEW l \in Leaves, CommitLeave(l)
    PROVE  /\ row' \in [Appts -> {row'[a] : a \in Appts}]
           /\ \A a \in Appts : CommitGoes(l, a)
<1>0. PICK to \in [Found(l) -> Barbers \cup {NoBarber}] :
        /\ \A a \in Found(l) :
             IF leave[l].mode = "reschedule" /\ Alternates(l, a) # {}
             THEN to[a] \in Alternates(l, a)
             ELSE to[a] = NoBarber /\ Cancellable(a)
        /\ row' = [a \in Appts |->
                     IF a \in {x \in Found(l) : to[x] # NoBarber /\ Active(x)}
                     THEN [row[a] EXCEPT !.barber = to[a], !.key = SlotKey(to[a], row[a].time)]
                     ELSE IF a \in Found(l) \ {x \in Found(l) : to[x] # NoBarber}
                          THEN Closed(a, "cancelled")
                     ELSE row[a]]
        /\ {x \in Found(l) : to[x] # NoBarber /\ Active(x) /\ OnLeave(to[x], row[x].time)} \subseteq excused'
  BY ZenonT(40) DEF CommitLeave
<1>1. row' \in [Appts -> {row'[a] : a \in Appts}]
  BY <1>0, Zenon
<1>2. \A b \in Barbers : b # NoBarber
  BY AppointmentsAssumption
<1>3. ASSUME NEW a \in Appts PROVE CommitGoes(l, a)
  <2>1. CASE a \notin Found(l)
    BY <1>0, <2>1 DEF CommitGoes
  <2>2. CASE a \in Found(l) /\ to[a] = NoBarber
    <3>1. NoBarber \notin Alternates(l, a)
      BY <1>2 DEF Alternates, TypeOK
    <3> QED
      BY <1>0, <2>2, <3>1 DEF CommitGoes, Cancellable
  <2>3. CASE a \in Found(l) /\ to[a] # NoBarber
    <3>1. to[a] \in Alternates(l, a)
      BY <1>0, <2>3
    <3>2. CASE Active(a)
      <4>1. row'[a] = [row[a] EXCEPT !.barber = to[a], !.key = SlotKey(to[a], row[a].time)]
        BY <1>0, <2>3, <3>2
      <4>2. OnLeave(to[a], row[a].time) => a \in excused'
        BY <1>0, <2>3, <3>2
      <4> QED
        BY <2>3, <3>1, <3>2, <4>1, <4>2 DEF CommitGoes, Reassigned
    <3>3. CASE ~Active(a)
      BY <1>0, <2>3, <3>3 DEF CommitGoes
    <3> QED
      BY <3>2, <3>3
  <2> QED
    BY <2>1, <2>2, <2>3
<1> QED
  BY <1>1, <1>3

\* The other steps of the back office leave the appointments alone.
LEMMA StepCases ==
    ASSUME Next
    PROVE  \/ Asking \/ Changing \/ Scanning \/ Passing
           \/ \E l \in Leaves : CommitLeave(l)
           \/ UNCHANGED apptVars
<1>1. Leaving => (\E l \in Leaves : CommitLeave(l)) \/ UNCHANGED apptVars
  BY DEF Leaving, FindAffected, AbortLeave, Notify, CancelLeave
<1>2. ExpireLeaves => UNCHANGED apptVars
  BY DEF ExpireLeaves
<1>3. Managing => UNCHANGED apptVars
  BY DEF Managing, CountFuture, Deactivate, Activate
<1> QED
  BY <1>1, <1>2, <1>3 DEF Next

LEMMA NextRows ==
    ASSUME TypeOK, RowsInv, [Next]_staffVars
    PROVE  RowGoes \/ \E l \in Leaves : CommitLeave(l)
<1>1. CASE UNCHANGED staffVars
  BY <1>1 DEF RowGoes, staffVars, apptVars
<1>2. CASE UNCHANGED apptVars
  BY <1>2 DEF RowGoes, apptVars
<1> QED
  BY <1>1, <1>2, StepCases, AskingRows, ChangingRows, ScanningRows, PassingRows

\* A row that is there stays there, at its time; a new one answers its request.
LEMMA RowsStay ==
    ASSUME TypeOK, RowsInv, [Next]_staffVars, NEW a \in Appts
    PROVE  /\ row[a].status # "none" => row'[a].status # "none" /\ row'[a].time = row[a].time
           /\ row[a].status = "none" => row'[a].status = "none" \/ Books(a)
<1> USE DEF TypeOK, AppointmentsTypeOK
<1>1. CASE row' = row
  BY <1>1
<1>2. ASSUME NEW x \in Appts, Books(x) PROVE row'[a] = row[a] \/ Books(a)
  BY <1>2 DEF Books
<1>3. ASSUME NEW x \in Appts, Books(x) PROVE row[x].status = "none"
  BY <1>3 DEF Books, RowsInv, Booked
<1>4. ASSUME NEW x \in Appts, NEW s \in Endings, Closes(x, s)
      PROVE  /\ row[a].status # "none" => row'[a].status # "none" /\ row'[a].time = row[a].time
             /\ row[a].status = "none" => row'[a].status = "none"
  BY <1>4 DEF Closes, Closed, Endings
<1>5. ASSUME NEW x \in Appts, Reopens(x)
      PROVE  /\ row[a].status # "none" => row'[a].status # "none" /\ row'[a].time = row[a].time
             /\ row[a].status = "none" => row'[a].status = "none"
  BY <1>5 DEF Reopens
<1>6. CASE Ages
  BY <1>6 DEF Ages
<1>7. ASSUME NEW l \in Leaves, CommitLeave(l)
      PROVE  /\ row[a].status # "none" => row'[a].status # "none" /\ row'[a].time = row[a].time
             /\ row[a].status = "none" => row'[a].status = "none"
  <2>1. CommitGoes(l, a)
    BY <1>7, CommitRows
  <2>2. CASE row'[a] = row[a]
    BY <2>2
  <2>3. CASE Active(a) /\ row'[a] = Closed(a, "cancelled")
    BY <2>3 DEF Closed, Active
  <2>4. ASSUME Reassigned(l, a)
        PROVE  row[a].status = "active" /\ row'[a].status = row[a].status /\ row'[a].time = row[a].time
    BY <2>4 DEF Reassigned, Active
  <2> QED
    BY <2>1, <2>2, <2>3, <2>4 DEF CommitGoes
<1> QED
  <2>1. CASE \E x \in Appts : Books(x)
    <3>1. row'[a] = row[a] \/ Books(a)
      BY <1>2, <2>1
    <3>2. Books(a) => row[a].status = "none"
      BY <1>3
    <3> QED
      BY <3>1, <3>2
  <2> QED
    BY <1>1, <1>4, <1>5, <1>6, <1>7, <2>1, NextRows DEF RowGoes

------------------------------------------------------------------------------
(* Types *)

Rows == [status : Statuses, barber : Barbers \cup {NoBarber}, time : Nat,
         key : Slots \cup {NoKey}, fresh : BOOLEAN]

LEMMA RowsTyped ==
    ASSUME TypeOK, RowsInv, [Next]_staffVars
    PROVE  row' \in [Appts -> Rows]
<1>0. row \in [Appts -> Rows] /\ wish \in [Appts -> Slots \cup {NoKey}]
  BY DEF TypeOK, AppointmentsTypeOK, Rows
<1>1. CASE row' = row
  BY <1>0, <1>1
<1>2. ASSUME NEW a \in Appts, Books(a) PROVE row' \in [Appts -> Rows]
  <2>1. wish[a] \in Slots
    BY <1>2 DEF Books, RowsInv, InFlight
  <2>2. wish[a][1] \in Barbers /\ wish[a][2] \in Nat
    BY <2>1, AppointmentsAssumption DEF Slots
  <2>3. Insert(a) \in Rows
    BY <2>1, <2>2 DEF Insert, Rows, Statuses
  <2> QED
    BY <1>0, <1>2, <2>3 DEF Books
<1>3. ASSUME NEW a \in Appts, NEW s \in Endings PROVE Closed(a, s) \in Rows
  BY <1>0, <1>3 DEF Closed, Rows, Endings, Statuses
<1>4. ASSUME NEW a \in Appts, NEW s \in Endings, Closes(a, s) PROVE row' \in [Appts -> Rows]
  BY <1>0, <1>3, <1>4 DEF Closes
<1>5. ASSUME NEW a \in Appts, Reopens(a) PROVE row' \in [Appts -> Rows]
  <2>1. SlotKey(row[a].barber, row[a].time) \in Slots
    BY <1>5 DEF Reopens, RowsInv
  <2>2. row'[a] \in Rows
    BY <1>0, <1>5, <2>1 DEF Reopens, Rows, Statuses
  <2> QED
    BY <1>0, <1>5, <2>2 DEF Reopens
<1>6. CASE Ages
  BY <1>0, <1>6 DEF Ages, Rows
<1>7. ASSUME NEW l \in Leaves, CommitLeave(l) PROVE row' \in [Appts -> Rows]
  <2>1. ASSUME NEW a \in Appts PROVE row'[a] \in Rows
    <3>1. CASE Reassigned(l, a)
      <4>1. PICK b \in Alternates(l, a) : row'[a] = [row[a] EXCEPT !.barber = b, !.key = SlotKey(b, row[a].time)]
        BY <3>1 DEF Reassigned
      <4>2. b \in Barbers
        BY DEF Alternates, TypeOK
      <4>3. row[a].time \in Times
        BY <3>1 DEF Reassigned, Active, RowsInv, SlotKey, Slots
      <4>4. SlotKey(b, row[a].time) \in Slots
        BY <4>2, <4>3 DEF SlotKey, Slots
      <4> QED
        BY <1>0, <4>1, <4>2, <4>4 DEF Rows
    <3>2. CASE row'[a] = Closed(a, "cancelled")
      BY <1>3, <3>2 DEF Endings
    <3> QED
      BY <1>0, <1>7, <3>1, <3>2, CommitRows DEF CommitGoes
  <2> QED
    BY <1>7, <2>1, CommitRows
<1> QED
  BY <1>1, <1>2, <1>4, <1>5, <1>6, <1>7, NextRows DEF RowGoes

RequestsTypeOK ==
    /\ pc \in [Appts -> Labels]
    /\ wish \in [Appts -> Slots \cup {NoKey}]
    /\ old \in [Appts -> SUBSET Appts]

Counters == [visits : Nat, lates : Nat, noshows : Nat, black : BOOLEAN]

LEMMA PenalisedType ==
    ASSUME customer \in [Customers -> Counters], NEW c \in Customers
    PROVE  Penalised(c) \in [Customers -> Counters]
<1>1. \A d \in Counters, n \in Nat, x \in BOOLEAN : [d EXCEPT !.lates = n, !.black = x] \in Counters
  BY DEF Counters
<1>2. PICK x \in BOOLEAN : x = (customer[c].black \/ customer[c].lates + 1 + 1 >= LateThreshold)
  OBVIOUS
<1>3. Penalised(c) = [customer EXCEPT ![c] = [customer[c] EXCEPT !.lates = customer[c].lates + 1, !.black = x]]
  BY <1>2, Zenon DEF Penalised
<1>4. customer[c].lates + 1 \in Nat
  BY DEF Counters
<1>5. [customer[c] EXCEPT !.lates = customer[c].lates + 1, !.black = x] \in Counters
  BY <1>1, <1>4
<1> QED
  BY <1>3, <1>5

\* The steps of requests; everything else leaves them alone.
LEMMA RequestsTyped ==
    ASSUME RequestsTypeOK, Asking
    PROVE  RequestsTypeOK'
<1>0. PICK a \in Appts :
        \/ Refuse(a) \/ Lock(a) \/ Create(a) \/ RescheduleVerify(a)
        \/ \E b \in Barbers, t \in Times : Check(a, b, t)
        \/ \E x \in Appts : RescheduleCancel(a, x)
  BY DEF Asking
<1> USE DEF RequestsTypeOK, Goto, Labels, InFlight, Booked
<1>1. CASE Refuse(a)
  BY <1>1 DEF Refuse
<1>2. CASE Lock(a)
  BY <1>2 DEF Lock, Give
<1>3. CASE Create(a)
  BY <1>3 DEF Create, Give
<1>4. CASE RescheduleVerify(a)
  BY <1>4 DEF RescheduleVerify
<1>5. ASSUME NEW b \in Barbers, NEW t \in Times, Check(a, b, t)
      PROVE  RequestsTypeOK'
  BY <1>5 DEF Check, SlotKey, Slots
<1>6. ASSUME NEW x \in Appts, RescheduleCancel(a, x) PROVE RequestsTypeOK'
  BY <1>6 DEF RescheduleCancel
<1> QED
  BY <1>0, <1>1, <1>2, <1>3, <1>4, <1>5, <1>6

LEMMA CustomersTyped ==
    ASSUME customer \in [Customers -> Counters], Next
    PROVE  customer' \in [Customers -> Counters]
<1>0. \A a \in Appts : Owner[a] \in Customers
  BY AppointmentsAssumption
<1>1. ASSUME NEW x \in Appts, CancelByCustomer(x) PROVE customer' \in [Customers -> Counters]
  BY <1>0, <1>1, PenalisedType DEF CancelByCustomer
<1>2. CASE Asking
  <2>1. UNCHANGED customer \/ \E x \in Appts : CancelByCustomer(x)
    BY <1>2 DEF Asking, Refuse, Check, Lock, Create, RescheduleCancel, RescheduleVerify
  <2> QED
    BY <1>1, <2>1
<1>3. ASSUME NEW a \in Appts, Complete(a) \/ Uncomplete(a) \/ MarkNoShow(a)
      PROVE  customer' \in [Customers -> Counters]
  BY <1>0, <1>3 DEF Complete, Uncomplete, MarkNoShow, Counters
<1>4. CASE Changing
  <2>1. \/ UNCHANGED customer
        \/ \E a \in Appts : CancelByCustomer(a) \/ Complete(a) \/ Uncomplete(a)
    BY <1>4 DEF Changing, CancelTool, AdminCancel, Uncancel, ReadForNoShow, WriteNoShow
  <2> QED
    BY <1>1, <1>3, <2>1
<1>5. CASE Scanning
  <2>1. UNCHANGED customer \/ \E a \in Appts : MarkNoShow(a)
    BY <1>5 DEF Scanning, SelectOverdue
  <2> QED
    BY <1>3, <2>1
<1>6. CASE Passing
  BY <1>6 DEF Passing, Tick
<1>7. CASE \E l \in Leaves : CommitLeave(l)
  BY <1>7 DEF CommitLeave
<1>8. CASE UNCHANGED apptVars
  BY <1>8 DEF apptVars
<1> QED
  BY <1>2, <1>4, <1>5, <1>6, <1>7, <1>8, StepCases

JobsTypeOK ==
    /\ clock \in 0..MaxTime
    /\ scan \subseteq Appts /\ marking \subseteq Appts /\ overwritten \subseteq Appts
    /\ undos \in 0..MaxUndos

LEMMA JobsTyped ==
    ASSUME JobsTypeOK, Next
    PROVE  JobsTypeOK'
<1> USE DEF JobsTypeOK
<1>1. CASE Asking
  BY <1>1 DEF Asking, Refuse, Check, Lock, Create, RescheduleCancel, RescheduleVerify, jobs
<1>2. CASE Changing
  <2>0. PICK a \in Appts :
          \/ CancelTool(a) \/ AdminCancel(a) \/ Complete(a) \/ Uncomplete(a) \/ Uncancel(a)
          \/ ReadForNoShow(a) \/ WriteNoShow(a)
    BY <1>2 DEF Changing
  <2>1. CASE CancelTool(a) \/ AdminCancel(a) \/ Complete(a)
    BY <2>1 DEF CancelTool, AdminCancel, Complete, jobs
  <2>2. CASE Uncomplete(a) \/ Uncancel(a)
    BY <2>2, AppointmentsAssumption DEF Uncomplete, Uncancel, Reopen
  <2>3. CASE ReadForNoShow(a) \/ WriteNoShow(a)
    BY <2>3 DEF ReadForNoShow, WriteNoShow
  <2> QED
    BY <2>0, <2>1, <2>2, <2>3
<1>3. CASE Scanning
  BY <1>3 DEF Scanning, SelectOverdue, MarkNoShow
<1>4. CASE Passing
  BY <1>4, AppointmentsAssumption DEF Passing, Tick, jobs
<1>5. CASE \E l \in Leaves : CommitLeave(l)
  BY <1>5 DEF CommitLeave, jobs
<1>6. CASE UNCHANGED apptVars
  BY <1>6 DEF apptVars, jobs
<1> QED
  BY <1>1, <1>2, <1>3, <1>4, <1>5, <1>6, StepCases

LeaveRows == [status : LeaveStatuses, barber : Barbers \cup {NoBarber}, from : Nat, to : Nat, mode : Modes]
Plans == [step : {"idle", "found", "notify", "failed"}, seen : SUBSET Appts, todo : SUBSET (Appts \X Fates)]

StaffTypeOK ==
    /\ working \subseteq Barbers /\ leaving \subseteq Barbers
    /\ excused \subseteq Appts /\ misled \subseteq Appts
    /\ leave \in [Leaves -> LeaveRows]
    /\ plan \in [Leaves -> Plans]

LEMMA FoundType ==
    ASSUME StaffTypeOK, NEW l \in Leaves
    PROVE  Found(l) \subseteq Appts
BY DEF StaffTypeOK, Found, Plans

\* Whom the transaction of a leave excuses, and what its handler goes on with.
LEMMA CommitOthers ==
    ASSUME StaffTypeOK, NEW l \in Leaves, CommitLeave(l)
    PROVE  /\ leave' = [leave EXCEPT ![l].status = "active"]
           /\ excused \subseteq excused' /\ excused' \subseteq Appts
           /\ \A a \in Appts \ (plan[l].seen \cup Found(l)) :
                Active(a) /\ Covers(l, row[a].barber, row[a].time) => a \in excused'
           /\ \A a \in Appts : pc[a] \in InFlight /\ Covers(l, wish[a][1], wish[a][2]) => a \in excused'
           /\ \E f \in SUBSET (Appts \X Fates) :
                plan' = [plan EXCEPT ![l] = [step |-> "notify", seen |-> {}, todo |-> f]]
<1> DEFINE Moved(to) == {x \in Found(l) : to[x] # NoBarber}
           Moves(to) == {x \in Moved(to) : Active(x)}
           Fate(to, a) == IF a \notin Moved(to) THEN "cancelled" ELSE IF a \in Moves(to) THEN "moved" ELSE "gone"
<1>0. PICK to \in [Found(l) -> Barbers \cup {NoBarber}] :
        /\ plan' = [plan EXCEPT ![l] = [step |-> "notify", seen |-> {},
                                       todo |-> {<<a, Fate(to, a)>> : a \in Found(l)}]]
        /\ excused' = excused
             \cup {a \in Moves(to) : OnLeave(to[a], row[a].time)}
             \cup {a \in Appts \ (plan[l].seen \cup Found(l)) : Active(a) /\ Covers(l, row[a].barber, row[a].time)}
             \cup {a \in Appts : pc[a] \in InFlight /\ Covers(l, wish[a][1], wish[a][2])}
  BY Zenon DEF CommitLeave
<1>1. Found(l) \subseteq Appts /\ excused \subseteq Appts
  BY FoundType DEF StaffTypeOK
<1>2. leave' = [leave EXCEPT ![l].status = "active"]
  BY Zenon DEF CommitLeave
<1>3. {<<a, Fate(to, a)>> : a \in Found(l)} \in SUBSET (Appts \X Fates)
  <2>1. \A a \in Found(l) : Fate(to, a) \in Fates
    BY DEF Fates
  <2> HIDE DEF Fate
  <2> QED
    BY <1>1, <2>1
<1>4. \E f \in SUBSET (Appts \X Fates) :
        plan' = [plan EXCEPT ![l] = [step |-> "notify", seen |-> {}, todo |-> f]]
  BY <1>0, <1>3, Zenon
<1> QED
  BY <1>0, <1>1, <1>2, <1>4

\* A leave that takes effect has the employee and the hours it was asked for.
LEMMA CommitCovers ==
    ASSUME StaffTypeOK, NEW l \in Leaves, CommitLeave(l), NEW m \in Leaves, NEW b, NEW t
    PROVE  /\ Covers(m, b, t)' => Covers(m, b, t)
           /\ m # l => leave'[m] = leave[m]
<1>1. leave' = [leave EXCEPT ![l].status = "active"]
  BY CommitOthers, Zenon
<1>2. leave \in [Leaves -> LeaveRows]
  BY DEF StaffTypeOK
<1>3. m # l => leave'[m] = leave[m]
  BY <1>1, <1>2
<1>4. leave'[m].barber = leave[m].barber /\ leave'[m].from = leave[m].from /\ leave'[m].to = leave[m].to
  BY <1>1, <1>2 DEF LeaveRows
<1> QED
  BY <1>3, <1>4 DEF Covers

LEMMA LeavingTyped ==
    ASSUME StaffTypeOK, Leaving
    PROVE  StaffTypeOK'
<1>0. PICK l \in Leaves :
        \/ \E b \in Barbers, from, to \in Times, mode \in Modes : FindAffected(l, b, from, to, mode)
        \/ CommitLeave(l)
        \/ AbortLeave(l)
        \/ \E a \in Appts : Notify(l, a)
        \/ CancelLeave(l)
  BY DEF Leaving
<1> USE DEF StaffTypeOK
<1>1. ASSUME NEW b \in Barbers, NEW from \in Times, NEW to \in Times, NEW mode \in Modes,
             FindAffected(l, b, from, to, mode)
      PROVE  StaffTypeOK'
  <2>1. [NoLeave EXCEPT !.barber = b, !.from = from, !.to = to, !.mode = mode] \in LeaveRows
    BY AppointmentsAssumption DEF NoLeave, LeaveRows, LeaveStatuses
  <2>2. [step |-> "found", seen |-> {a \in Appts : Active(a) /\ row[a].barber = b},
         todo |-> Affected(b, from, to) \X {"found"}] \in Plans
    BY DEF Affected, Plans, Fates
  <2> QED
    BY <1>1, <2>1, <2>2 DEF FindAffected
<1>2. CASE CommitLeave(l)
  <2>1. PICK f \in SUBSET (Appts \X Fates) :
          plan' = [plan EXCEPT ![l] = [step |-> "notify", seen |-> {}, todo |-> f]]
    BY <1>2, CommitOthers
  <2>2. excused' \subseteq Appts
    BY <1>2, CommitOthers
  <2>3. leave' \in [Leaves -> LeaveRows]
    BY <1>2, CommitOthers DEF LeaveRows, LeaveStatuses
  <2>4. plan' \in [Leaves -> Plans]
    BY <2>1 DEF Plans
  <2> QED
    BY <1>2, <2>2, <2>3, <2>4 DEF CommitLeave
<1>3. CASE AbortLeave(l)
  <2>1. [step |-> "failed", seen |-> {}, todo |-> {}] \in Plans
    BY DEF Plans
  <2> QED
    BY <1>3, <2>1 DEF AbortLeave, staff
<1>4. ASSUME NEW a \in Appts, Notify(l, a) PROVE StaffTypeOK'
  BY <1>4 DEF Notify, staff, Plans
<1>5. CASE CancelLeave(l)
  BY <1>5 DEF CancelLeave, leaves, LeaveRows, LeaveStatuses
<1> QED
  BY <1>0, <1>1, <1>2, <1>3, <1>4, <1>5

LEMMA StaffTyped ==
    ASSUME StaffTypeOK, Next, TypeOK, RowsInv
    PROVE  StaffTypeOK'
<1> USE DEF StaffTypeOK
<1>1. CASE Asking
  BY <1>1, AskingRows DEF leaves
<1>2. CASE Changing
  <2>1. excused' \subseteq Appts
    BY <1>2 DEF Changing, CancelTool, AdminCancel, Complete, Uncomplete, Uncancel, Reopen, ReadForNoShow,
                WriteNoShow, staff
  <2> QED
    BY <1>2, <2>1, ChangingRows DEF leaves
<1>3. CASE Scanning
  BY <1>3, ScanningRows DEF leaves, staff
<1>4. CASE Passing
  BY <1>4, PassingRows DEF leaves, staff
<1>5. CASE Leaving
  BY <1>5, LeavingTyped
<1>6. CASE ExpireLeaves
  BY <1>6 DEF ExpireLeaves, leaves, LeaveRows, LeaveStatuses
<1>7. CASE Managing
  BY <1>7 DEF Managing, CountFuture, Deactivate, Activate, staff, leaves
<1> QED
  BY <1>1, <1>2, <1>3, <1>4, <1>5, <1>6, <1>7 DEF Next

LEMMA TypeParts ==
    /\ TypeOK => RequestsTypeOK /\ JobsTypeOK /\ StaffTypeOK /\ customer \in [Customers -> Counters]
    /\ RequestsTypeOK /\ JobsTypeOK /\ StaffTypeOK /\ customer \in [Customers -> Counters]
         /\ row \in [Appts -> Rows] => TypeOK
BY DEF TypeOK, AppointmentsTypeOK, RequestsTypeOK, JobsTypeOK, StaffTypeOK, Counters, Rows, LeaveRows, Plans

LEMMA StepTypes ==
    ASSUME TypeOK, RowsInv, [Next]_staffVars
    PROVE  TypeOK'
<1>0. TypeParts!1' /\ TypeParts!2'
  BY TypeParts, PTL
<1>1. CASE UNCHANGED staffVars
  BY <1>1 DEF staffVars, apptVars, requests, jobs, staff, leaves, TypeOK, AppointmentsTypeOK, Active
<1>2. CASE Next
  <2>1. UNCHANGED requests => RequestsTypeOK'
    BY TypeParts DEF requests, RequestsTypeOK
  <2>2. Asking \/ UNCHANGED requests
    BY <1>2, StepCases, ChangingRows, ScanningRows, PassingRows DEF apptVars, CommitLeave
  <2>3. RequestsTypeOK'
    BY <2>1, <2>2, RequestsTyped, TypeParts
  <2> QED
    BY <1>0, <1>2, <2>3, TypeParts, RowsTyped, CustomersTyped, JobsTyped, StaffTyped
<1> QED
  BY <1>1, <1>2

------------------------------------------------------------------------------
(* Requests and their rows *)

\* What a step of a request does to the place of a request.
LEMMA RequestsGo ==
    ASSUME TypeOK, RowsInv, [Next]_staffVars, NEW a \in Appts
    PROVE  /\ pc[a] \in Booked => pc'[a] \in Booked
           /\ pc'[a] \in InFlight =>
                \/ pc[a] \in InFlight /\ wish'[a] = wish[a]
                \/ /\ Asking /\ wish'[a] \in Slots
                   /\ OnLeave(wish'[a][1], wish'[a][2]) => a \in excused'
<1> USE DEF TypeOK, AppointmentsTypeOK, Booked
<1>1. CASE UNCHANGED requests
  BY <1>1 DEF requests
<1>2. CASE Asking
  <2>0. PICK x \in Appts :
          \/ Refuse(x) \/ Lock(x) \/ Create(x) \/ RescheduleVerify(x)
          \/ \E b \in Barbers, t \in Times : Check(x, b, t)
          \/ \E y \in Appts : RescheduleCancel(x, y)
    BY <1>2 DEF Asking
  <2> USE <1>2 DEF Goto, InFlight, Labels
  <2>1. CASE Refuse(x)
    BY <2>1 DEF Refuse
  <2>2. CASE Lock(x)
    BY <2>2 DEF Lock, Give
  <2>3. CASE Create(x)
    BY <2>3 DEF Create, Give
  <2>4. CASE RescheduleVerify(x)
    BY <2>4 DEF RescheduleVerify
  <2>5. CASE \E y \in Appts : RescheduleCancel(x, y)
    BY <2>5 DEF RescheduleCancel
  <2>6. ASSUME NEW b \in Barbers, NEW t \in Times, Check(x, b, t)
        PROVE  /\ pc[a] \in Booked => pc'[a] \in Booked
               /\ pc'[a] \in InFlight =>
                    \/ pc[a] \in InFlight /\ wish'[a] = wish[a]
                    \/ wish'[a] \in Slots /\ (OnLeave(wish'[a][1], wish'[a][2]) => a \in excused')
    BY <2>6 DEF Check, SlotKey, Slots
  <2> QED
    BY <2>0, <2>1, <2>2, <2>3, <2>4, <2>5, <2>6
<1>3. Asking \/ UNCHANGED requests
  BY StepCases, ChangingRows, ScanningRows, PassingRows DEF apptVars, CommitLeave, staffVars
<1> QED
  BY <1>1, <1>2, <1>3

LEMMA StepRowsInv ==
    ASSUME TypeOK, RowsInv, [Next]_staffVars
    PROVE  RowsInv'
<1> USE DEF TypeOK, AppointmentsTypeOK
<1>1. ASSUME NEW a \in Appts, pc'[a] \notin Booked PROVE row'[a].status = "none"
  <2>1. ~Books(a)
    BY <1>1 DEF Books
  <2>2. pc[a] \notin Booked
    BY <1>1, RequestsGo
  <2> QED
    BY <2>1, <2>2, RowsStay DEF RowsInv
<1>2. ASSUME NEW a \in Appts, row'[a].status # "none"
      PROVE  row'[a].barber \in Barbers /\ row'[a].time \in Times
  <2>0. row[a].status # "none" => row[a].barber \in Barbers /\ row[a].time \in Times
    BY DEF RowsInv, SlotKey, Slots
  <2>1. CASE row' = row
    BY <1>2, <2>0, <2>1
  <2>2. ASSUME NEW x \in Appts, Books(x) PROVE row'[a].barber \in Barbers /\ row'[a].time \in Times
    <3>1. wish[x] \in Slots
      BY <2>2 DEF Books, RowsInv, InFlight
    <3> QED
      BY <1>2, <2>0, <2>2, <3>1 DEF Books, Insert, Slots
  <2>3. ASSUME NEW x \in Appts, NEW s \in Endings, Closes(x, s)
        PROVE  row'[a].barber \in Barbers /\ row'[a].time \in Times
    BY <1>2, <2>0, <2>3 DEF Closes, Closed
  <2>4. ASSUME NEW x \in Appts, Reopens(x) PROVE row'[a].barber \in Barbers /\ row'[a].time \in Times
    BY <1>2, <2>0, <2>4 DEF Reopens
  <2>5. CASE Ages
    <3>1. row'[a].barber = row[a].barber /\ row'[a].time = row[a].time
          /\ (row[a].status = "none" => row'[a].status = "none")
      BY <2>5 DEF Ages
    <3> QED
      BY <1>2, <2>0, <3>1
  <2>6. ASSUME NEW l \in Leaves, CommitLeave(l) PROVE row'[a].barber \in Barbers /\ row'[a].time \in Times
    <3>1. CommitGoes(l, a)
      BY <2>6, CommitRows
    <3>2. CASE Reassigned(l, a)
      BY <2>0, <3>2 DEF Reassigned, Alternates, Active
    <3>3. CASE Active(a) /\ row'[a] = Closed(a, "cancelled")
      BY <2>0, <3>3 DEF Closed, Active
    <3>4. CASE row'[a] = row[a]
      BY <1>2, <2>0, <3>4
    <3> QED
      BY <3>1, <3>2, <3>3, <3>4 DEF CommitGoes
  <2> QED
    BY <2>1, <2>2, <2>3, <2>4, <2>5, <2>6, NextRows DEF RowGoes
<1>3. ASSUME NEW a \in Appts, pc'[a] \in InFlight PROVE wish'[a] \in Slots
  BY <1>3, RequestsGo DEF RowsInv
<1>4. ASSUME NEW a \in Appts, a \in marking' PROVE row'[a].status # "none"
  <2>1. row[a].status # "none"
    <3>1. CASE a \in marking
      BY <3>1 DEF RowsInv
    <3>2. CASE a \notin marking
      <4>1. Changing
        BY <1>4, <3>2, StepCases, AskingRows, ScanningRows, PassingRows
           DEF apptVars, jobs, CommitLeave, staffVars
      <4>2. ReadForNoShow(a)
        BY <1>4, <3>2, <4>1 DEF Changing, CancelTool, AdminCancel, Complete, Uncomplete, Uncancel,
                                ReadForNoShow, WriteNoShow, jobs
      <4> QED
        BY <4>2 DEF ReadForNoShow, Active
    <3> QED
      BY <3>1, <3>2
  <2> QED
    BY <2>1, RowsStay
<1>5. marking' \subseteq Appts
  BY StepTypes
<1> QED
  BY <1>1, <1>2, <1>3, <1>4, <1>5 DEF RowsInv, SlotKey, Slots

------------------------------------------------------------------------------
(* The handler of a leave *)

LEMMA StepPlanInv ==
    ASSUME TypeOK, RowsInv, KeyTracksStatus, PlanInv, [Next]_staffVars
    PROVE  PlanInv'
<1>0. StaffTypeOK
  BY TypeParts
<1>1. ASSUME NEW l \in Leaves, plan'[l] = plan[l], leave'[l].from = leave[l].from, leave'[l].to = leave[l].to,
             plan'[l].step = "found"
      PROVE  FindingsHold(l)'
  <2>1. FindingsHold(l) /\ Found(l)' = Found(l)
    BY <1>1 DEF PlanInv, Found
  <2>2. Found(l) \subseteq Appts /\ plan[l].seen \subseteq Appts
    BY <1>0, FoundType DEF StaffTypeOK, Plans
  <2>3. \A a \in plan[l].seen \cup Found(l) : row'[a].status # "none" /\ row'[a].time = row[a].time
    BY <2>1, <2>2, RowsStay DEF FindingsHold
  <2> QED
    BY <1>1, <2>1, <2>3 DEF FindingsHold, InRange
<1>2. ASSUME NEW l \in Leaves, NEW b \in Barbers, NEW from \in Times, NEW to \in Times, NEW mode \in Modes,
             FindAffected(l, b, from, to, mode)
      PROVE  PlanInv'
  <2>1. /\ Found(l)' = Affected(b, from, to)
        /\ plan'[l].seen = {a \in Appts : Active(a) /\ row[a].barber = b}
        /\ leave'[l].from = from /\ leave'[l].to = to
        /\ row' = row
    <3>1. plan'[l] = [step |-> "found", seen |-> {a \in Appts : Active(a) /\ row[a].barber = b},
                      todo |-> Affected(b, from, to) \X {"found"}]
      BY <1>0, <1>2 DEF FindAffected, StaffTypeOK
    <3>2. ASSUME NEW S PROVE {p[1] : p \in S \X {"found"}} = S
      <4>1. \A a \in S : <<a, "found">> \in S \X {"found"} /\ <<a, "found">>[1] = a
        OBVIOUS
      <4>2. \A p \in S \X {"found"} : p[1] \in S
        OBVIOUS
      <4> QED
        BY <4>1, <4>2
    <3>3. Found(l)' = Affected(b, from, to)
      BY <3>1, <3>2 DEF Found
    <3>4. leave'[l] = [NoLeave EXCEPT !.barber = b, !.from = from, !.to = to, !.mode = mode]
      BY <1>0, <1>2 DEF FindAffected, StaffTypeOK
    <3>5. leave'[l].from = from /\ leave'[l].to = to
      BY <3>4 DEF NoLeave
    <3> QED
      BY <1>2, <3>1, <3>3, <3>5 DEF FindAffected, apptVars
  <2>2. FindingsHold(l)'
    <3>1. \A a, x \in Affected(b, from, to) : a # x => row[a].time # row[x].time
      BY ZenonT(40) DEF Affected, KeyTracksStatus, SlotKey
    <3>2. \A a \in Affected(b, from, to) \cup {x \in Appts : Active(x) /\ row[x].barber = b} : row[a].status # "none"
      BY DEF Affected, Active
    <3>3. \A a \in {x \in Appts : Active(x) /\ row[x].barber = b} \ Affected(b, from, to) :
            ~(from <= row[a].time /\ row[a].time <= to)
      BY DEF Affected
    <3> QED
      BY <2>1, <3>1, <3>2, <3>3 DEF FindingsHold, InRange
  <2>3. \A m \in Leaves \ {l} : plan'[m] = plan[m] /\ leave'[m] = leave[m]
    BY <1>0, <1>2 DEF FindAffected, StaffTypeOK
  <2> QED
    BY <1>1, <2>2, <2>3 DEF PlanInv
<1>3. ASSUME UNCHANGED plan, \A m \in Leaves : leave'[m].from = leave[m].from /\ leave'[m].to = leave[m].to
      PROVE  PlanInv'
  BY <1>1, <1>3 DEF PlanInv
<1>4. ASSUME NEW l \in Leaves, plan'[l].step # "found", \A m \in Leaves \ {l} : plan'[m] = plan[m],
             \A m \in Leaves : leave'[m].from = leave[m].from /\ leave'[m].to = leave[m].to
      PROVE  PlanInv'
  BY <1>1, <1>4 DEF PlanInv
<1>5. ASSUME NEW l \in Leaves, CommitLeave(l) PROVE PlanInv'
  <2>1. \A m \in Leaves : leave'[m].from = leave[m].from /\ leave'[m].to = leave[m].to
    BY <1>0, <1>5, CommitOthers DEF StaffTypeOK, LeaveRows
  <2>2. plan'[l].step # "found" /\ \A m \in Leaves \ {l} : plan'[m] = plan[m]
    BY <1>0, <1>5, CommitOthers DEF StaffTypeOK
  <2> QED
    BY <1>4, <2>1, <2>2
<1>6. ASSUME NEW l \in Leaves, AbortLeave(l) PROVE PlanInv'
  BY <1>0, <1>4, <1>6 DEF AbortLeave, StaffTypeOK, staff
<1>7. ASSUME NEW l \in Leaves, NEW a \in Appts, Notify(l, a) PROVE PlanInv'
  BY <1>0, <1>4, <1>7 DEF Notify, StaffTypeOK, Plans, staff
<1>8. ASSUME NEW l \in Leaves, CancelLeave(l) PROVE PlanInv'
  BY <1>0, <1>3, <1>8 DEF CancelLeave, StaffTypeOK, LeaveRows, leaves
<1>9. CASE Leaving
  BY <1>2, <1>5, <1>6, <1>7, <1>8, <1>9 DEF Leaving
<1>10. CASE ExpireLeaves
  BY <1>0, <1>3, <1>10 DEF ExpireLeaves, StaffTypeOK, LeaveRows, leaves
<1>11. CASE Managing
  BY <1>3, <1>11 DEF Managing, CountFuture, Deactivate, Activate, staff, leaves
<1>12. CASE Asking \/ Changing \/ Scanning \/ Passing \/ UNCHANGED staffVars
  BY <1>3, <1>12, AskingRows, ChangingRows, ScanningRows, PassingRows DEF leaves, staff, staffVars
<1> QED
  BY <1>9, <1>10, <1>11, <1>12 DEF Next

------------------------------------------------------------------------------
(* The keys of the slots *)

\* One row takes a key that is free, or gives its key back.
LEMMA OneKeyMoves ==
    ASSUME KeyTracksStatus, NEW x \in Appts,
           \A a \in Appts \ {x} : row'[a] = row[a],
           \/ row'[x].status # "active" /\ row'[x].key = NoKey
           \/ /\ row'[x].status = "active" /\ row'[x].key = SlotKey(row'[x].barber, row'[x].time)
              /\ ~KeyTaken(row'[x].key)
    PROVE  KeyTracksStatus'
<1>1. \A a \in Appts : row'[a].key = IF row'[a].status = "active" THEN SlotKey(row'[a].barber, row'[a].time) ELSE NoKey
  BY DEF KeyTracksStatus, Active
<1>2. ASSUME NEW a \in Appts, NEW y \in Appts, a # y, row'[a].status = "active", row'[y].status = "active"
      PROVE  row'[a].key # row'[y].key
  BY <1>2 DEF KeyTracksStatus, Active, KeyTaken
<1> QED
  BY <1>1, <1>2 DEF KeyTracksStatus, Active

LEMMA StepKeys ==
    ASSUME TypeOK, RowsInv, KeyTracksStatus, PlanInv, [Next]_staffVars
    PROVE  KeyTracksStatus'
<1> USE DEF TypeOK, AppointmentsTypeOK, KeyTracksStatus, Active
<1>1. CASE row' = row
  BY <1>1
<1>2. ASSUME NEW x \in Appts, Books(x) PROVE KeyTracksStatus'
  <2>1. wish[x] \in Slots
    BY <1>2 DEF Books, RowsInv, InFlight
  <2>2. /\ row'[x].status = "active" /\ row'[x].key = SlotKey(row'[x].barber, row'[x].time)
        /\ row'[x].key = wish[x]
    BY <1>2, <2>1 DEF Books, Insert, SlotKey, Slots
  <2>3. (\A a \in Appts \ {x} : row'[a] = row[a]) /\ ~KeyTaken(wish[x])
    BY <1>2 DEF Books
  <2> QED
    BY <2>2, <2>3, OneKeyMoves
<1>3. ASSUME NEW x \in Appts, NEW s \in Endings, Closes(x, s) PROVE KeyTracksStatus'
  <2>1. row'[x].status # "active" /\ row'[x].key = NoKey
    BY <1>3 DEF Closes, Closed, Endings
  <2>2. \A a \in Appts \ {x} : row'[a] = row[a]
    BY <1>3 DEF Closes
  <2> QED
    BY <2>1, <2>2, OneKeyMoves
<1>4. ASSUME NEW x \in Appts, Reopens(x) PROVE KeyTracksStatus'
  <2>1. /\ row'[x].status = "active" /\ row'[x].key = SlotKey(row'[x].barber, row'[x].time)
        /\ row'[x].key = SlotKey(row[x].barber, row[x].time)
    BY <1>4 DEF Reopens
  <2>2. (\A a \in Appts \ {x} : row'[a] = row[a]) /\ ~KeyTaken(SlotKey(row[x].barber, row[x].time))
    BY <1>4 DEF Reopens
  <2> QED
    BY <2>1, <2>2, OneKeyMoves
<1>5. CASE Ages
  <2>1. \A a \in Appts : /\ row'[a].status = row[a].status /\ row'[a].key = row[a].key
                         /\ row'[a].barber = row[a].barber /\ row'[a].time = row[a].time
    BY <1>5 DEF Ages
  <2> QED
    BY <2>1
<1>6. ASSUME NEW l \in Leaves, CommitLeave(l) PROVE KeyTracksStatus'
  <2>0. \A a, x \in Found(l) : a # x => row[a].time # row[x].time
    BY <1>6 DEF CommitLeave, PlanInv, FindingsHold
  <2>1. ASSUME NEW a \in Appts, Reassigned(l, a)
        PROVE  /\ row'[a].status = "active" /\ row'[a].key = SlotKey(row'[a].barber, row'[a].time)
               /\ row'[a].time = row[a].time /\ ~KeyTaken(row'[a].key)
    <3>1. PICK b \in Alternates(l, a) : row'[a] = [row[a] EXCEPT !.barber = b, !.key = SlotKey(b, row[a].time)]
      BY <2>1 DEF Reassigned
    <3>2. row'[a].key = SlotKey(b, row[a].time) /\ row'[a].barber = b /\ row'[a].time = row[a].time
          /\ row'[a].status = row[a].status
      BY <3>1
    <3>3. ~KeyTaken(SlotKey(b, row[a].time))
      BY DEF Alternates
    <3> QED
      BY <2>1, <3>2, <3>3 DEF Reassigned
  <2>2. \A a \in Appts :
          \/ row'[a] = row[a]
          \/ Reassigned(l, a)
          \/ row'[a].status # "active" /\ row'[a].key = NoKey
    <3> SUFFICES ASSUME NEW a \in Appts, row'[a] = Closed(a, "cancelled")
                 PROVE  row'[a].status # "active" /\ row'[a].key = NoKey
      BY <1>6, CommitRows DEF CommitGoes
    <3> QED
      BY DEF Closed
  <2>3. ASSUME NEW a \in Appts
        PROVE  row'[a].key = IF row'[a].status = "active" THEN SlotKey(row'[a].barber, row'[a].time) ELSE NoKey
    BY <2>1, <2>2
  <2>4. ASSUME NEW a \in Appts, NEW x \in Appts, a # x, row'[a].status = "active", row'[x].status = "active",
               Reassigned(l, a)
        PROVE  row'[a].key # row'[x].key
    <3>1. CASE row'[x] = row[x]
      BY <2>1, <2>4, <3>1 DEF KeyTaken
    <3>2. CASE Reassigned(l, x)
      <4>0. a \in Found(l) /\ x \in Found(l)
        BY <2>4, <3>2 DEF Reassigned
      <4>1. row'[a].time # row'[x].time
        BY <2>0, <2>1, <2>4, <3>2, <4>0
      <4> QED
        BY <2>1, <2>4, <3>2, <4>1 DEF SlotKey
    <3> QED
      BY <2>2, <2>4, <3>1, <3>2
  <2>5. ASSUME NEW a \in Appts, NEW x \in Appts, a # x, row'[a].status = "active", row'[x].status = "active"
        PROVE  row'[a].key # row'[x].key
    <3>1. CASE Reassigned(l, a) \/ Reassigned(l, x)
      BY <2>4, <2>5, <3>1
    <3>2. CASE row'[a] = row[a] /\ row'[x] = row[x]
      BY <2>5, <3>2
    <3> QED
      BY <2>2, <2>5, <3>1, <3>2
  <2> QED
    BY <2>3, <2>5
<1> QED
  BY <1>1, <1>2, <1>3, <1>4, <1>5, <1>6, NextRows DEF RowGoes

------------------------------------------------------------------------------
(* Leaves and those who are booked *)

\* Only the transaction of a leave takes an hour away.
LEMMA LeavesGrow ==
    ASSUME TypeOK, RowsInv, [Next]_staffVars, NEW b, NEW t, OnLeave(b, t)'
    PROVE  OnLeave(b, t) \/ \E l \in Leaves : CommitLeave(l) /\ Covers(l, b, t)
<1>0. StaffTypeOK
  BY TypeParts
<1>1. PICK m \in Leaves : leave'[m].status = "active" /\ Covers(m, b, t)'
  BY DEF OnLeave
<1>2. CASE leave'[m] = leave[m]
  BY <1>1, <1>2 DEF OnLeave, Covers
<1>3. ASSUME NEW l \in Leaves, CommitLeave(l)
      PROVE  leave'[m] = leave[m] \/ (m = l /\ Covers(l, b, t))
  BY <1>0, <1>1, <1>3, CommitOthers DEF Covers, StaffTypeOK, LeaveRows
<1>4. ASSUME NEW l \in Leaves, AbortLeave(l) \/ (\E a \in Appts : Notify(l, a)) \/ CancelLeave(l)
               \/ \E c \in Barbers, from, to \in Times, mode \in Modes : FindAffected(l, c, from, to, mode)
      PROVE  leave'[m] = leave[m]
  <2>1. CASE AbortLeave(l) \/ \E a \in Appts : Notify(l, a)
    BY <2>1 DEF AbortLeave, Notify, staff
  <2>2. CASE CancelLeave(l)
    <3>1. m # l => leave'[m] = leave[m]
      BY <1>0, <2>2 DEF CancelLeave, StaffTypeOK
    <3>2. leave'[l].status = "cancelled"
      BY <1>0, <2>2 DEF CancelLeave, StaffTypeOK, LeaveRows
    <3> QED
      BY <1>1, <3>1, <3>2
  <2>3. ASSUME NEW c \in Barbers, NEW from \in Times, NEW to \in Times, NEW mode \in Modes,
               FindAffected(l, c, from, to, mode)
        PROVE  leave'[m] = leave[m]
    <3>1. m # l => leave'[m] = leave[m]
      BY <1>0, <2>3 DEF FindAffected, StaffTypeOK
    <3>2. leave'[l].status = "none"
      BY <1>0, <2>3 DEF FindAffected, StaffTypeOK, NoLeave
    <3> QED
      BY <1>1, <3>1, <3>2
  <2> QED
    BY <1>4, <2>1, <2>2, <2>3
<1>5. CASE Leaving
  BY <1>2, <1>3, <1>4, <1>5 DEF Leaving
<1>6. CASE ExpireLeaves
  BY <1>0, <1>1, <1>2, <1>6 DEF ExpireLeaves, StaffTypeOK, LeaveRows
<1>7. CASE Managing
  BY <1>2, <1>7 DEF Managing, CountFuture, Deactivate, Activate, staff
<1>8. CASE Asking \/ Changing \/ Scanning \/ Passing \/ UNCHANGED staffVars
  BY <1>2, <1>8, AskingRows, ChangingRows, ScanningRows, PassingRows DEF staff, staffVars
<1> QED
  BY <1>5, <1>6, <1>7, <1>8 DEF Next

\* An excuse stays, the clock does not go back, and only the dismissal of an employee
\* takes one away.
LEMMA ExcusesGrow ==
    ASSUME TypeOK, RowsInv, [Next]_staffVars
    PROVE  /\ excused \subseteq excused' /\ clock <= clock'
           /\ working \subseteq working' \/ \E b \in Barbers : Deactivate(b)
<1>0. clock \in Nat /\ MaxTime \in Nat /\ StaffTypeOK
  BY TypeParts, AppointmentsAssumption DEF JobsTypeOK
<1>1. CASE Asking \/ Scanning
  BY <1>0, <1>1, AskingRows, ScanningRows DEF staff
<1>2. CASE Changing
  <2>1. excused \subseteq excused'
    BY <1>2 DEF Changing, CancelTool, AdminCancel, Complete, Uncomplete, Uncancel, Reopen, ReadForNoShow,
                WriteNoShow, staff
  <2> QED
    BY <1>0, <1>2, <2>1, ChangingRows
<1>3. CASE Passing
  BY <1>0, <1>3, PassingRows DEF staff, Passing, Tick
<1>4. ASSUME NEW l \in Leaves, CommitLeave(l)
      PROVE  excused \subseteq excused' /\ clock <= clock' /\ working \subseteq working'
  <2>1. clock' = clock /\ working' = working
    BY <1>4, Zenon DEF CommitLeave
  <2> QED
    BY <1>0, <1>4, <2>1, CommitOthers
<1>5. CASE Leaving
  <2>1. PICK l \in Leaves :
           \/ \E b \in Barbers, from, to \in Times, mode \in Modes : FindAffected(l, b, from, to, mode)
           \/ CommitLeave(l)
           \/ AbortLeave(l)
           \/ \E a \in Appts : Notify(l, a)
           \/ CancelLeave(l)
    BY <1>5, Zenon DEF Leaving
  <2>2. CommitLeave(l) \/ UNCHANGED <<clock, excused, working>>
    BY <2>1 DEF FindAffected, AbortLeave, Notify, CancelLeave, staff, apptVars
  <2> QED
    BY <1>0, <1>4, <2>2
<1>6. CASE ExpireLeaves
  BY <1>0, <1>6 DEF ExpireLeaves, apptVars
<1>7. CASE Managing
  BY <1>0, <1>7 DEF Managing, CountFuture, Deactivate, Activate, staff, apptVars
<1>8. CASE UNCHANGED staffVars
  BY <1>0, <1>8 DEF staffVars, apptVars, staff
<1> QED
  BY <1>1, <1>2, <1>3, <1>5, <1>6, <1>7, <1>8 DEF Next

LEMMA StepWishInv ==
    ASSUME TypeOK, RowsInv, WishInv, [Next]_staffVars
    PROVE  WishInv'
<1> SUFFICES ASSUME NEW a \in Appts, pc'[a] \in InFlight, a \notin excused',
                    NEW b \in {wish'[a][1]}, NEW t \in {wish'[a][2]}, OnLeave(b, t)'
             PROVE  FALSE
  BY DEF WishInv
<1>1. CASE Asking
  <2>1. OnLeave(b, t)
    BY <1>1, AskingRows DEF OnLeave, Covers
  <2> QED
    BY <2>1, RequestsGo, ExcusesGrow DEF WishInv
<1>2. CASE ~Asking
  <2>1. pc[a] \in InFlight /\ wish'[a] = wish[a] /\ a \notin excused
    BY <1>2, RequestsGo, ExcusesGrow
  <2>2. ~OnLeave(b, t)
    BY <2>1 DEF WishInv
  <2>3. PICK l \in Leaves : CommitLeave(l) /\ Covers(l, b, t)
    BY <2>2, LeavesGrow
  <2> QED
    BY <2>1, <2>3, CommitOthers, TypeParts
<1> QED
  BY <1>1, <1>2

LEMMA StepAttended ==
    ASSUME TypeOK, RowsInv, PlanInv, WishInv, AttendedOrExcused, [Next]_staffVars
    PROVE  AttendedOrExcused'
<1> SUFFICES ASSUME NEW a \in Appts, row'[a].status = "active", clock' < row'[a].time, a \notin excused',
                    NEW b \in {row'[a].barber}, NEW t \in {row'[a].time}
             PROVE  b \in working' /\ ~OnLeave(b, t)'
  BY DEF AttendedOrExcused, Active, Attended
<1> USE DEF TypeOK, AppointmentsTypeOK
<1>0. /\ a \notin excused /\ clock < row'[a].time
      /\ working \subseteq working' \/ \E c \in Barbers : Deactivate(c)
  <2>1. clock \in Nat /\ clock' \in Nat /\ row'[a].time \in Nat
    BY AppointmentsAssumption, StepTypes, RowsTyped DEF Rows
  <2> QED
    BY <2>1, ExcusesGrow
<1>1. CASE \E l \in Leaves : CommitLeave(l)
  <2>0. PICK l \in Leaves : CommitLeave(l)
    BY <1>1
  <2>1. working' = working /\ clock' = clock
    BY <2>0, Zenon DEF CommitLeave
  <2>2. ASSUME OnLeave(b, t)' PROVE OnLeave(b, t) \/ Covers(l, b, t)
    <3>0. StaffTypeOK
      BY TypeParts
    <3>1. PICK m \in Leaves : leave'[m].status = "active" /\ Covers(m, b, t)'
      BY <2>2 DEF OnLeave
    <3>2. Covers(m, b, t) /\ (m # l => leave'[m] = leave[m])
      BY <2>0, <3>0, <3>1, CommitCovers
    <3> QED
      BY <3>1, <3>2 DEF OnLeave
  <2>3. CASE row'[a] = row[a] /\ ~(a \in Found(l) /\ Active(a))
    <3>0. Active(a) /\ b = row[a].barber /\ t = row[a].time
      BY <2>3 DEF Active
    <3>1. Attended(b, t)
      BY <1>0, <2>3, <3>0 DEF AttendedOrExcused
    <3>2. a \in Appts \ (plan[l].seen \cup Found(l)) => ~Covers(l, b, t)
      <4>1. StaffTypeOK
        BY TypeParts
      <4>2. a \in Appts \ (plan[l].seen \cup Found(l)) => ~Covers(l, row[a].barber, row[a].time)
        BY <2>0, <3>0, <4>1, CommitOthers
      <4> QED
        BY <3>0, <4>2
    <3>3. a \in plan[l].seen \ Found(l) => ~Covers(l, b, t)
      <4>1. plan[l].step = "found"
        BY <2>0, Zenon DEF CommitLeave
      <4>2. FindingsHold(l)
        BY <4>1 DEF PlanInv
      <4> QED
        BY <3>0, <4>2 DEF FindingsHold, InRange, Covers
    <3> QED
      BY <2>1, <2>2, <2>3, <3>0, <3>1, <3>2, <3>3 DEF Attended
  <2>4. CASE Reassigned(l, a)
    <3>1. PICK c \in Alternates(l, a) :
            /\ row'[a] = [row[a] EXCEPT !.barber = c, !.key = SlotKey(c, row[a].time)]
            /\ OnLeave(c, row[a].time) => a \in excused'
      BY <2>4 DEF Reassigned
    <3>2. c = b /\ row[a].time = t
      BY <3>1
    <3>3. b \in working /\ ~OnLeave(b, t) /\ ~Covers(l, b, t)
      BY <3>1, <3>2 DEF Alternates, Covers
    <3> QED
      BY <2>1, <2>2, <3>3
  <2>5. Closed(a, "cancelled").status = "cancelled"
    BY DEF Closed
  <2> QED
    BY <2>0, <2>3, <2>4, <2>5, CommitRows DEF CommitGoes
<1>2. CASE RowGoes /\ ~\E l \in Leaves : CommitLeave(l)
  <2>0. ~OnLeave(b, t) => ~OnLeave(b, t)'
    BY <1>2, LeavesGrow
  <2>1. CASE row[a].status = "active" /\ row'[a].barber = row[a].barber /\ row'[a].time = row[a].time
    <3>1. b \in working /\ ~OnLeave(b, t)
      BY <1>0, <2>1 DEF AttendedOrExcused, Active, Attended
    <3>2. ASSUME NEW c \in Barbers, Deactivate(c) PROVE b \in working'
      BY <2>1, <3>1, <3>2 DEF Deactivate, Active
    <3> QED
      BY <1>0, <2>0, <3>1, <3>2
  <2>2. CASE Books(a)
    <3>1. wish[a] \in Slots /\ pc[a] \in InFlight
      BY <2>2 DEF Books, RowsInv, InFlight
    <3>2. b = wish[a][1] /\ t = wish[a][2] /\ b \in working
      BY <2>2 DEF Books, Insert
    <3>3. ~OnLeave(b, t)
      BY <1>0, <3>1, <3>2 DEF WishInv
    <3>4. ~\E c \in Barbers : Deactivate(c)
      <4>1. row'[a] # row[a]
        BY <2>2 DEF Books, RowsInv, Insert, Booked
      <4> QED
        BY <4>1 DEF Deactivate, apptVars
    <3> QED
      BY <1>0, <2>0, <3>2, <3>3, <3>4
  <2>3. CASE Reopens(a)
    <3>0. row[a].status # row'[a].status
      BY <2>3 DEF Reopens
    <3>1. row' # row /\ b = row[a].barber /\ t = row[a].time
      BY <2>3, <3>0 DEF Reopens
    <3>2. b \in working /\ ~OnLeave(b, t)
      BY <2>3, <3>1 DEF Reopens, Attended
    <3>3. ~\E c \in Barbers : Deactivate(c)
      BY <3>1 DEF Deactivate, apptVars
    <3> QED
      BY <1>0, <2>0, <3>2, <3>3
  <2>4. CASE row' = row \/ Ages
    <3>1. row[a].status = "active" /\ row'[a].barber = row[a].barber /\ row'[a].time = row[a].time
      BY <2>4 DEF Ages
    <3> QED
      BY <2>1, <3>1
  <2>5. ASSUME NEW x \in Appts, Books(x) \/ Reopens(x) \/ \E s \in Endings : Closes(x, s)
        PROVE  row'[a] = row[a] \/ x = a
    BY <2>5 DEF Books, Reopens, Closes
  <2>6. \A s \in Endings : ~Closes(a, s)
    <3> SUFFICES ASSUME NEW s \in Endings, Closes(a, s) PROVE FALSE
      OBVIOUS
    <3>1. row'[a] = Closed(a, s)
      BY DEF Closes
    <3>2. row'[a].status = s
      BY <3>1 DEF Closed
    <3> QED
      BY <3>2 DEF Endings
  <2>7. CASE row'[a] = row[a]
    BY <2>1, <2>7
  <2> QED
    BY <1>2, <2>2, <2>3, <2>4, <2>5, <2>6, <2>7 DEF RowGoes
<1> QED
  BY <1>1, <1>2, NextRows

------------------------------------------------------------------------------
(* Visits and completions *)

\* Three actions disturb what is counted.
Counts(a) == Complete(a) \/ Uncomplete(a) \/ WriteNoShow(a)

LEMMA CountedByFew ==
    ASSUME TypeOK, RowsInv, [Next]_staffVars, \A a \in Appts : ~Counts(a)
    PROVE  /\ overwritten' = overwritten
           /\ \A c \in Customers : customer'[c].visits = customer[c].visits
           /\ \A a \in Appts : /\ row[a].status = "completed" <=> row'[a].status = "completed"
                               /\ row[a].status = "noshow" => row'[a].status = "noshow"
<1> DEFINE Same == /\ overwritten' = overwritten
                   /\ \A c \in Customers : customer'[c].visits = customer[c].visits
                   /\ \A a \in Appts : /\ row[a].status = "completed" <=> row'[a].status = "completed"
                                       /\ row[a].status = "noshow" => row'[a].status = "noshow"
<1>0. /\ row \in [Appts -> Rows] /\ customer \in [Customers -> Counters]
      /\ \A a \in Appts : Owner[a] \in Customers
  BY AppointmentsAssumption, TypeParts DEF TypeOK, AppointmentsTypeOK, Rows
<1>1. CASE row' = row /\ customer' = customer /\ overwritten' = overwritten
  BY <1>1
<1>2. ASSUME NEW x \in Appts, Active(x), row' = [row EXCEPT ![x] = Closed(x, "cancelled")],
             UNCHANGED overwritten,
             customer' = customer \/ \E c \in Customers : customer' = Penalised(c)
      PROVE  Same
  <2>1. \A a \in Appts : \/ row'[a] = row[a]
                         \/ row[a].status = "active" /\ row'[a].status = "cancelled"
    BY <1>0, <1>2 DEF Closed, Active, Rows
  <2>2. \A c, d \in Customers : Penalised(d)[c].visits = customer[c].visits
    BY <1>0 DEF Penalised, Counters
  <2> QED
    BY <1>2, <2>1, <2>2
<1>3. ASSUME NEW x \in Appts, CancelByCustomer(x), UNCHANGED overwritten PROVE Same
  BY <1>0, <1>2, <1>3 DEF CancelByCustomer, CanCancel
<1>4. CASE Asking
  <2>0. PICK a \in Appts :
          \/ Refuse(a) \/ Lock(a) \/ Create(a) \/ RescheduleVerify(a)
          \/ \E b \in Barbers, t \in Times : Check(a, b, t)
          \/ \E x \in Appts : RescheduleCancel(a, x)
    BY <1>4 DEF Asking
  <2>1. CASE Refuse(a) \/ Lock(a) \/ RescheduleVerify(a) \/ \E b \in Barbers, t \in Times : Check(a, b, t)
    BY <1>1, <2>1 DEF Refuse, Lock, RescheduleVerify, Check, jobs
  <2>2. CASE Create(a)
    <3>1. row[a].status = "none"
      BY <2>2 DEF Create, RowsInv, Booked
    <3> QED
      BY <1>0, <2>2, <3>1 DEF Create, Insert, jobs
  <2>3. ASSUME NEW x \in Appts, RescheduleCancel(a, x) PROVE Same
    BY <1>3, <2>3 DEF RescheduleCancel, jobs
  <2> QED
    BY <2>0, <2>1, <2>2, <2>3
<1>5. CASE Changing
  <2>0. PICK a \in Appts : CancelTool(a) \/ AdminCancel(a) \/ Uncancel(a) \/ ReadForNoShow(a)
    BY <1>5 DEF Changing, Counts
  <2>1. CASE CancelTool(a)
    BY <1>3, <2>1 DEF CancelTool, jobs
  <2>2. CASE AdminCancel(a)
    BY <1>2, <2>2 DEF AdminCancel, jobs
  <2>3. CASE Uncancel(a)
    BY <1>0, <2>3 DEF Uncancel, Reopen
  <2>4. CASE ReadForNoShow(a)
    BY <1>1, <2>4 DEF ReadForNoShow
  <2> QED
    BY <2>0, <2>1, <2>2, <2>3, <2>4
<1>6. CASE Scanning
  <2>1. CASE SelectOverdue
    BY <1>1, <2>1 DEF SelectOverdue
  <2>2. ASSUME NEW a \in Appts, MarkNoShow(a) PROVE Same
    <3>1. \A c \in Customers : customer'[c].visits = customer[c].visits
      BY <1>0, <2>2 DEF MarkNoShow, Counters
    <3>2. \A x \in Appts : \/ row'[x] = row[x]
                           \/ row[x].status = "active" /\ row'[x].status = "noshow"
      BY <1>0, <2>2 DEF MarkNoShow, Active, Closed, Rows
    <3> QED
      BY <2>2, <3>1, <3>2 DEF MarkNoShow
  <2> QED
    BY <1>6, <2>1, <2>2 DEF Scanning
<1>7. CASE Passing
  <2>1. \A a \in Appts : row'[a].status = row[a].status
    BY <1>0, <1>7 DEF Passing, Tick, Rows
  <2> QED
    BY <1>7, <2>1 DEF Passing, Tick, jobs
<1>8. ASSUME NEW l \in Leaves, CommitLeave(l) PROVE Same
  <2>1. overwritten' = overwritten /\ customer' = customer
    BY <1>8, Zenon DEF CommitLeave, jobs
  <2>2. ASSUME NEW a \in Appts
        PROVE  \/ row'[a].status = row[a].status
               \/ row[a].status = "active" /\ row'[a].status = "cancelled"
    <3>1. Closed(a, "cancelled").status = "cancelled"
      BY <1>0 DEF Closed, Rows
    <3>2. Reassigned(l, a) => row'[a].status = row[a].status
      BY <1>0 DEF Reassigned, Rows
    <3> QED
      BY <1>8, <3>1, <3>2, CommitRows DEF CommitGoes, Active
  <2> QED
    BY <2>1, <2>2
<1>9. CASE UNCHANGED apptVars \/ UNCHANGED staffVars
  BY <1>1, <1>9 DEF apptVars, staffVars, jobs
<1> QED
  BY <1>4, <1>5, <1>6, <1>7, <1>8, <1>9, StepCases

\* The sum of both counts, when an appointment comes, goes, or changes over.
LEMMA CountsType ==
    ASSUME NEW S, NEW T, IsFiniteSet(S), IsFiniteSet(T)
    PROVE  Cardinality(S) \in Nat /\ Cardinality(T) \in Nat
BY FS_CardinalityType

LEMMA OneMore ==
    ASSUME NEW S, NEW T, NEW a, IsFiniteSet(S), IsFiniteSet(T), a \notin S, NEW Sn, Sn = S \cup {a}
    PROVE  IsFiniteSet(Sn) /\ Cardinality(Sn) + Cardinality(T) = Cardinality(S) + Cardinality(T) + 1
<1>1. IsFiniteSet(Sn) /\ Cardinality(Sn) = Cardinality(S) + 1
  BY FS_AddElement, Zenon
<1> QED
  BY <1>1, CountsType

LEMMA OneLess ==
    ASSUME NEW S, NEW T, NEW a, IsFiniteSet(S), IsFiniteSet(T), a \in S, NEW Sn, Sn = S \ {a}
    PROVE  /\ IsFiniteSet(Sn) /\ Cardinality(S) + Cardinality(T) > 0
           /\ Cardinality(Sn) + Cardinality(T) = Cardinality(S) + Cardinality(T) - 1
<1>1. IsFiniteSet(Sn) /\ Cardinality(Sn) = Cardinality(S) - 1
  BY FS_RemoveElement, Zenon
<1>2. Cardinality(S) # 0
  BY FS_EmptySet
<1> QED
  BY <1>1, <1>2, CountsType

LEMMA OneMoves ==
    ASSUME NEW S, NEW T, NEW a, IsFiniteSet(S), IsFiniteSet(T), a \in S, a \notin T,
           NEW Sn, NEW Tn, Sn = S \ {a}, Tn = T \cup {a}
    PROVE  /\ IsFiniteSet(Sn) /\ IsFiniteSet(Tn)
           /\ Cardinality(Sn) + Cardinality(Tn) = Cardinality(S) + Cardinality(T)
<1>1. IsFiniteSet(Sn) /\ Cardinality(Sn) = Cardinality(S) - 1
  BY FS_RemoveElement, Zenon
<1>2. IsFiniteSet(Tn) /\ Cardinality(Tn) = Cardinality(T) + 1
  BY FS_AddElement, Zenon
<1> QED
  BY <1>1, <1>2, CountsType

LEMMA StepCounts ==
    ASSUME TypeOK, RowsInv, CountInv, [Next]_staffVars
    PROVE  CountInv'
<1>0. /\ row \in [Appts -> Rows] /\ customer \in [Customers -> Counters]
      /\ \A a \in Appts : Owner[a] \in Customers
      /\ overwritten \subseteq Appts
  BY AppointmentsAssumption, TypeParts DEF TypeOK, AppointmentsTypeOK, Rows
<1>1. CASE \A a \in Appts : ~Counts(a)
  <2>1. ASSUME NEW c \in Customers
        PROVE  CompletedOf(c)' = CompletedOf(c) /\ OverwrittenOf(c)' = OverwrittenOf(c)
    BY <1>1, CountedByFew DEF CompletedOf, OverwrittenOf
  <2>2. \A a \in overwritten' : row'[a].status = "noshow"
    BY <1>0, <1>1, CountedByFew DEF CountInv
  <2> QED
    BY <1>1, <2>1, <2>2, CountedByFew DEF CountInv
<1>2. ASSUME NEW a \in Appts, Complete(a) PROVE CountInv'
  <2>0. /\ row[a].status = "active" /\ overwritten' = overwritten
        /\ row'[a].status = "completed" /\ \A x \in Appts \ {a} : row'[x] = row[x]
    BY <1>0, <1>2 DEF Complete, Closed, Active, Rows, jobs
  <2>1. \A x \in overwritten' : row'[x].status = "noshow"
    BY <1>0, <2>0 DEF CountInv
  <2>2. ASSUME NEW c \in Customers
        PROVE  /\ OverwrittenOf(c)' = OverwrittenOf(c)
               /\ IF Owner[a] = c
                  THEN /\ CompletedOf(c)' = CompletedOf(c) \cup {a} /\ a \notin CompletedOf(c)
                       /\ customer'[c].visits = customer[c].visits + 1
                  ELSE CompletedOf(c)' = CompletedOf(c) /\ customer'[c].visits = customer[c].visits
    BY <1>0, <1>2, <2>0 DEF Complete, CompletedOf, OverwrittenOf, Counters
  <2>3. ASSUME NEW c \in Customers
        PROVE  /\ IsFiniteSet(CompletedOf(c)') /\ IsFiniteSet(OverwrittenOf(c)')
               /\ customer'[c].visits = Cardinality(CompletedOf(c)') + Cardinality(OverwrittenOf(c)')
    <3>0. PICK S \in {CompletedOf(c)}, T \in {OverwrittenOf(c)}, Sn \in {CompletedOf(c)'}, Tn \in {OverwrittenOf(c)'} : TRUE
      OBVIOUS
    <3>1. IsFiniteSet(S) /\ IsFiniteSet(T) /\ customer[c].visits = Cardinality(S) + Cardinality(T)
      BY Zenon DEF CountInv
    <3>2. IsFiniteSet(Sn) /\ IsFiniteSet(Tn) /\ customer'[c].visits = Cardinality(Sn) + Cardinality(Tn)
      <4>1. CASE Owner[a] = c
        <5>1. Sn = S \cup {a} /\ a \notin S /\ Tn = T
          BY <2>2, <4>1
        <5>2. IsFiniteSet(Sn)
              /\ Cardinality(Sn) + Cardinality(T) = Cardinality(S) + Cardinality(T) + 1
          BY <3>1, <5>1, OneMore
        <5>3. IsFiniteSet(Tn) /\ Cardinality(Tn) = Cardinality(T)
          BY <3>1, <5>1, Zenon
        <5> QED
          BY <2>2, <3>1, <4>1, <5>2, <5>3
      <4>2. CASE Owner[a] # c
        BY <2>2, <3>1, <4>2
      <4> QED
        BY <4>1, <4>2
    <3> QED
      BY <3>2, Zenon
  <2> QED
    BY <2>1, <2>3 DEF CountInv
<1>3. ASSUME NEW a \in Appts, Uncomplete(a) PROVE CountInv'
  <2>0. /\ row[a].status = "completed" /\ overwritten' = overwritten
        /\ row'[a].status = "active" /\ \A x \in Appts \ {a} : row'[x] = row[x]
    BY <1>0, <1>3 DEF Uncomplete, Reopen, Rows
  <2>1. \A x \in overwritten' : row'[x].status = "noshow"
    BY <1>0, <2>0 DEF CountInv
  <2>2. ASSUME NEW c \in Customers
        PROVE  /\ OverwrittenOf(c)' = OverwrittenOf(c)
               /\ IF Owner[a] = c
                  THEN /\ CompletedOf(c)' = CompletedOf(c) \ {a} /\ a \in CompletedOf(c)
                       /\ customer'[c].visits = IF customer[c].visits > 0 THEN customer[c].visits - 1 ELSE customer[c].visits
                  ELSE CompletedOf(c)' = CompletedOf(c) /\ customer'[c].visits = customer[c].visits
    BY <1>0, <1>3, <2>0 DEF Uncomplete, CompletedOf, OverwrittenOf, Counters
  <2>3. ASSUME NEW c \in Customers
        PROVE  /\ IsFiniteSet(CompletedOf(c)') /\ IsFiniteSet(OverwrittenOf(c)')
               /\ customer'[c].visits = Cardinality(CompletedOf(c)') + Cardinality(OverwrittenOf(c)')
    <3>0. PICK S \in {CompletedOf(c)}, T \in {OverwrittenOf(c)}, Sn \in {CompletedOf(c)'}, Tn \in {OverwrittenOf(c)'} : TRUE
      OBVIOUS
    <3>1. IsFiniteSet(S) /\ IsFiniteSet(T) /\ customer[c].visits = Cardinality(S) + Cardinality(T)
      BY Zenon DEF CountInv
    <3>2. IsFiniteSet(Sn) /\ IsFiniteSet(Tn) /\ customer'[c].visits = Cardinality(Sn) + Cardinality(Tn)
      <4>1. CASE Owner[a] = c
        <5>1. Sn = S \ {a} /\ a \in S /\ Tn = T
          BY <2>2, <4>1
        <5>2. IsFiniteSet(Sn) /\ Cardinality(S) + Cardinality(T) > 0
              /\ Cardinality(Sn) + Cardinality(T) = Cardinality(S) + Cardinality(T) - 1
          BY <3>1, <5>1, OneLess, Zenon
        <5>3. IsFiniteSet(Tn) /\ Cardinality(Tn) = Cardinality(T)
          BY <3>1, <5>1, Zenon
        <5>4. customer'[c].visits = customer[c].visits - 1
          BY <2>2, <3>1, <4>1, <5>2
        <5> QED
          BY <3>1, <5>2, <5>3, <5>4, CountsType
      <4>2. CASE Owner[a] # c
        BY <2>2, <3>1, <4>2
      <4> QED
        BY <4>1, <4>2
    <3> QED
      BY <3>2, Zenon
  <2> QED
    BY <2>1, <2>3 DEF CountInv
<1>4. ASSUME NEW a \in Appts, WriteNoShow(a) PROVE CountInv'
  <2>0. /\ row'[a].status = "noshow" /\ customer' = customer
        /\ \A x \in Appts \ {a} : row'[x] = row[x]
        /\ overwritten' = IF row[a].status = "completed" THEN overwritten \cup {a} ELSE overwritten
    BY <1>0, <1>4 DEF WriteNoShow, Closed, Rows
  <2>1. \A x \in overwritten' : row'[x].status = "noshow"
    BY <1>0, <2>0 DEF CountInv
  <2>2. ASSUME NEW c \in Customers
        PROVE  IF Owner[a] = c /\ row[a].status = "completed"
               THEN /\ CompletedOf(c)' = CompletedOf(c) \ {a} /\ a \in CompletedOf(c)
                    /\ OverwrittenOf(c)' = OverwrittenOf(c) \cup {a} /\ a \notin OverwrittenOf(c)
               ELSE CompletedOf(c)' = CompletedOf(c) /\ OverwrittenOf(c)' = OverwrittenOf(c)
    BY <1>0, <2>0 DEF CountInv, CompletedOf, OverwrittenOf
  <2>3. ASSUME NEW c \in Customers
        PROVE  /\ IsFiniteSet(CompletedOf(c)') /\ IsFiniteSet(OverwrittenOf(c)')
               /\ customer'[c].visits = Cardinality(CompletedOf(c)') + Cardinality(OverwrittenOf(c)')
    <3>0. PICK S \in {CompletedOf(c)}, T \in {OverwrittenOf(c)}, Sn \in {CompletedOf(c)'}, Tn \in {OverwrittenOf(c)'} : TRUE
      OBVIOUS
    <3>1. IsFiniteSet(S) /\ IsFiniteSet(T) /\ customer[c].visits = Cardinality(S) + Cardinality(T)
      BY Zenon DEF CountInv
    <3>2. IsFiniteSet(Sn) /\ IsFiniteSet(Tn) /\ customer'[c].visits = Cardinality(Sn) + Cardinality(Tn)
      <4>1. CASE Owner[a] = c /\ row[a].status = "completed"
        <5>1. Sn = S \ {a} /\ a \in S /\ Tn = T \cup {a} /\ a \notin T
          BY <2>2, <4>1
        <5>2. IsFiniteSet(Sn) /\ IsFiniteSet(Tn)
              /\ Cardinality(Sn) + Cardinality(Tn) = Cardinality(S) + Cardinality(T)
          BY <3>1, <5>1, OneMoves
        <5> QED
          BY <2>0, <3>1, <5>2
      <4>2. CASE ~(Owner[a] = c /\ row[a].status = "completed")
        BY <2>0, <2>2, <3>1, <4>2
      <4> QED
        BY <4>1, <4>2
    <3> QED
      BY <3>2, Zenon
  <2> QED
    BY <2>1, <2>3 DEF CountInv
<1> QED
  BY <1>1, <1>2, <1>3, <1>4 DEF Counts

------------------------------------------------------------------------------
(* The theorems *)

DayInv ==
    /\ TypeOK /\ RowsInv
    /\ KeyTracksStatus /\ PlanInv
    /\ WishInv /\ AttendedOrExcused
    /\ CountInv

LEMMA InitDay == Init => DayInv
<1> SUFFICES ASSUME Init PROVE DayInv
  OBVIOUS
<1> USE DEF Init, AppointmentsInit
<1>1. /\ row \in [Appts -> Rows] /\ RequestsTypeOK /\ JobsTypeOK
      /\ customer \in [Customers -> Counters]
  BY AppointmentsAssumption
     DEF NoRow, Rows, Statuses, RequestsTypeOK, Labels, JobsTypeOK, Counters
<1>2. StaffTypeOK
  BY DEF StaffTypeOK, NoLeave, LeaveRows, LeaveStatuses, Modes, Plans
<1>3. RowsInv /\ PlanInv /\ WishInv
  BY DEF NoRow, RowsInv, PlanInv, WishInv, InFlight
<1>4. KeyTracksStatus /\ AttendedOrExcused
  BY DEF NoRow, KeyTracksStatus, AttendedOrExcused, Active
<1>5. CountInv
  <2>1. \A c \in Customers : CompletedOf(c) = {} /\ OverwrittenOf(c) = {}
    BY DEF CompletedOf, OverwrittenOf, NoRow
  <2>2. ASSUME NEW c \in Customers
        PROVE  /\ IsFiniteSet(CompletedOf(c)) /\ IsFiniteSet(OverwrittenOf(c))
               /\ Cardinality(CompletedOf(c)) = 0 /\ Cardinality(OverwrittenOf(c)) = 0
    BY <2>1, FS_EmptySet, Zenon
  <2> QED
    BY <2>2 DEF CountInv
<1> QED
  BY <1>1, <1>2, <1>3, <1>4, <1>5, TypeParts DEF DayInv

LEMMA DayInvariant == Spec => []DayInv
<1>1. DayInv /\ [Next]_staffVars => DayInv'
  BY StepTypes, StepRowsInv, StepKeys, StepPlanInv, StepWishInv, StepAttended, StepCounts DEF DayInv
<1> QED
  BY <1>1, InitDay, PTL DEF Spec

\* Every reachable state of the day is well typed.
THEOREM DayTypes == Spec => []TypeOK
<1>1. DayInv => TypeOK
  BY DEF DayInv
<1> QED
  BY <1>1, DayInvariant, PTL

\* For any number of requests, employees, slots and leaves, however creation, cancellation,
\* completion, undo, no-show, reschedule and leave are interleaved: an active appointment holds
\* the key of its slot alone, the visits of a customer are the appointments they completed, and
\* a request that was refused has left no appointment (storage/repo.go, barber_leave.go).
THEOREM RecordsStayTrue == Spec => []RecordsAgree
<1>1. DayInv => RecordsAgree
  <2> SUFFICES ASSUME DayInv PROVE RecordsAgree
    OBVIOUS
  <2>1. VisitsMatchCompletions
    BY DEF DayInv, CountInv, VisitsMatchCompletions, CompletedOf, OverwrittenOf
  <2>2. RefusedLeavesNothing
    BY DEF DayInv, RowsInv, RefusedLeavesNothing, Booked
  <2> QED
    BY <2>1, <2>2 DEF DayInv, RecordsAgree
<1> QED
  BY <1>1, DayInvariant, PTL

\* For any number of leaves that overlap: nobody is sent to an employee who is on leave or gone,
\* but for those the model names excused: the three gaps of CreateBarberLeave, a request whose
\* look at the leaves failed, the undo buttons, and the dismissal that counted too early.
THEOREM NobodyIsStoodUp == Spec => []AttendedOrExcused
<1>1. DayInv => AttendedOrExcused
  BY DEF DayInv
<1> QED
  BY <1>1, DayInvariant, PTL

------------------------------------------------------------------------------
(* The move of the history *)

PlanRecs == [rows : [Legacy -> Move!BookingStatus], blocked : SUBSET Legacy, quiet : BOOLEAN, moved : SUBSET Legacy]

\* The records of the planner and of the executions.
MoveShapes ==
    /\ seen \in [on : BOOLEAN, rows : [Legacy -> Move!LegacyStatus], quiet : BOOLEAN]
    /\ movePlan \in PlanRecs
    /\ moveRun \in [Executors -> [pc : Move!PCs, plan : PlanRecs, rows : SUBSET Legacy]]

\* A plan that can be executed and was made after the old handlers were stopped has what the old table has.
PlanTells(p) ==
    p.quiet /\ p.blocked = {} =>
        stopped /\ \A a \in Legacy : p.rows[a] = Move!BookingStatusOf(appt[a]) /\ (a \in Move!Present(appt) => p.rows[a] # "absent")

AllQuiet == \A y \in Executors : moveRun[y].pc # "idle" => moveRun[y].plan.quiet

PlansInv ==
    /\ seen.on /\ seen.quiet => stopped /\ seen.rows = appt
    /\ PlanTells(movePlan)
    /\ \A x \in Executors : moveRun[x].pc # "idle" => moveRun[x].plan.blocked = {} /\ PlanTells(moveRun[x].plan)

\* What an execution holds it will write, and the rest of its plan is there.
RunsInv ==
    /\ \A x \in Executors : moveRun[x].pc = "checked" =>
          /\ moveRun[x].rows \subseteq Move!Rows(moveRun[x].plan)
          /\ Move!Rows(moveRun[x].plan) \subseteq mapping \cup moveRun[x].rows
    /\ \A x \in Executors : moveRun[x].pc = "ok" => Move!Rows(moveRun[x].plan) \subseteq mapping
    /\ mapping # {} => \E x \in Executors : moveRun[x].pc # "idle"
    /\ AllQuiet => \A a \in mapping : origin[a] = Move!BookingStatusOf(appt[a])

MoveInv ==
    Move!TypeOK /\ MoveShapes /\ Move!NextKeepsClear /\ Move!MappingTellsBookings /\ PlansInv /\ RunsInv

LEMMA ClashBothWays == ASSUME Move!BookingMigrationAssumption, NEW b, NEW c, Move!Clash(b, c) PROVE Move!Clash(c, b)
BY DEF Move!Clash, Move!Overlaps

LEMMA NoPlanShape == Move!NoPlan \in PlanRecs
BY DEF Move!NoPlan, PlanRecs, Move!Nothing, Move!BookingStatus

LEMMA MoveInit == ASSUME Move!BookingMigrationAssumption, Move!Init PROVE MoveInv
<1> USE DEF Move!Init
<1>2. MoveShapes
  BY NoPlanShape DEF MoveShapes, Move!Nothing, Move!LegacyStatus, Move!PCs
<1>1. Move!TypeOK
  <2>1. plans \in 0..MaxPlans
    BY DEF Move!BookingMigrationAssumption
  <2>2. appt \in [Legacy -> Move!LegacyStatus] /\ booking \in [Move!Ids -> Move!BookingStatus] /\ origin \in [Legacy -> Move!BookingStatus]
    BY DEF Move!LegacyStatus, Move!BookingStatus
  <2>3. \A x \in Executors : moveRun[x].pc \in Move!PCs /\ moveRun[x].plan.rows \in [Legacy -> Move!BookingStatus]
    BY <1>2 DEF MoveShapes, PlanRecs
  <2>4. seen.rows \in [Legacy -> Move!LegacyStatus] /\ {seen.on, seen.quiet} \subseteq BOOLEAN
    BY <1>2 DEF MoveShapes
  <2>5. movePlan.rows \in [Legacy -> Move!BookingStatus] /\ movePlan.blocked \subseteq Legacy
    BY <1>2 DEF MoveShapes, PlanRecs
  <2> QED
    BY <2>1, <2>2, <2>3, <2>4, <2>5 DEF Move!TypeOK
<1>3. Move!NextKeepsClear /\ Move!MappingTellsBookings
  BY DEF Move!NextKeepsClear, Move!MappingTellsBookings, Move!BlocksAvailability, Move!Ids
<1>4. PlansInv
  BY DEF PlansInv, PlanTells, Move!NoPlan
<1>5. RunsInv
  BY DEF RunsInv
<1> QED
  BY <1>1, <1>2, <1>3, <1>4, <1>5 DEF MoveInv

\* The planner.
LEMMA CandidateType ==
    ASSUME NEW rows \in [Legacy -> Move!LegacyStatus], NEW target
    PROVE  /\ Move!Candidate(rows, target) \in [Legacy -> Move!BookingStatus]
           /\ \A a \in Legacy : Move!Candidate(rows, target)[a] \in {"absent", Move!BookingStatusOf(rows[a])}
BY DEF Move!Candidate, Move!BookingStatusOf, Move!Maps, Move!LegacyStatus, Move!BookingStatus

LEMMA PlanOfTells ==
    ASSUME NEW rows \in [Legacy -> Move!LegacyStatus], NEW target, NEW quiet \in BOOLEAN, mapping \subseteq Legacy
    PROVE  /\ Move!PlanOf(rows, target, quiet) \in PlanRecs
           /\ Move!PlanOf(rows, target, quiet).quiet = quiet
           /\ Move!PlanOf(rows, target, quiet).blocked = {} =>
                \A a \in Legacy : /\ Move!PlanOf(rows, target, quiet).rows[a] = Move!BookingStatusOf(rows[a])
                                  /\ a \in Move!Present(rows) => Move!PlanOf(rows, target, quiet).rows[a] # "absent"
<1> DEFINE c == Move!Candidate(rows, target)
           p == Move!PlanOf(rows, target, quiet)
<1>1. c \in [Legacy -> Move!BookingStatus] /\ \A a \in Legacy : c[a] \in {"absent", Move!BookingStatusOf(rows[a])}
  BY CandidateType
<1>2. p = [rows |-> c, blocked |-> {a \in Move!Present(rows) : c[a] = "absent" \/ Move!InConflict(a, c, target)},
           quiet |-> quiet, moved |-> mapping]
  BY DEF Move!PlanOf
<1>3. Move!Present(rows) \subseteq Legacy
  BY DEF Move!Present
<1> HIDE DEF c, p
<1>4. p \in PlanRecs
  BY <1>1, <1>2, <1>3 DEF PlanRecs
<1>5. ASSUME p.blocked = {}, NEW a \in Legacy
      PROVE  p.rows[a] = Move!BookingStatusOf(rows[a]) /\ (a \in Move!Present(rows) => p.rows[a] # "absent")
  <2>1. p.rows[a] = c[a]
    BY <1>2
  <2>2. CASE a \in Move!Present(rows)
    <3>1. c[a] # "absent"
      BY <1>2, <1>5, <2>2
    <3> QED
      BY <1>1, <2>1, <3>1
  <2>3. CASE a \notin Move!Present(rows)
    <3>1. Move!BookingStatusOf(rows[a]) = "absent"
      BY <2>3 DEF Move!Present, Move!BookingStatusOf, Move!Maps
    <3> QED
      BY <1>1, <2>1, <2>3, <3>1
  <2> QED
    BY <2>2, <2>3
<1> QED
  BY <1>2, <1>4, <1>5 DEF p

\* The old table stands once its handlers are stopped; no step but an execution's changes mapping or origin.
LEMMA LoadStep == ASSUME Move!BookingMigrationAssumption, MoveInv, Move!LoadAppointments PROVE MoveInv'
<1> USE DEF MoveInv, Move!LoadAppointments
<1>1. Move!TypeOK'
  <2>1. plans' \in 0..MaxPlans
    BY DEF Move!TypeOK, Move!BookingMigrationAssumption
  <2> QED
    BY <2>1 DEF Move!TypeOK, MoveShapes
<1>2. MoveShapes'
  BY DEF MoveShapes, Move!TypeOK, Move!LegacyStatus
<1>3. Move!NextKeepsClear' /\ Move!MappingTellsBookings'
  BY DEF Move!NextKeepsClear, Move!MappingTellsBookings, Move!FindConflicts
<1>4. PlansInv'
  BY DEF PlansInv, PlanTells, MoveShapes
<1>5. RunsInv'
  BY DEF RunsInv, AllQuiet, Move!Rows
<1> QED
  BY <1>1, <1>2, <1>3, <1>4, <1>5

LEMMA PlanStep == ASSUME MoveInv, Move!MakePlan PROVE MoveInv'
<1> USE DEF MoveInv, Move!MakePlan
<1> DEFINE p == Move!PlanOf(seen.rows, booking, seen.quiet)
<1>1. seen.rows \in [Legacy -> Move!LegacyStatus] /\ seen.quiet \in BOOLEAN /\ mapping \subseteq Legacy
  BY DEF MoveShapes, Move!TypeOK
<1>2. /\ p \in PlanRecs /\ p.quiet = seen.quiet
      /\ p.blocked = {} => \A a \in Legacy : /\ p.rows[a] = Move!BookingStatusOf(seen.rows[a])
                                             /\ a \in Move!Present(seen.rows) => p.rows[a] # "absent"
  BY <1>1, PlanOfTells
<1>3. movePlan' = p /\ seen' = [on |-> FALSE, rows |-> Move!Nothing, quiet |-> FALSE]
      /\ UNCHANGED <<appt, stopped, booking, mapping, origin, plans, moveRun>> /\ seen.on
  OBVIOUS
<1> HIDE DEF p, Move!MakePlan
<1>4. Move!Nothing \in [Legacy -> Move!LegacyStatus]
  BY DEF Move!Nothing, Move!LegacyStatus
<1>5. Move!TypeOK'
  BY <1>2, <1>3, <1>4 DEF Move!TypeOK, PlanRecs
<1>6. MoveShapes'
  BY <1>2, <1>3, <1>4 DEF MoveShapes
<1>7. Move!NextKeepsClear' /\ Move!MappingTellsBookings'
  BY <1>3 DEF Move!NextKeepsClear, Move!MappingTellsBookings, Move!FindConflicts
<1>8. PlanTells(movePlan)'
  BY <1>2, <1>3 DEF PlanTells, PlansInv
<1>9. PlansInv'
  BY <1>3, <1>8 DEF PlansInv, PlanTells
<1>10. RunsInv'
  BY <1>3 DEF RunsInv, AllQuiet, Move!Rows
<1> QED
  BY <1>5, <1>6, <1>7, <1>9, <1>10

LEMMA CheckStep == ASSUME MoveInv, NEW x \in Executors, Move!Check(x) PROVE MoveInv'
<1> USE DEF MoveInv
<1>0. /\ moveRun[x].pc = "idle" /\ movePlan.blocked = {} /\ UNCHANGED <<appt, stopped, booking, mapping, origin, seen, movePlan, plans>>
      /\ movePlan \in PlanRecs /\ moveRun \in [Executors -> [pc : Move!PCs, plan : PlanRecs, rows : SUBSET Legacy]]
  BY DEF Move!Check, Move!Executable, MoveShapes
<1>1. PICK way \in {"failed", "ok", "checked"} :
        /\ moveRun' = [moveRun EXCEPT ![x] = [pc |-> way, plan |-> movePlan, rows |-> Move!Pending(movePlan)]]
        /\ way = "ok" => Move!Pending(movePlan) = {}
  BY Zenon DEF Move!Check
<1>2. Move!Pending(movePlan) = Move!Rows(movePlan) \ mapping /\ Move!Pending(movePlan) \subseteq Legacy
  BY DEF Move!Pending, Move!Rows
<1>3. /\ moveRun'[x].pc = way /\ moveRun'[x].plan = movePlan /\ moveRun'[x].rows = Move!Pending(movePlan)
      /\ \A y \in Executors \ {x} : moveRun'[y] = moveRun[y]
  BY <1>0, <1>1
<1>4. moveRun' \in [Executors -> [pc : Move!PCs, plan : PlanRecs, rows : SUBSET Legacy]]
  BY <1>0, <1>1, <1>2 DEF Move!PCs
<1>5. Move!TypeOK'
  BY <1>0, <1>4 DEF Move!TypeOK, PlanRecs
<1>6. MoveShapes'
  BY <1>0, <1>4 DEF MoveShapes
<1>7. Move!NextKeepsClear' /\ Move!MappingTellsBookings'
  BY <1>0 DEF Move!NextKeepsClear, Move!MappingTellsBookings, Move!FindConflicts
<1>8. PlansInv'
  <2>2. ASSUME NEW y \in Executors, moveRun'[y].pc # "idle"
        PROVE  (moveRun[y].plan.blocked = {} /\ PlanTells(moveRun[y].plan))'
    <3>1. CASE y = x
      BY <1>0, <1>3, <3>1 DEF PlansInv, PlanTells
    <3>2. CASE y # x
      BY <1>0, <1>3, <2>2, <3>2 DEF PlansInv, PlanTells
    <3> QED
      BY <3>1, <3>2
  <2>3. PlanTells(movePlan)'
    BY <1>0 DEF PlansInv, PlanTells
  <2> QED
    BY <1>0, <2>2, <2>3 DEF PlansInv
<1>9. RunsInv'
  <2>2. \A y \in Executors : moveRun'[y].pc = "checked" =>
          /\ moveRun'[y].rows \subseteq Move!Rows(moveRun'[y].plan)
          /\ Move!Rows(moveRun'[y].plan) \subseteq mapping \cup moveRun'[y].rows
    BY <1>2, <1>3 DEF RunsInv
  <2>3. \A y \in Executors : moveRun'[y].pc = "ok" => Move!Rows(moveRun'[y].plan) \subseteq mapping
    BY <1>1, <1>2, <1>3 DEF RunsInv
  <2>4. AllQuiet' => AllQuiet
    BY <1>0, <1>3 DEF AllQuiet
  <2>5. AllQuiet' => \A a \in mapping : origin[a] = Move!BookingStatusOf(appt[a])
    BY <2>4 DEF RunsInv
  <2> QED
    BY <1>0, <1>3, <2>2, <2>3, <2>5 DEF RunsInv
<1> QED
  BY <1>5, <1>6, <1>7, <1>8, <1>9

\* An execution that ends in any way: nobody else's changes.
LEMMA RunEnds ==
    ASSUME MoveShapes, NEW x \in Executors, NEW way \in {"ok", "failed"}, moveRun' = [moveRun EXCEPT ![x].pc = way]
    PROVE  /\ moveRun' \in [Executors -> [pc : Move!PCs, plan : PlanRecs, rows : SUBSET Legacy]]
           /\ moveRun'[x].pc = way /\ moveRun'[x].plan = moveRun[x].plan /\ moveRun'[x].rows = moveRun[x].rows
           /\ \A y \in Executors \ {x} : moveRun'[y] = moveRun[y]
           /\ moveRun[x].rows \subseteq Legacy /\ moveRun[x].plan.rows \in [Legacy -> Move!BookingStatus]
BY DEF MoveShapes, Move!PCs, PlanRecs

\* Two bookings of the table after an execution: neither, one or both were inserted.
LEMMA WriteKeepsClear ==
    ASSUME Move!BookingMigrationAssumption, Move!TypeOK, Move!NextKeepsClear, NEW x \in Executors, Move!Recheck(x), moveRun[x].rows \subseteq Legacy,
           moveRun[x].plan.rows \in [Legacy -> Move!BookingStatus],
           booking' = [b \in Move!Ids |-> IF b \in moveRun[x].rows THEN moveRun[x].plan.rows[b] ELSE booking[b]]
    PROVE  Move!NextKeepsClear'
<1> DEFINE new == moveRun[x].rows
           rows == moveRun[x].plan.rows
<1> SUFFICES ASSUME NEW b \in Move!Ids, NEW c \in Move!Ids, booking'[b] = "confirmed", booking'[c] = "confirmed", Move!Clash(b, c)
             PROVE  FALSE
  BY DEF Move!NextKeepsClear, Move!FindConflicts, Move!BlocksAvailability
<1>1. booking \in [Move!Ids -> Move!BookingStatus] /\ Legacy \subseteq Move!Ids
  BY DEF Move!TypeOK, Move!Ids
<1>2. \A a \in new, d \in Move!Ids : rows[a] = "confirmed" /\ Move!Clash(a, d) => booking[d] # "confirmed"
  BY <1>1 DEF Move!Recheck, Move!FindConflicts, Move!BlocksAvailability
<1>3. \A a \in new, d \in new : rows[a] = "confirmed" /\ Move!Clash(a, d) => rows[d] # "confirmed"
  <2> SUFFICES ASSUME NEW a \in new, NEW d \in new, rows[a] = "confirmed", Move!Clash(a, d), rows[d] = "confirmed"
               PROVE  FALSE
    OBVIOUS
  <2> DEFINE f == [e \in new |-> rows[e]]
  <2>1. Move!FindConflicts(a, f) = {}
    BY DEF Move!Recheck, Move!BlocksAvailability
  <2>2. d \in DOMAIN f /\ f[d] = "confirmed"
    OBVIOUS
  <2> HIDE DEF f
  <2> QED
    BY <2>1, <2>2 DEF Move!FindConflicts, Move!BlocksAvailability
<1>4. \A d, e \in Move!Ids : booking[d] = "confirmed" /\ booking[e] = "confirmed" => ~Move!Clash(d, e)
  BY <1>1 DEF Move!NextKeepsClear, Move!FindConflicts, Move!BlocksAvailability
<1>5. Move!Clash(c, b)
  BY ClashBothWays
<1>6. /\ booking'[b] = IF b \in new THEN rows[b] ELSE booking[b]
      /\ booking'[c] = IF c \in new THEN rows[c] ELSE booking[c]
  OBVIOUS
<1> QED
  BY <1>2, <1>3, <1>4, <1>5, <1>6

LEMMA WriteStep == ASSUME Move!BookingMigrationAssumption, MoveInv, NEW x \in Executors, Move!Write(x) PROVE MoveInv'
<1> USE DEF MoveInv
<1>0. PICK way \in {"ok", "failed"} : moveRun' = [moveRun EXCEPT ![x].pc = way]
  BY Zenon DEF Move!Write
<1>1. /\ moveRun' \in [Executors -> [pc : Move!PCs, plan : PlanRecs, rows : SUBSET Legacy]]
      /\ moveRun'[x].pc = way /\ moveRun'[x].plan = moveRun[x].plan /\ moveRun'[x].rows = moveRun[x].rows
      /\ \A y \in Executors \ {x} : moveRun'[y] = moveRun[y]
      /\ moveRun[x].rows \subseteq Legacy /\ moveRun[x].plan.rows \in [Legacy -> Move!BookingStatus]
  BY <1>0, RunEnds
<1>2. /\ moveRun[x].pc = "checked" /\ Move!Recheck(x) /\ Move!Insertable(x)
      /\ booking' = [b \in Move!Ids |-> IF b \in moveRun[x].rows THEN moveRun[x].plan.rows[b] ELSE booking[b]]
      /\ origin' = [a \in Legacy |-> IF a \in moveRun[x].rows THEN moveRun[x].plan.rows[a] ELSE origin[a]]
      /\ mapping' = mapping \cup moveRun[x].rows
      /\ UNCHANGED <<appt, stopped, seen, movePlan, plans>>
  BY Zenon DEF Move!Write, Move!ToWrite, Move!MappingWritten
<1>3. moveRun[x].rows \subseteq Move!Rows(moveRun[x].plan) /\ Move!Rows(moveRun[x].plan) \subseteq mapping'
  BY <1>2 DEF RunsInv
<1>4. booking \in [Move!Ids -> Move!BookingStatus] /\ origin \in [Legacy -> Move!BookingStatus] /\ Legacy \subseteq Move!Ids
  BY DEF Move!TypeOK, Move!Ids
<1>5. booking' \in [Move!Ids -> Move!BookingStatus] /\ origin' \in [Legacy -> Move!BookingStatus]
  BY <1>1, <1>2, <1>4
<1>6. Move!TypeOK'
  BY <1>1, <1>2, <1>5 DEF Move!TypeOK, PlanRecs
<1>7. MoveShapes'
  BY <1>1, <1>2 DEF MoveShapes
<1>8. Move!NextKeepsClear'
  BY <1>1, <1>2, WriteKeepsClear
<1>9. Move!MappingTellsBookings'
  <2>1. \A a \in moveRun[x].rows : moveRun[x].plan.rows[a] # "absent"
    BY <1>3 DEF Move!Rows
  <2> QED
    BY <1>2, <1>4, <2>1 DEF Move!MappingTellsBookings
<1>10. PlansInv'
  <2>2. ASSUME NEW y \in Executors, moveRun'[y].pc # "idle"
        PROVE  (moveRun[y].plan.blocked = {} /\ PlanTells(moveRun[y].plan))'
    BY <1>1, <1>2, <2>2 DEF PlansInv, PlanTells
  <2>3. PlanTells(movePlan)'
    BY <1>2 DEF PlansInv, PlanTells
  <2> QED
    BY <1>2, <2>2, <2>3 DEF PlansInv
<1>11. RunsInv'
  <2>2. \A y \in Executors : moveRun'[y].pc = "checked" =>
          /\ moveRun'[y].rows \subseteq Move!Rows(moveRun'[y].plan)
          /\ Move!Rows(moveRun'[y].plan) \subseteq mapping' \cup moveRun'[y].rows
    BY <1>1, <1>2 DEF RunsInv
  <2>3. \A y \in Executors : moveRun'[y].pc = "ok" => Move!Rows(moveRun'[y].plan) \subseteq mapping'
    BY <1>1, <1>2, <1>3 DEF RunsInv
  <2>4. AllQuiet' => AllQuiet /\ moveRun[x].plan.quiet
    BY <1>1, <1>2 DEF AllQuiet
  <2>5. ASSUME AllQuiet', NEW a \in mapping' PROVE origin'[a] = Move!BookingStatusOf(appt[a])
    <3>1. CASE a \in moveRun[x].rows
      <4>1. PlanTells(moveRun[x].plan) /\ moveRun[x].plan.blocked = {}
        BY <1>2 DEF PlansInv
      <4>2. moveRun[x].plan.rows[a] = Move!BookingStatusOf(appt[a])
        BY <1>1, <2>4, <2>5, <3>1, <4>1 DEF PlanTells
      <4> QED
        BY <1>1, <1>2, <3>1, <4>2
    <3>2. CASE a \notin moveRun[x].rows
      <4>1. a \in mapping /\ a \in Legacy
        BY <1>2, <2>5, <3>2 DEF Move!TypeOK
      <4> QED
        BY <1>2, <2>4, <2>5, <3>2, <4>1 DEF RunsInv
    <3> QED
      BY <3>1, <3>2
  <2>6. moveRun'[x].pc # "idle"
    BY <1>1
  <2> QED
    BY <1>2, <2>2, <2>3, <2>5, <2>6 DEF RunsInv
<1> QED
  BY <1>6, <1>7, <1>8, <1>9, <1>10, <1>11

LEMMA RollBackStep == ASSUME MoveInv, NEW x \in Executors, Move!RollBack(x) PROVE MoveInv'
<1> USE DEF MoveInv
<1>1. /\ moveRun[x].pc = "checked" /\ moveRun' = [moveRun EXCEPT ![x].pc = "failed"]
      /\ UNCHANGED <<appt, stopped, booking, mapping, origin, seen, movePlan, plans>>
  BY DEF Move!RollBack
<1>2. /\ moveRun' \in [Executors -> [pc : Move!PCs, plan : PlanRecs, rows : SUBSET Legacy]]
      /\ moveRun'[x].pc = "failed" /\ moveRun'[x].plan = moveRun[x].plan /\ moveRun'[x].rows = moveRun[x].rows
      /\ \A y \in Executors \ {x} : moveRun'[y] = moveRun[y]
  BY <1>1, RunEnds
<1>3. Move!TypeOK' /\ MoveShapes'
  BY <1>1, <1>2 DEF Move!TypeOK, MoveShapes, PlanRecs
<1>4. Move!NextKeepsClear' /\ Move!MappingTellsBookings'
  BY <1>1 DEF Move!NextKeepsClear, Move!MappingTellsBookings, Move!FindConflicts
<1>5. PlansInv'
  <2>2. ASSUME NEW y \in Executors, moveRun'[y].pc # "idle"
        PROVE  (moveRun[y].plan.blocked = {} /\ PlanTells(moveRun[y].plan))'
    BY <1>1, <1>2, <2>2 DEF PlansInv, PlanTells
  <2>3. PlanTells(movePlan)'
    BY <1>1 DEF PlansInv, PlanTells
  <2> QED
    BY <1>1, <2>2, <2>3 DEF PlansInv
<1>6. RunsInv'
  <2>1. \A y \in Executors : moveRun'[y].pc \in {"checked", "ok"} => moveRun'[y] = moveRun[y]
    BY <1>2
  <2>2. AllQuiet' <=> AllQuiet
    BY <1>1, <1>2 DEF AllQuiet
  <2> QED
    BY <1>1, <1>2, <2>1, <2>2 DEF RunsInv
<1> QED
  BY <1>3, <1>4, <1>5, <1>6

\* The old handlers write while they are not stopped; no plan is quiet then.
LEMMA OldStep ==
    ASSUME MoveInv, ~stopped, UNCHANGED <<booking, mapping, origin, seen, movePlan, plans, moveRun>>,
           appt' \in [Legacy -> Move!LegacyStatus], stopped' \in BOOLEAN, stopped' => appt' = appt
    PROVE  MoveInv'
<1> USE DEF MoveInv
<1>1. Move!TypeOK' /\ MoveShapes'
  BY DEF Move!TypeOK, MoveShapes
<1>2. Move!NextKeepsClear' /\ Move!MappingTellsBookings'
  BY DEF Move!NextKeepsClear, Move!MappingTellsBookings, Move!FindConflicts
<1>3. \A p : PlanTells(p) => ~(p.quiet /\ p.blocked = {})
  BY DEF PlanTells
<1>4. PlansInv'
  BY <1>3 DEF PlansInv, PlanTells
<1>5. RunsInv'
  <2>1. AllQuiet => mapping = {}
    BY <1>3 DEF AllQuiet, PlansInv, RunsInv
  <2>2. AllQuiet' <=> AllQuiet
    BY DEF AllQuiet
  <2> QED
    BY <2>1, <2>2 DEF RunsInv, Move!Rows
<1> QED
  BY <1>1, <1>2, <1>4, <1>5

\* The kernel's own work: a booking made of one of its own, or one that leaves the chair.
LEMMA KernelStep ==
    ASSUME Move!BookingMigrationAssumption, MoveInv,
           (\E n \in News : Move!Book(n)) \/ (\E b \in Move!Ids, status \in {"cancelled", "completed"} : Move!Change(b, status))
    PROVE  MoveInv'
<1> USE DEF MoveInv
<1>1. /\ UNCHANGED <<appt, stopped, mapping, origin, seen, movePlan, plans, moveRun>>
      /\ booking \in [Move!Ids -> Move!BookingStatus] /\ News \subseteq Move!Ids /\ Legacy \subseteq Move!Ids
  BY DEF Move!Book, Move!Change, Move!TypeOK, Move!Ids
<1>2. MoveShapes' /\ PlansInv' /\ RunsInv'
  BY <1>1 DEF MoveShapes, PlansInv, PlanTells, RunsInv, AllQuiet
<1>3. ASSUME NEW n \in News, Move!Book(n) PROVE Move!TypeOK' /\ Move!NextKeepsClear' /\ Move!MappingTellsBookings'
  <2>1. booking' = [booking EXCEPT ![n] = "confirmed"] /\ Move!FindConflicts(n, booking) = {} /\ n \notin Legacy
    BY <1>3 DEF Move!Book, Move!BookingMigrationAssumption
  <2>2. booking' \in [Move!Ids -> Move!BookingStatus]
    BY <1>1, <2>1 DEF Move!BookingStatus
  <2>3. \A c \in Move!Ids : Move!Clash(n, c) \/ Move!Clash(c, n) => booking[c] # "confirmed"
    BY <1>1, <2>1, ClashBothWays DEF Move!FindConflicts, Move!BlocksAvailability
  <2>4. Move!NextKeepsClear'
    <3> SUFFICES ASSUME NEW b \in Move!Ids, NEW c \in Move!Ids, booking'[b] = "confirmed", booking'[c] = "confirmed", Move!Clash(b, c)
                 PROVE  FALSE
      BY <2>2 DEF Move!NextKeepsClear, Move!FindConflicts, Move!BlocksAvailability
    <3>1. b # c
      BY DEF Move!Clash
    <3>2. b # n /\ c # n => booking[b] = "confirmed" /\ booking[c] = "confirmed"
      BY <1>1, <2>1
    <3> QED
      BY <1>1, <2>1, <2>3, <3>1, <3>2 DEF Move!NextKeepsClear, Move!FindConflicts, Move!BlocksAvailability
  <2>5. Move!MappingTellsBookings'
    BY <1>1, <2>1 DEF Move!MappingTellsBookings
  <2> QED
    BY <1>1, <2>2, <2>4, <2>5 DEF Move!TypeOK
<1>4. ASSUME NEW b \in Move!Ids, NEW status \in {"cancelled", "completed"}, Move!Change(b, status)
      PROVE  Move!TypeOK' /\ Move!NextKeepsClear' /\ Move!MappingTellsBookings'
  <2>1. booking' = [booking EXCEPT ![b] = status] /\ booking[b] = "confirmed"
    BY <1>4 DEF Move!Change
  <2>2. booking' \in [Move!Ids -> Move!BookingStatus]
    BY <1>1, <2>1 DEF Move!BookingStatus
  <2>3. \A c \in Move!Ids : booking'[c] = "confirmed" => booking[c] = "confirmed"
    BY <1>1, <2>1
  <2>4. Move!NextKeepsClear'
    BY <1>1, <2>2, <2>3 DEF Move!NextKeepsClear, Move!FindConflicts, Move!BlocksAvailability
  <2>5. Move!MappingTellsBookings'
    BY <1>1, <2>1 DEF Move!MappingTellsBookings
  <2> QED
    BY <1>1, <2>2, <2>4, <2>5 DEF Move!TypeOK
<1> QED
  BY <1>2, <1>3, <1>4

LEMMA MoveKeeps == ASSUME Move!BookingMigrationAssumption, MoveInv, [Move!Next]_Move!vars PROVE MoveInv'
<1>1. CASE Move!LoadAppointments
  BY <1>1, LoadStep
<1>2. CASE Move!MakePlan
  BY <1>2, PlanStep
<1>3. ASSUME NEW x \in Executors, Move!Check(x) \/ Move!Write(x) \/ Move!RollBack(x) PROVE MoveInv'
  BY <1>3, CheckStep, WriteStep, RollBackStep
<1>4. ASSUME NEW a \in Legacy, Move!OldBook(a) \/ \E status \in {"cancelled", "completed", "noshow"} : Move!OldChange(a, status)
      PROVE  MoveInv'
  <2>1. appt \in [Legacy -> Move!LegacyStatus] /\ stopped \in BOOLEAN
    BY DEF MoveInv, Move!TypeOK
  <2>2. PICK status \in Move!LegacyStatus :
          /\ ~stopped /\ UNCHANGED <<stopped, booking, mapping, origin, seen, movePlan, plans, moveRun>>
          /\ appt' = [appt EXCEPT ![a] = status]
    BY <1>4 DEF Move!OldBook, Move!OldChange, Move!LegacyStatus
  <2>3. appt' \in [Legacy -> Move!LegacyStatus]
    BY <2>1, <2>2
  <2> QED
    BY <2>1, <2>2, <2>3, OldStep
<1>5. CASE Move!StopOldPath
  <2>1. appt \in [Legacy -> Move!LegacyStatus]
    BY DEF MoveInv, Move!TypeOK
  <2> QED
    BY <1>5, <2>1, OldStep DEF Move!StopOldPath
<1>6. CASE (\E n \in News : Move!Book(n)) \/ (\E b \in Move!Ids, status \in {"cancelled", "completed"} : Move!Change(b, status))
  BY <1>6, KernelStep
<1>7. CASE UNCHANGED Move!vars
  BY <1>7 DEF Move!vars, MoveInv, Move!TypeOK, MoveShapes, Move!NextKeepsClear, Move!MappingTellsBookings, Move!FindConflicts, PlansInv, PlanTells,
              RunsInv, AllQuiet, Move!Rows
<1> QED
  BY <1>1, <1>2, <1>3, <1>4, <1>5, <1>6, <1>7 DEF Move!Next

LEMMA MoveTells == ASSUME MoveInv PROVE Move!QuietIsFaithful
<1> SUFFICES ASSUME NEW x \in Executors, moveRun[x].pc = "ok", AllQuiet, NEW a \in Move!Present(appt)
             PROVE  a \in mapping /\ origin[a] = Move!BookingStatusOf(appt[a])
  BY DEF Move!QuietIsFaithful, AllQuiet
<1>1. a \in Legacy /\ Move!Rows(moveRun[x].plan) \subseteq mapping /\ moveRun[x].plan.quiet /\ moveRun[x].plan.blocked = {}
      /\ PlanTells(moveRun[x].plan)
  BY DEF MoveInv, RunsInv, PlansInv, AllQuiet, Move!Present
<1>2. a \in Move!Rows(moveRun[x].plan)
  BY <1>1 DEF PlanTells, Move!Rows
<1> QED
  BY <1>1, <1>2 DEF MoveInv, RunsInv

\* For any old table, any number of executions of a plan and any customers meanwhile: nobody is booked
\* for two appointments at a time, what the audit mapping says was moved is what lies among the bookings,
\* and plans made after the old handlers were stopped move the old table as it was left
\* (cmd/migrate-booking, storage/booking_migration.go).
THEOREM HistoryIsMoved == PartSpec => []MovedFaithfully
<1> USE MoveAssumption
<1> DEFINE I == part = "move" => MoveInv
<1>1. PartInit => I
  BY MoveInit DEF PartInit
<1>2. I /\ [PartNext]_allVars => I'
  <2> SUFFICES ASSUME I, [PartNext]_allVars, part' = "move" PROVE MoveInv'
    OBVIOUS
  <2>1. part = "move" /\ [Move!Next]_Move!vars
    BY DEF PartNext, allVars, MoveVars, Move!vars
  <2> QED
    BY <2>1, MoveKeeps
<1>3. I => MovedFaithfully
  BY MoveTells DEF MovedFaithfully, MoveInv
<1> QED
  BY <1>1, <1>2, <1>3, PTL DEF PartSpec

------------------------------------------------------------------------------
(* What the program says of its own accord: the inductive invariant *)

RunRecs ==
    [step : {"off", "next", "send", "log"}, todo : SUBSET Out!Items, item : Out!Items \cup {"none"}, live : BOOLEAN,
     got : {"none", "ok", "lost", "refused", "warn", "over"}]
WorkRecs ==
    [step : {"rest", "next", "send", "mark"}, todo : SUBSET Notes, item : Notes \cup {"none"},
     got : {"none", "sent", "failed", "skipped"}]

\* What a job or a sender has in hand is an item of its own that it does not meet again.
ShapesInv ==
    /\ run \in [Out!Jobs -> RunRecs] /\ work \in [Out!Senders -> WorkRecs] /\ ends \in [Subs -> Int]
    /\ \A j \in Out!Jobs : run[j].todo \subseteq Out!Of[j]
    /\ \A j \in Out!Jobs : run[j].step \in {"send", "log"} => run[j].item \in Out!Of[j] \ run[j].todo
    /\ \A w \in Out!Senders : work[w].step \in {"send", "mark"} => work[w].item \in Notes
    /\ \A w \in Out!Senders : work[w].step = "mark" => work[w].got # "none"
    /\ ~up => run["subscription"] = Out!Off

Holds(j, i) == run[j].item = i /\ run[j].step \in {"send", "log"}

\* A reminder goes to who was not reminded, and a record of it follows.
RemindInv ==
    \A a \in Appts \ unsure :
        /\ told[a] > 0 => a \in log \/ (run["remind"].step = "log" /\ run["remind"].item = a /\ run["remind"].got \in {"ok", "lost"})
        /\ a \in run["remind"].todo \/ (run["remind"].step = "send" /\ run["remind"].item = a) => told[a] = 0
        /\ told[a] < 2

\* An offer that was made is recorded, and only such a one.
IdleInv ==
    /\ run["idle"].step = "log" => run["idle"].got = "ok"
    /\ \A g \in Guests \ unsure :
        /\ told[g] > 0 => g \in log \/ (run["idle"].step = "log" /\ run["idle"].item = g)
        /\ run["idle"].step = "send" /\ run["idle"].item = g => told[g] = 0
        /\ told[g] < 2

\* A node is recorded before it is said.
LifecycleInv ==
    /\ run["lifecycle"].step = "log" => run["lifecycle"].got = "none"
    /\ \A d \in {"D3", "D15"} \ unsure :
        /\ told[d] > 0 => d \in log
        /\ d \in run["lifecycle"].todo \/ Holds("lifecycle", d) => told[d] = 0
        /\ run["lifecycle"].step = "send" /\ run["lifecycle"].item = d => d \in log
        /\ told[d] < 2

Warning(s) == Holds("subscription", s) /\ run["subscription"].got = "warn"

\* The scan that comes next is in time to warn of the end.
InTime(s) ==
    ends[s] >= IF outClock % 2 = 1 THEN outClock
               ELSE IF "subscription" \notin fired \/ s \in run["subscription"].todo THEN outClock - 1
               ELSE outClock + 1

SubsInv ==
    /\ \A j \in Out!Jobs \ {"subscription"} : run[j].got \notin {"warn", "over"}
    /\ run["subscription"].got \in {"none", "warn", "over"}
    /\ \A s \in Subs \ (warned \cup unsure) :
          /\ s \in there \cup run["subscription"].todo /\ ~Warning(s) => InTime(s)
          /\ Holds("subscription", s) => run["subscription"].got # "over"
    /\ Out!WarnedBeforeOver

NoteWith(w, n) == work[w].item = n /\ work[w].step \in {"send", "mark"}

\* Nobody has had a notice that is still to be opened, and nobody else works on it; one sender works on
\* a notice at a time, and what it does not call sent did not arrive.
NotesInv ==
    /\ \A n \in Notes : n \in there \cup work["leave"].todo =>
          /\ outRow[n] = "none" /\ told[n] = 0
          /\ \A w \in Out!Senders : ~NoteWith(w, n)
    /\ there \cap work["leave"].todo = {}
    /\ \A w \in Admins : \A n \in work[w].todo : outRow[n] # "none"
    /\ \A n \in Notes \ unsure :
          /\ told[n] < 2
          /\ told[n] > 0 => outRow[n] = "sent" \/ \E w \in Out!Senders : work[w].step = "mark" /\ NoteWith(w, n) /\ work[w].got = "sent"
          /\ \A w \in Out!Senders : NoteWith(w, n) =>
                /\ \A v \in Out!Senders \ {w} : ~NoteWith(v, n)
                /\ work[w].step = "send" \/ work[w].got # "sent" => told[n] = 0

\* What was acknowledged has arrived.
SaidInv ==
    /\ Out!RecordsAreTrue
    /\ \A j \in {"remind", "idle"} : run[j].step = "log" /\ run[j].got = "ok" => told[run[j].item] > 0
    /\ \A w \in Out!Senders : work[w].step = "mark" /\ work[w].got = "sent" => told[work[w].item] > 0

OutInv ==
    Out!TypeOK /\ ShapesInv /\ RemindInv /\ IdleInv /\ LifecycleInv /\ SubsInv /\ NotesInv /\ SaidInv

------------------------------------------------------------------------------
(* What a step of Outreach does *)

LEMMA JobsAre ==
    /\ Out!Jobs = {"remind", "lifecycle", "idle", "subscription"}
    /\ Out!Of["remind"] = Appts /\ Out!Of["lifecycle"] = Out!Nodes /\ Out!Of["idle"] = Guests /\ Out!Of["subscription"] = Subs
    /\ \A j \in Out!Jobs : Out!Of[j] \subseteq Out!Items
BY DEF Out!Jobs, Out!Of, Out!Items, Out!Timed

\* The items of a table are of no other.
LEMMA ItemsApart ==
    ASSUME Out!OutreachAssumption
    PROVE  /\ \A i \in Appts : i \notin Guests \cup Out!Nodes \cup Subs \cup Notes
           /\ \A i \in Guests : i \notin Appts \cup Out!Nodes \cup Subs \cup Notes
           /\ \A i \in Out!Nodes : i \notin Appts \cup Guests \cup Subs \cup Notes
           /\ \A i \in Subs : i \notin Appts \cup Guests \cup Out!Nodes \cup Notes
BY DEF Out!OutreachAssumption, Out!Timed

JobStep(j) == Out!Fire(j) \/ Out!Reach(j) \/ Out!Send(j) \/ Out!Record(j) \/ Out!Deadline(j) \/ Out!Finish(j)

LEMMA ListedOwn == ASSUME NEW j \in Out!Jobs PROVE Out!Listed[j] \subseteq Out!Of[j]
BY JobsAre DEF Out!Listed, Out!FindAppointmentsToRemind, Out!FindShopsForLifecycle, Out!Dormant, Out!Ending

LEMMA FireGoes ==
    ASSUME ShapesInv, NEW j \in Out!Jobs, Out!Fire(j)
    PROVE  /\ run[j].step = "off" /\ j \notin fired /\ fired' = fired \cup {j} /\ up
           /\ run'[j].step = "next" /\ run'[j].got = "none"
           /\ run'[j].todo \subseteq Out!Listed[j] /\ (j # "idle" => run'[j].todo = Out!Listed[j])
           /\ \A k \in Out!Jobs \ {j} : run'[k] = run[k]
           /\ run' \in [Out!Jobs -> RunRecs]
           /\ UNCHANGED <<outClock, up, there, log, outRow, work, ends, warned, over, said, told, unsure>>
<1>1. PICK T \in {Out!Listed[j], {}} :
        /\ run' = [run EXCEPT ![j] = [step |-> "next", todo |-> T, item |-> "none", live |-> TRUE, got |-> "none"]]
        /\ j # "idle" => T = Out!Listed[j]
  BY DEF Out!Fire, Out!SomeSlot, Out!Off
<1>2. T \subseteq Out!Listed[j] /\ T \in SUBSET Out!Items
  BY JobsAre, ListedOwn
<1>3. run' \in [Out!Jobs -> RunRecs]
  BY <1>1, <1>2 DEF ShapesInv, RunRecs
<1> QED
  BY <1>1, <1>2, <1>3 DEF Out!Fire, Out!notices, Out!subs, ShapesInv

LEMMA ReachGoes ==
    ASSUME ShapesInv, NEW j \in Out!Jobs, Out!Reach(j)
    PROVE  /\ run[j].step = "next"
           /\ \E i \in run[j].todo :
                /\ run'[j].todo = run[j].todo \ {i} /\ run'[j].item = i
                /\ j = "remind" => run'[j].step = "send" /\ run'[j].got = "none"
                /\ j = "lifecycle" => run'[j].step = "log" /\ run'[j].got = "none"
                /\ j = "idle" => run'[j].step = (IF Out!Recorded(i) THEN "next" ELSE "send") /\ run'[j].got = "none"
                /\ j = "subscription" => run'[j].step = (IF Out!Handle(i) = "none" THEN "next" ELSE "log") /\ run'[j].got = Out!Handle(i)
           /\ \A k \in Out!Jobs \ {j} : run'[k] = run[k]
           /\ run' \in [Out!Jobs -> RunRecs]
           /\ UNCHANGED <<outClock, up, there, log, fired, outRow, work, ends, warned, over, said, told, unsure>>
<1>1. PICK i \in run[j].todo, step \in {"next", "send", "log"}, got \in {"none", "warn", "over"} :
        /\ run' = [run EXCEPT ![j] = [run[j] EXCEPT !.step = step, !.todo = @ \ {i}, !.item = i, !.got = got]]
        /\ j = "remind" => step = "send" /\ got = "none"
        /\ j = "lifecycle" => step = "log" /\ got = "none"
        /\ j = "idle" => step = (IF Out!Recorded(i) THEN "next" ELSE "send") /\ got = "none"
        /\ j = "subscription" => step = (IF Out!Handle(i) = "none" THEN "next" ELSE "log") /\ got = Out!Handle(i)
  BY JobsAre DEF Out!Reach, Out!Handle
<1>2. run[j] \in RunRecs /\ i \in Out!Items
  BY DEF ShapesInv, RunRecs
<1>3. [run[j] EXCEPT !.step = step, !.todo = @ \ {i}, !.item = i, !.got = got] \in RunRecs
  BY <1>2 DEF RunRecs
<1>4. run' \in [Out!Jobs -> RunRecs] /\ run'[j] = [run[j] EXCEPT !.step = step, !.todo = @ \ {i}, !.item = i, !.got = got]
      /\ \A k \in Out!Jobs \ {j} : run'[k] = run[k]
  BY <1>1, <1>3 DEF ShapesInv
<1>5. run'[j].step = step /\ run'[j].todo = run[j].todo \ {i} /\ run'[j].item = i /\ run'[j].got = got
  BY <1>2, <1>4 DEF RunRecs
<1> QED
  BY <1>1, <1>4, <1>5 DEF Out!Reach, Out!notices, Out!subs

LEMMA SendGoes ==
    ASSUME Out!OutreachAssumption, Out!TypeOK, ShapesInv, NEW j \in Out!Jobs, Out!Send(j)
    PROVE  /\ run[j].step = "send" /\ run[j].item \in Out!Of[j] \ run[j].todo
           /\ run'[j].todo = run[j].todo /\ run'[j].item = run[j].item
           /\ \A i \in Out!Items \ {run[j].item} : told'[i] = told[i]
           /\ told' \in [Out!Items -> 0..2] /\ \A i \in Out!Items : told[i] <= told'[i] /\ told'[i] <= told[i] + 1
           /\ \E o \in Out!Outcomes :
                /\ run'[j].got = IF j = "subscription" THEN run[j].got ELSE o
                /\ o = "refused" => told'[run[j].item] = told[run[j].item]
                /\ o # "refused" => told'[run[j].item] > 0
                /\ run'[j].step = IF j = "remind" \/ (j = "idle" /\ o = "ok") THEN "log" ELSE "next"
                /\ unsure' = IF j = "idle" /\ o = "lost" THEN unsure \cup {run[j].item} ELSE unsure
           /\ warned' = IF run[j].got = "warn" THEN warned \cup {run[j].item} ELSE warned
           /\ over' = IF run[j].got = "over" THEN over \cup {run[j].item} ELSE over
           /\ \A k \in Out!Jobs \ {j} : run'[k] = run[k]
           /\ run' \in [Out!Jobs -> RunRecs]
           /\ UNCHANGED <<outClock, up, there, log, fired, outRow, work, ends, said>>
<1>1. PICK o \in Out!Outcomes, late \in BOOLEAN :
        /\ told' = [told EXCEPT ![run[j].item] = IF o # "refused" /\ @ < 2 THEN @ + 1 ELSE @]
        /\ run' = [run EXCEPT ![j].step = IF j = "remind" \/ (j = "idle" /\ o = "ok") THEN "log" ELSE "next",
                               ![j].got = IF run[j].item \in Subs THEN @ ELSE o, ![j].live = @ /\ ~late]
        /\ unsure' = IF j = "idle" /\ o = "lost" THEN unsure \cup {run[j].item} ELSE unsure
        /\ warned' = IF run[j].got = "warn" THEN warned \cup {run[j].item} ELSE warned
        /\ over' = IF run[j].got = "over" THEN over \cup {run[j].item} ELSE over
  BY Zenon DEF Out!Send, Out!Deliver
<1>2. run[j] \in RunRecs /\ run[j].step = "send" /\ run[j].item \in Out!Of[j] \ run[j].todo
  BY DEF Out!Send, ShapesInv
<1>3. run[j].item \in Out!Items /\ (run[j].item \in Subs <=> j = "subscription")
  BY <1>2, JobsAre, ItemsApart
<1> DEFINE step == IF j = "remind" \/ (j = "idle" /\ o = "ok") THEN "log" ELSE "next"
           got == IF j = "subscription" THEN run[j].got ELSE o
           live == run[j].live /\ ~late
           r == [run[j] EXCEPT !.step = step, !.got = got, !.live = live]
<1>4. run' = [run EXCEPT ![j] = r]
  BY <1>1, <1>2, <1>3 DEF ShapesInv
<1>5. r \in RunRecs /\ r.todo = run[j].todo /\ r.item = run[j].item /\ r.got = got /\ r.step = step
  <2>1. step \in {"next", "log"} /\ got \in {"none", "ok", "lost", "refused", "warn", "over"} /\ live \in BOOLEAN
    BY <1>2 DEF RunRecs, Out!Outcomes
  <2> HIDE DEF step, got, live
  <2> QED
    BY <1>2, <2>1 DEF RunRecs
<1> HIDE DEF r
<1>6. run' \in [Out!Jobs -> RunRecs] /\ run'[j] = r /\ \A k \in Out!Jobs \ {j} : run'[k] = run[k]
  BY <1>4, <1>5 DEF ShapesInv
<1>7. told \in [Out!Items -> 0..2]
  BY DEF Out!TypeOK
<1>8. /\ \A i \in Out!Items \ {run[j].item} : told'[i] = told[i]
      /\ told' \in [Out!Items -> 0..2] /\ \A i \in Out!Items : told[i] <= told'[i] /\ told'[i] <= told[i] + 1
      /\ o = "refused" => told'[run[j].item] = told[run[j].item]
      /\ o # "refused" => told'[run[j].item] > 0
  BY <1>1, <1>3, <1>7
<1>9. /\ run'[j].todo = run[j].todo /\ run'[j].item = run[j].item
      /\ run'[j].got = IF j = "subscription" THEN run[j].got ELSE o
      /\ run'[j].step = IF j = "remind" \/ (j = "idle" /\ o = "ok") THEN "log" ELSE "next"
  BY <1>5, <1>6
<1> QED
  BY <1>1, <1>2, <1>6, <1>8, <1>9 DEF Out!Send, Out!notices

LEMMA RecordGoes ==
    ASSUME ShapesInv, NEW j \in Out!Jobs, Out!Record(j)
    PROVE  /\ run[j].step = "log" /\ run[j].item \in Out!Of[j] \ run[j].todo
           /\ run'[j].todo = run[j].todo /\ run'[j].item = run[j].item /\ run'[j].got = run[j].got
           /\ run'[j].step = IF j \in {"lifecycle", "subscription"} THEN "send" ELSE "next"
           /\ \E written \in BOOLEAN :
                /\ log' = IF written THEN log \cup {IF run[j].got = "over" THEN run[j].item ELSE Out!Key(run[j].item)} ELSE log
                /\ said' = IF written /\ j \in {"remind", "idle"} /\ run[j].got = "ok" THEN said \cup {run[j].item} ELSE said
                /\ unsure' = IF ~written /\ run[j].got # "refused" THEN unsure \cup {run[j].item} ELSE unsure
           /\ \A k \in Out!Jobs \ {j} : run'[k] = run[k]
           /\ run' \in [Out!Jobs -> RunRecs]
           /\ UNCHANGED <<outClock, up, there, fired, outRow, work, ends, warned, over, told>>
<1>1. /\ run' = [run EXCEPT ![j].step = IF j \in {"lifecycle", "subscription"} THEN "send" ELSE "next"]
      /\ run[j] \in RunRecs /\ run[j].step = "log" /\ run[j].item \in Out!Of[j] \ run[j].todo
  BY DEF Out!Record, ShapesInv
<1>2. run' \in [Out!Jobs -> RunRecs] /\ \A k \in Out!Jobs \ {j} : run'[k] = run[k]
  BY <1>1 DEF ShapesInv, RunRecs
<1>3. /\ run'[j].todo = run[j].todo /\ run'[j].item = run[j].item /\ run'[j].got = run[j].got
      /\ run'[j].step = IF j \in {"lifecycle", "subscription"} THEN "send" ELSE "next"
  BY <1>1 DEF ShapesInv, RunRecs
<1> QED
  BY <1>1, <1>2, <1>3 DEF Out!Record, Out!Inserts, Out!Claims, Out!notices, Out!subs

LEMMA EndsGo ==
    ASSUME ShapesInv, NEW j \in Out!Jobs, Out!Deadline(j) \/ Out!Finish(j)
    PROVE  /\ \/ /\ run'[j].step = run[j].step /\ run'[j].todo = run[j].todo
                 /\ run'[j].item = run[j].item /\ run'[j].got = run[j].got /\ run[j] # Out!Off
              \/ run'[j] = Out!Off
           /\ \A k \in Out!Jobs \ {j} : run'[k] = run[k]
           /\ run' \in [Out!Jobs -> RunRecs]
           /\ UNCHANGED <<outClock, up, there, log, fired, outRow, work, ends, warned, over, said, told, unsure>>
<1>1. run[j] \in RunRecs /\ Out!Off \in RunRecs
  BY DEF ShapesInv, RunRecs, Out!Off
<1>2. CASE Out!Deadline(j)
  <2>1. run' = [run EXCEPT ![j].live = FALSE] /\ run[j].step # "off"
    BY <1>2 DEF Out!Deadline
  <2>2. run' \in [Out!Jobs -> RunRecs] /\ \A k \in Out!Jobs \ {j} : run'[k] = run[k]
    BY <1>1, <2>1 DEF ShapesInv, RunRecs
  <2>3. /\ run'[j].step = run[j].step /\ run'[j].todo = run[j].todo
        /\ run'[j].item = run[j].item /\ run'[j].got = run[j].got /\ run[j] # Out!Off
    BY <1>1, <2>1 DEF ShapesInv, RunRecs, Out!Off
  <2> QED
    BY <1>2, <2>2, <2>3 DEF Out!Deadline, Out!notices, Out!subs
<1>3. CASE Out!Finish(j)
  BY <1>1, <1>3 DEF ShapesInv, Out!Finish, Out!notices, Out!subs
<1> QED
  BY <1>2, <1>3

\* A step of a job leaves what it does not work on as it is, and loses nothing it has written.
LEMMA JobLeaves ==
    ASSUME Out!OutreachAssumption, Out!TypeOK, ShapesInv, NEW j \in Out!Jobs, JobStep(j)
    PROVE  /\ run' \in [Out!Jobs -> RunRecs] /\ \A k \in Out!Jobs \ {j} : run'[k] = run[k]
           /\ \A i \in Out!Items \ Out!Of[j] : told'[i] = told[i]
           /\ told' \in [Out!Items -> 0..2] /\ \A i \in Out!Items : told[i] <= told'[i]
           /\ log \subseteq log' /\ said \subseteq said' /\ unsure \subseteq unsure'
           /\ log' \subseteq log \cup Out!Items \cup {"D7"} /\ said' \subseteq said \cup Out!Items /\ unsure' \subseteq unsure \cup Out!Items
           /\ fired' \subseteq Out!Jobs
           /\ UNCHANGED <<outClock, up, there, ends, outRow, work>>
<1> USE DEF Out!TypeOK
<1>1. CASE Out!Fire(j) \/ Out!Reach(j) \/ Out!Deadline(j) \/ Out!Finish(j)
  BY <1>1, FireGoes, ReachGoes, EndsGo
<1>2. CASE Out!Send(j)
  <2>1. run[j].item \in Out!Of[j] /\ Out!Of[j] \subseteq Out!Items
    BY <1>2, SendGoes, JobsAre
  <2>2. unsure \subseteq unsure' /\ unsure' \subseteq unsure \cup Out!Items
    BY <1>2, <2>1, SendGoes
  <2>3. \A i \in Out!Items \ Out!Of[j] : told'[i] = told[i]
    BY <1>2, <2>1, SendGoes
  <2>4. /\ run' \in [Out!Jobs -> RunRecs] /\ \A k \in Out!Jobs \ {j} : run'[k] = run[k]
        /\ told' \in [Out!Items -> 0..2] /\ \A i \in Out!Items : told[i] <= told'[i]
        /\ UNCHANGED <<outClock, up, there, log, fired, outRow, work, ends, said>>
    BY <1>2, SendGoes
  <2> QED
    BY <2>2, <2>3, <2>4
<1>3. CASE Out!Record(j)
  <2>1. run[j].item \in Out!Items /\ Out!Key(run[j].item) \in Out!Items \cup {"D7"}
    BY <1>3, RecordGoes, JobsAre DEF Out!Key, Out!Items, Out!Timed, Out!Nodes
  <2> QED
    BY <1>3, <2>1, RecordGoes
<1> QED
  BY <1>1, <1>2, <1>3 DEF JobStep

LEMMA JobShapes ==
    ASSUME Out!OutreachAssumption, Out!TypeOK, ShapesInv, NEW j \in Out!Jobs, JobStep(j)
    PROVE  Out!TypeOK' /\ ShapesInv'
<1>1. run'[j].todo \subseteq Out!Of[j] /\ (run'[j].step \in {"send", "log"} => run'[j].item \in Out!Of[j] \ run'[j].todo)
  <2>1. CASE Out!Fire(j)
    BY <2>1, FireGoes, ListedOwn
  <2>2. CASE Out!Reach(j)
    BY <2>2, ReachGoes DEF ShapesInv
  <2>3. CASE Out!Send(j)
    BY <2>3, SendGoes DEF ShapesInv
  <2>4. CASE Out!Record(j)
    BY <2>4, RecordGoes DEF ShapesInv
  <2>5. CASE Out!Deadline(j) \/ Out!Finish(j)
    BY <2>5, EndsGo DEF ShapesInv, Out!Off
  <2> QED
    BY <2>1, <2>2, <2>3, <2>4, <2>5 DEF JobStep
<1>2. ~up => run'["subscription"] = Out!Off
  <2> SUFFICES ASSUME ~up, j = "subscription" PROVE run'["subscription"] = Out!Off
    BY JobLeaves, JobsAre DEF ShapesInv
  <2>1. run[j] = Out!Off
    BY DEF ShapesInv
  <2> QED
    BY <2>1, FireGoes, EndsGo DEF JobStep, Out!Reach, Out!Send, Out!Record, Out!Off
<1>3. ShapesInv'
  BY <1>1, <1>2, JobLeaves DEF ShapesInv
<1>4. \A k \in Out!Jobs : run'[k].step \in {"off", "next", "send", "log"} /\ run'[k].todo \subseteq Out!Of[k]
  BY <1>3 DEF ShapesInv, RunRecs
<1> QED
  BY <1>3, <1>4, JobLeaves DEF Out!TypeOK

------------------------------------------------------------------------------
(* One job after the other *)

LEMMA RemindStays ==
    ASSUME RemindInv, run'["remind"] = run["remind"], \A a \in Appts : told'[a] = told[a],
           log \subseteq log', unsure \subseteq unsure'
    PROVE  RemindInv'
BY DEF RemindInv

LEMMA IdleStays ==
    ASSUME IdleInv, run'["idle"] = run["idle"], \A g \in Guests : told'[g] = told[g],
           log \subseteq log', unsure \subseteq unsure'
    PROVE  IdleInv'
BY DEF IdleInv

LEMMA LifecycleStays ==
    ASSUME LifecycleInv, run'["lifecycle"] = run["lifecycle"], \A d \in Out!Nodes : told'[d] = told[d],
           log \subseteq log', unsure \subseteq unsure'
    PROVE  LifecycleInv'
BY DEF LifecycleInv, Holds, Out!Nodes

LEMMA RemindStep ==
    ASSUME Out!OutreachAssumption, Out!TypeOK, ShapesInv, RemindInv, JobStep("remind") PROVE RemindInv'
<1> DEFINE j == "remind"
<1>0. j \in Out!Jobs /\ Out!Of[j] = Appts /\ Appts \subseteq Out!Items
  BY JobsAre
<1>1. CASE Out!Fire(j)
  <2>1. \A a \in run'[j].todo : a \notin log
    BY <1>0, <1>1, FireGoes, JobsAre DEF Out!Listed, Out!FindAppointmentsToRemind, Out!Recorded
  <2> QED
    BY <1>0, <1>1, <2>1, FireGoes DEF RemindInv, Out!TypeOK
<1>2. CASE Out!Reach(j)
  <2>1. PICK i \in run[j].todo : run'[j].todo = run[j].todo \ {i} /\ run'[j].item = i /\ run'[j].step = "send"
    BY <1>0, <1>2, ReachGoes
  <2> QED
    BY <1>0, <1>2, <2>1, ReachGoes DEF RemindInv
<1>3. CASE Out!Send(j)
  <2>1. PICK o \in Out!Outcomes :
          /\ run'[j].got = o /\ run'[j].step = "log" /\ unsure' = unsure
          /\ o = "refused" => told'[run[j].item] = told[run[j].item]
    BY <1>0, <1>3, SendGoes
  <2>2. run[j].step = "send" /\ run[j].item \in Appts \ run[j].todo /\ run'[j].todo = run[j].todo /\ run'[j].item = run[j].item
        /\ (\A a \in Appts \ {run[j].item} : told'[a] = told[a]) /\ log' = log
        /\ \A a \in Appts : told[a] \in 0..2 /\ told'[a] \in 0..2 /\ told'[a] <= told[a] + 1
    BY <1>0, <1>3, SendGoes DEF Out!TypeOK
  <2>3. ASSUME NEW a \in Appts \ unsure', a = run[j].item
        PROVE  /\ told'[a] > 0 => run'[j].step = "log" /\ run'[j].got \in {"ok", "lost"}
               /\ a \notin run'[j].todo /\ run'[j].step # "send" /\ told'[a] < 2
    BY <2>1, <2>2, <2>3 DEF RemindInv, Out!Outcomes
  <2>4. ASSUME NEW a \in Appts \ unsure', a # run[j].item
        PROVE  /\ told'[a] > 0 => a \in log
               /\ (a \in run'[j].todo => told'[a] = 0) /\ told'[a] < 2
    BY <2>1, <2>2, <2>4 DEF RemindInv
  <2> QED
    BY <2>1, <2>2, <2>3, <2>4 DEF RemindInv
<1>4. CASE Out!Record(j)
  <2>1. Out!Key(run[j].item) = run[j].item /\ run[j].item \in Appts
    BY <1>0, <1>4, RecordGoes, ItemsApart DEF Out!Key, Out!Nodes
  <2>2. PICK written \in BOOLEAN :
          /\ log' = IF written THEN log \cup {IF run[j].got = "over" THEN run[j].item ELSE Out!Key(run[j].item)} ELSE log
          /\ unsure' = IF ~written /\ run[j].got # "refused" THEN unsure \cup {run[j].item} ELSE unsure
    BY <1>0, <1>4, RecordGoes
  <2>3. run[j].step = "log" /\ run'[j].step = "next" /\ run'[j].todo = run[j].todo /\ told' = told
    BY <1>0, <1>4, RecordGoes
  <2> QED
    BY <2>1, <2>2, <2>3 DEF RemindInv
<1>5. CASE Out!Deadline(j) \/ Out!Finish(j)
  <2>1. CASE run'[j] = Out!Off
    <3>1. run[j].step = "next"
      BY <1>5, <2>1, <1>0, EndsGo DEF Out!Deadline, Out!Finish, ShapesInv, Out!Off, RunRecs
    <3> QED
      BY <1>5, <2>1, <3>1, <1>0, EndsGo DEF RemindInv, Out!Off
  <2>2. CASE run'[j] # Out!Off
    BY <1>5, <2>2, <1>0, EndsGo DEF RemindInv
  <2> QED
    BY <2>1, <2>2
<1> QED
  BY <1>1, <1>2, <1>3, <1>4, <1>5 DEF JobStep

LEMMA IdleStep ==
    ASSUME Out!OutreachAssumption, Out!TypeOK, ShapesInv, IdleInv, JobStep("idle") PROVE IdleInv'
<1> DEFINE j == "idle"
<1>0. j \in Out!Jobs /\ Out!Of[j] = Guests /\ Guests \subseteq Out!Items
  BY JobsAre
<1>1. CASE Out!Fire(j)
  BY <1>0, <1>1, FireGoes DEF IdleInv
<1>2. CASE Out!Reach(j)
  <2>1. PICK i \in run[j].todo : run'[j].item = i /\ run'[j].step = IF Out!Recorded(i) THEN "next" ELSE "send"
    BY <1>0, <1>2, ReachGoes
  <2> QED
    BY <1>0, <1>2, <2>1, ReachGoes DEF IdleInv, Out!Recorded, Out!TypeOK
<1>3. CASE Out!Send(j)
  <2>1. PICK o \in Out!Outcomes :
          /\ run'[j].got = o /\ run'[j].step = IF o = "ok" THEN "log" ELSE "next"
          /\ unsure' = IF o = "lost" THEN unsure \cup {run[j].item} ELSE unsure
          /\ o = "refused" => told'[run[j].item] = told[run[j].item]
    BY <1>0, <1>3, SendGoes
  <2>2. run[j].step = "send" /\ run[j].item \in Guests /\ run'[j].item = run[j].item
        /\ (\A a \in Guests \ {run[j].item} : told'[a] = told[a]) /\ log' = log
        /\ \A a \in Guests : told[a] \in 0..2 /\ told'[a] \in 0..2 /\ told'[a] <= told[a] + 1
    BY <1>0, <1>3, SendGoes DEF Out!TypeOK
  <2>3. ASSUME NEW g \in Guests \ unsure', g = run[j].item
        PROVE  /\ told'[g] > 0 => run'[j].step = "log"
               /\ run'[j].step # "send" /\ told'[g] < 2
    BY <2>1, <2>2, <2>3 DEF IdleInv, Out!Outcomes
  <2>4. ASSUME NEW g \in Guests \ unsure', g # run[j].item
        PROVE  /\ told'[g] > 0 => g \in log
               /\ told'[g] < 2
    BY <2>1, <2>2, <2>4 DEF IdleInv
  <2> QED
    BY <2>1, <2>2, <2>3, <2>4 DEF IdleInv
<1>4. CASE Out!Record(j)
  <2>1. Out!Key(run[j].item) = run[j].item /\ run[j].item \in Guests
    BY <1>0, <1>4, RecordGoes, ItemsApart DEF Out!Key, Out!Nodes
  <2>2. PICK written \in BOOLEAN :
          /\ log' = IF written THEN log \cup {IF run[j].got = "over" THEN run[j].item ELSE Out!Key(run[j].item)} ELSE log
          /\ unsure' = IF ~written /\ run[j].got # "refused" THEN unsure \cup {run[j].item} ELSE unsure
    BY <1>0, <1>4, RecordGoes
  <2> QED
    BY ZenonT(40), <1>0, <1>4, <2>1, <2>2, RecordGoes DEF IdleInv
<1>5. CASE Out!Deadline(j) \/ Out!Finish(j)
  <2>1. CASE run'[j] = Out!Off
    <3>1. run[j].step = "next"
      BY <1>5, <2>1, <1>0, EndsGo DEF Out!Deadline, Out!Finish, ShapesInv, Out!Off, RunRecs
    <3> QED
      BY <1>5, <2>1, <3>1, <1>0, EndsGo DEF IdleInv, Out!Off
  <2>2. CASE run'[j] # Out!Off
    BY <1>5, <2>2, <1>0, EndsGo DEF IdleInv
  <2> QED
    BY <2>1, <2>2
<1> QED
  BY <1>1, <1>2, <1>3, <1>4, <1>5 DEF JobStep

LEMMA LifecycleStep ==
    ASSUME Out!OutreachAssumption, Out!TypeOK, ShapesInv, LifecycleInv, JobStep("lifecycle") PROVE LifecycleInv'
<1> DEFINE j == "lifecycle"
<1>0. j \in Out!Jobs /\ Out!Of[j] = Out!Nodes /\ {"D3", "D15"} \subseteq Out!Nodes /\ Out!Nodes \subseteq Out!Items
  BY JobsAre DEF Out!Nodes
<1>1. CASE Out!Fire(j)
  <2>1. \A d \in run'[j].todo : d \notin log
    BY <1>0, <1>1, FireGoes, JobsAre DEF Out!Listed, Out!FindShopsForLifecycle, Out!Recorded
  <2> QED
    BY <1>0, <1>1, <2>1, FireGoes DEF LifecycleInv, Holds, Out!TypeOK
<1>2. CASE Out!Reach(j)
  <2>1. PICK i \in run[j].todo :
          run'[j].todo = run[j].todo \ {i} /\ run'[j].item = i /\ run'[j].step = "log" /\ run'[j].got = "none"
    BY <1>0, <1>2, ReachGoes
  <2> QED
    BY <1>0, <1>2, <2>1, ReachGoes DEF LifecycleInv, Holds
<1>3. CASE Out!Send(j)
  <2>1. run'[j].step = "next" /\ unsure' = unsure
    BY <1>0, <1>3, SendGoes
  <2>2. run[j].step = "send" /\ run[j].item \in Out!Nodes \ run[j].todo /\ run'[j].todo = run[j].todo /\ run'[j].item = run[j].item
        /\ (\A d \in Out!Nodes \ {run[j].item} : told'[d] = told[d]) /\ log' = log
        /\ \A d \in Out!Nodes : told[d] \in 0..2 /\ told'[d] \in 0..2 /\ told'[d] <= told[d] + 1
    BY <1>0, <1>3, SendGoes DEF Out!TypeOK
  <2>3. ASSUME NEW d \in {"D3", "D15"} \ unsure', d = run[j].item
        PROVE  d \in log /\ d \notin run'[j].todo /\ told'[d] < 2
    BY <1>0, <2>1, <2>2, <2>3 DEF LifecycleInv, Holds
  <2>4. ASSUME NEW d \in {"D3", "D15"} \ unsure', d # run[j].item
        PROVE  /\ told'[d] > 0 => d \in log
               /\ (d \in run'[j].todo => told'[d] = 0) /\ told'[d] < 2
    BY <1>0, <2>1, <2>2, <2>4 DEF LifecycleInv, Holds
  <2> QED
    BY <2>1, <2>2, <2>3, <2>4 DEF LifecycleInv, Holds
<1>4. CASE Out!Record(j)
  <2>1. run[j].got = "none" /\ run[j].item \in Out!Nodes \ run[j].todo
        /\ (run[j].item \in {"D3", "D15"} => Out!Key(run[j].item) = run[j].item)
    BY <1>0, <1>4, RecordGoes, ItemsApart DEF Out!Key, Out!Nodes, LifecycleInv
  <2>2. PICK written \in BOOLEAN :
          /\ log' = IF written THEN log \cup {Out!Key(run[j].item)} ELSE log
          /\ unsure' = IF ~written THEN unsure \cup {run[j].item} ELSE unsure
    BY <1>0, <1>4, <2>1, RecordGoes
  <2>3. /\ run[j].step = "log" /\ run'[j].step = "send" /\ run'[j].todo = run[j].todo /\ run'[j].item = run[j].item
        /\ run'[j].got = run[j].got /\ told' = told
    BY <1>0, <1>4, RecordGoes
  <2>4. ASSUME NEW d \in {"D3", "D15"} \ unsure', d = run[j].item
        PROVE  d \in log' /\ told'[d] = 0
    BY <2>1, <2>2, <2>3, <2>4 DEF LifecycleInv, Holds
  <2>5. ASSUME NEW d \in {"D3", "D15"} \ unsure', d # run[j].item
        PROVE  /\ told'[d] > 0 => d \in log'
               /\ (d \in run'[j].todo => told'[d] = 0) /\ told'[d] < 2
    BY <2>1, <2>2, <2>3, <2>5 DEF LifecycleInv, Holds
  <2> QED
    BY <2>1, <2>3, <2>4, <2>5 DEF LifecycleInv, Holds
<1>5. CASE Out!Deadline(j) \/ Out!Finish(j)
  <2>1. CASE run'[j] = Out!Off
    BY <1>5, <2>1, <1>0, EndsGo DEF LifecycleInv, Out!Off, Holds
  <2>2. CASE run'[j] # Out!Off
    BY <1>5, <2>2, <1>0, EndsGo DEF LifecycleInv, Holds
  <2> QED
    BY <2>1, <2>2
<1> QED
  BY <1>1, <1>2, <1>3, <1>4, <1>5 DEF JobStep

\* A warning falls into the two days before the end, and what is not over and gets none is not so near.
LEMMA WarnedInTime ==
    ASSUME NEW s \in Subs, ends[s] \in Int, outClock \in Nat
    PROVE  /\ Out!Handle(s) = "over" => ends[s] < outClock - 1
           /\ Out!Handle(s) = "none" => ends[s] > outClock + 4 \/ ends[s] < outClock - 1
BY DEF Out!Handle, Out!Over, Out!Warn, Out!Quiet, Out!DaysLeft

LEMMA SubsStays ==
    ASSUME SubsInv, run' \in [Out!Jobs -> RunRecs], run'["subscription"] = run["subscription"],
           \A j \in Out!Jobs \ {"subscription"} : run'[j].got \notin {"warn", "over"},
           there' \cap Subs \subseteq there, ends' = ends, outClock' = outClock, unsure \subseteq unsure', over' = over, warned' = warned,
           "subscription" \in fired' <=> "subscription" \in fired
    PROVE  SubsInv'
BY DEF SubsInv, InTime, Warning, Holds, Out!WarnedBeforeOver

LEMMA SubsStep ==
    ASSUME Out!OutreachAssumption, Out!TypeOK, ShapesInv, SubsInv, JobStep("subscription") PROVE SubsInv'
<1> DEFINE j == "subscription"
<1>0. j \in Out!Jobs /\ Out!Of[j] = Subs /\ Subs \subseteq Out!Items /\ \A k \in Out!Jobs \ {j} : run'[k] = run[k]
  BY JobsAre, JobLeaves
<1>00. UNCHANGED <<outClock, there, ends>> /\ outClock \in Nat /\ ends \in [Subs -> Int] /\ unsure \subseteq unsure'
  BY <1>0, JobLeaves DEF Out!TypeOK, ShapesInv, Out!OutreachAssumption
<1>1. CASE Out!Fire(j)
  <2>1. run'[j].todo = Out!Ending /\ run'[j].step = "next" /\ run'[j].got = "none" /\ UNCHANGED <<warned, over, unsure>>
        /\ j \in fired' /\ j \notin fired
    BY <1>0, <1>1, FireGoes, JobsAre DEF Out!Listed
  <2>2. ASSUME NEW s \in Subs \ (warned \cup unsure), s \in there \cup run'[j].todo PROVE InTime(s)'
    <3>1. s \in there /\ run[j].step = "off" /\ (s \in Out!Ending <=> outClock % 2 = 0 /\ ends[s] <= outClock + 6)
      BY <1>0, <1>1, <2>1, <2>2, FireGoes DEF Out!Ending
    <3>2. ends[s] >= IF outClock % 2 = 1 THEN outClock ELSE outClock - 1
      BY <2>1, <2>2, <3>1 DEF SubsInv, InTime, Warning, Holds
    <3> QED
      BY <1>00, <2>1, <3>1, <3>2 DEF InTime
  <2> QED
    BY <1>0, <1>00, <2>1, <2>2 DEF SubsInv, Holds, Warning, Out!WarnedBeforeOver
<1>2. CASE Out!Reach(j)
  <2>1. PICK i \in run[j].todo :
          /\ run'[j].todo = run[j].todo \ {i} /\ run'[j].item = i
          /\ run'[j].step = (IF Out!Handle(i) = "none" THEN "next" ELSE "log") /\ run'[j].got = Out!Handle(i)
    BY <1>0, <1>2, ReachGoes
  <2>2. i \in Subs /\ run[j].step = "next" /\ UNCHANGED <<warned, over, unsure, fired>> /\ Out!Handle(i) \in {"none", "warn", "over"}
    BY <1>0, <1>2, <2>1, ReachGoes DEF ShapesInv, Out!Handle
  <2>3. i \in warned \cup unsure \/ ends[i] >= outClock - 1
    BY <1>00, <2>2 DEF SubsInv, InTime, Warning, Holds
  <2>4. i \in warned \cup unsure \/ Out!Handle(i) = "warn" \/ (Out!Handle(i) = "none" /\ ends[i] > outClock + 4)
    BY <1>00, <2>2, <2>3, WarnedInTime
  <2>5. ASSUME NEW s \in Subs \ (warned \cup unsure), s \in there \cup run'[j].todo, ~Warning(s)' PROVE InTime(s)'
    <3>1. CASE s = i
      BY <1>00, <2>1, <2>2, <2>4, <2>5, <3>1 DEF InTime, Warning, Holds
    <3>2. CASE s # i
      BY <1>00, <2>1, <2>2, <2>5, <3>2 DEF InTime, Warning, Holds, SubsInv
    <3> QED
      BY <3>1, <3>2
  <2>6. ASSUME NEW s \in Subs \ (warned \cup unsure), Holds(j, s)' PROVE run'[j].got # "over"
    BY <2>1, <2>2, <2>4, <2>6 DEF Holds
  <2> QED
    BY <1>0, <1>00, <2>1, <2>2, <2>5, <2>6 DEF SubsInv, Out!WarnedBeforeOver
<1>3. CASE Out!Send(j)
  <2>1. /\ run[j].step = "send" /\ run'[j].step = "next" /\ run'[j].got = run[j].got /\ run'[j].todo = run[j].todo
        /\ warned' = IF run[j].got = "warn" THEN warned \cup {run[j].item} ELSE warned
        /\ over' = IF run[j].got = "over" THEN over \cup {run[j].item} ELSE over
        /\ unsure' = unsure /\ fired' = fired /\ run[j].item \in Subs
    BY <1>0, <1>3, SendGoes
  <2> QED
    BY <1>0, <1>00, <2>1 DEF SubsInv, InTime, Warning, Holds, Out!WarnedBeforeOver
<1>4. CASE Out!Record(j)
  <2>1. /\ run[j].step = "log" /\ run'[j].step = "send" /\ run'[j].got = run[j].got /\ run'[j].todo = run[j].todo
        /\ run'[j].item = run[j].item /\ UNCHANGED <<warned, over, fired>>
    BY <1>0, <1>4, RecordGoes
  <2> QED
    BY <1>0, <1>00, <2>1 DEF SubsInv, InTime, Warning, Holds, Out!WarnedBeforeOver
<1>5. CASE Out!Deadline(j) \/ Out!Finish(j)
  <2>1. CASE run'[j] = Out!Off
    <3>1. run[j].step = "next" /\ run[j].todo = {}
      BY <1>5, <2>1, <1>0, EndsGo DEF Out!Deadline, Out!Finish, ShapesInv, Out!Off, RunRecs
    <3>2. run'[j].step = "off" /\ run'[j].todo = {} /\ run'[j].got = "none"
      BY <2>1 DEF Out!Off
    <3> QED
      BY <1>5, <3>1, <3>2, <1>0, <1>00, EndsGo DEF SubsInv, InTime, Warning, Holds, Out!WarnedBeforeOver
  <2>2. CASE run'[j] # Out!Off
    BY <1>5, <2>2, <1>0, <1>00, EndsGo DEF SubsInv, InTime, Warning, Holds, Out!WarnedBeforeOver
  <2> QED
    BY <2>1, <2>2
<1> QED
  BY <1>1, <1>2, <1>3, <1>4, <1>5 DEF JobStep

LEMMA SaidStep ==
    ASSUME Out!OutreachAssumption, Out!TypeOK, ShapesInv, SaidInv, NEW j \in Out!Jobs, JobStep(j) PROVE SaidInv'
<1>0. /\ \A k \in Out!Jobs \ {j} : run'[k] = run[k]
      /\ said \subseteq Out!Items /\ work' = work
      /\ \A i \in Out!Items : told[i] \in Nat /\ told'[i] \in Nat /\ told[i] <= told'[i]
  BY JobLeaves DEF Out!TypeOK
<1>1. \A i \in said : told'[i] > 0
  BY <1>0 DEF SaidInv, Out!RecordsAreTrue
<1>2. \A k \in Out!Jobs \ {j} : k \in {"remind", "idle"} /\ run'[k].step = "log" /\ run'[k].got = "ok" => told'[run'[k].item] > 0
  BY <1>0, JobsAre DEF SaidInv, ShapesInv
<1>3. \A w \in Out!Senders : work'[w].step = "mark" /\ work'[w].got = "sent" => told'[work'[w].item] > 0
  <2>1. Notes \subseteq Out!Items
    BY DEF Out!Items
  <2> QED
    BY <1>0, <2>1 DEF SaidInv, ShapesInv
<1>4. said' = said \/ (said' = said \cup {run[j].item} /\ j \in {"remind", "idle"} /\ told'[run[j].item] > 0)
  <2>1. CASE Out!Fire(j) \/ Out!Reach(j) \/ Out!Deadline(j) \/ Out!Finish(j)
    BY <2>1, FireGoes, ReachGoes, EndsGo
  <2>2. CASE Out!Send(j)
    BY <2>2, SendGoes
  <2>3. CASE Out!Record(j)
    BY <1>0, <2>3, RecordGoes DEF SaidInv
  <2> QED
    BY <2>1, <2>2, <2>3 DEF JobStep
<1>5. ASSUME j \in {"remind", "idle"}, run'[j].step = "log", run'[j].got = "ok" PROVE told'[run'[j].item] > 0
  <2>1. CASE Out!Fire(j) \/ Out!Record(j)
    BY <1>5, <2>1, FireGoes, RecordGoes
  <2>2. CASE Out!Reach(j)
    BY <1>5, <2>2, ReachGoes
  <2>3. CASE Out!Send(j)
    BY <1>5, <2>3, SendGoes
  <2>4. CASE Out!Deadline(j) \/ Out!Finish(j)
    BY <1>0, <1>5, <2>4, EndsGo DEF SaidInv, Out!Off
  <2> QED
    BY <2>1, <2>2, <2>3, <2>4 DEF JobStep
<1> QED
  BY <1>1, <1>2, <1>3, <1>4, <1>5, JobsAre DEF SaidInv, Out!RecordsAreTrue

LEMMA JobKeeps == ASSUME Out!OutreachAssumption, OutInv, NEW j \in Out!Jobs, JobStep(j) PROVE OutInv'
<1> USE DEF OutInv
<1>1. /\ run' \in [Out!Jobs -> RunRecs] /\ \A k \in Out!Jobs \ {j} : run'[k] = run[k]
      /\ \A i \in Out!Items \ Out!Of[j] : told'[i] = told[i]
      /\ log \subseteq log' /\ unsure \subseteq unsure'
      /\ UNCHANGED <<outClock, up, there, ends, outRow, work>>
  BY JobLeaves
<1>2. Out!TypeOK' /\ ShapesInv' /\ SaidInv'
  BY JobShapes, SaidStep
<1>3. NotesInv'
  <2>1. \A n \in Notes : told'[n] = told[n]
    BY <1>1, JobsAre, ItemsApart DEF Out!Items, Out!Nodes
  <2> QED
    BY <1>1, <2>1 DEF NotesInv, NoteWith
<1>4. RemindInv'
  <2>1. CASE j = "remind"
    BY <2>1, RemindStep
  <2>2. CASE j # "remind"
    BY <1>1, <2>2, RemindStays, JobsAre, ItemsApart
  <2> QED
    BY <2>1, <2>2
<1>5. IdleInv'
  <2>1. CASE j = "idle"
    BY <2>1, IdleStep
  <2>2. CASE j # "idle"
    BY <1>1, <2>2, IdleStays, JobsAre, ItemsApart
  <2> QED
    BY <2>1, <2>2
<1>6. LifecycleInv'
  <2>1. CASE j = "lifecycle"
    BY <2>1, LifecycleStep
  <2>2. CASE j # "lifecycle"
    BY <1>1, <2>2, LifecycleStays, JobsAre, ItemsApart
  <2> QED
    BY <2>1, <2>2
<1>7. SubsInv'
  <2>1. CASE j = "subscription"
    BY <2>1, SubsStep
  <2>2. CASE j # "subscription"
    <3>1. run[j].got \notin {"warn", "over"} /\ run'[j].got \notin {"warn", "over"}
      BY <2>2, FireGoes, ReachGoes, SendGoes, RecordGoes, EndsGo, JobsAre DEF JobStep, SubsInv, Out!Outcomes, Out!Off
    <3>2. over' = over /\ warned' = warned /\ ("subscription" \in fired' <=> "subscription" \in fired)
      BY <2>2, <3>1, FireGoes, ReachGoes, SendGoes, RecordGoes, EndsGo DEF JobStep
    <3> QED
      BY <1>1, <2>2, <3>1, <3>2, SubsStays, JobsAre DEF SubsInv
  <2> QED
    BY <2>1, <2>2
<1> QED
  BY <1>2, <1>3, <1>4, <1>5, <1>6, <1>7

------------------------------------------------------------------------------
(* Notices *)

\* What a step of a sender leaves to the jobs.
NotesOnly ==
    /\ UNCHANGED <<outClock, up, log, run, fired, ends, warned, over>>
    /\ there' \subseteq there /\ \A i \in Out!Items \ Notes : told'[i] = told[i]
    /\ unsure \subseteq unsure'

LEMMA NotesOnlyKeeps ==
    ASSUME Out!OutreachAssumption, OutInv, NotesOnly, Out!TypeOK', ShapesInv', NotesInv', SaidInv' PROVE OutInv'
<1> USE DEF OutInv
<1>1. /\ \A a \in Appts : told'[a] = told[a]
      /\ \A g \in Guests : told'[g] = told[g]
      /\ \A d \in Out!Nodes : told'[d] = told[d]
  BY ItemsApart, JobsAre DEF NotesOnly
<1>2. RemindInv' /\ IdleInv' /\ LifecycleInv'
  BY <1>1, RemindStays, IdleStays, LifecycleStays DEF NotesOnly
<1>3. SubsInv'
  BY SubsStays DEF NotesOnly, ShapesInv, SubsInv
<1> QED
  BY <1>2, <1>3

\* One sender changes what it has in hand.
LEMMA SenderMoves ==
    ASSUME ShapesInv, NEW w \in Out!Senders, NEW r \in WorkRecs, work' = [work EXCEPT ![w] = r],
           run' = run, ends' = ends, up' = up, r.step \in {"send", "mark"} => r.item \in Notes, r.step = "mark" => r.got # "none"
    PROVE  ShapesInv' /\ work'[w] = r /\ \A v \in Out!Senders \ {w} : work'[v] = work[v]
BY DEF ShapesInv

LEMMA StartStep == ASSUME Out!OutreachAssumption, OutInv, Out!StartNotices PROVE OutInv'
<1> USE DEF OutInv
<1> DEFINE r == [Out!Rest EXCEPT !.step = "next", !.todo = Notes \cap there]
<1>1. /\ work["leave"] = Out!Rest /\ work' = [work EXCEPT !["leave"] = r] /\ there' = there \ Notes
      /\ UNCHANGED <<outClock, up, log, run, fired, ends, warned, over, outRow, said, told, unsure>>
  BY DEF Out!StartNotices, Out!jobs, Out!subs
<1>2. r \in WorkRecs /\ "leave" \in Out!Senders /\ r.step = "next" /\ r.todo = Notes \cap there
  BY DEF WorkRecs, Out!Senders, Out!Rest
<1> HIDE DEF r
<1>3. ShapesInv' /\ work'["leave"] = r /\ \A v \in Out!Senders \ {"leave"} : work'[v] = work[v]
  BY <1>1, <1>2, SenderMoves
<1>4. Out!TypeOK'
  BY <1>1, <1>2, <1>3 DEF Out!TypeOK
<1>5. \A w \in Out!Senders, n \in Notes : ~NoteWith("leave", n) /\ ~NoteWith("leave", n)' /\ (NoteWith(w, n)' <=> NoteWith(w, n))
  BY <1>1, <1>2, <1>3 DEF NoteWith, Out!Rest
<1>6. Admins \subseteq Out!Senders \ {"leave"}
  BY DEF Out!OutreachAssumption, Out!Senders
<1>7. \A n \in Notes \ unsure : told[n] > 0 => outRow[n] = "sent" \/ \E w \in Out!Senders \ {"leave"} : work[w].step = "mark" /\ NoteWith(w, n) /\ work[w].got = "sent"
  BY <1>5 DEF NotesInv
<1>8. NotesInv'
  <2>1. \A n \in Notes \ unsure' : told'[n] > 0 => outRow'[n] = "sent" \/ \E w \in Out!Senders : (work[w].step = "mark" /\ NoteWith(w, n) /\ work[w].got = "sent")'
    BY <1>1, <1>3, <1>5, <1>7
  <2>2. \A n \in Notes \ unsure', w \in Out!Senders : NoteWith(w, n)' =>
                /\ \A v \in Out!Senders \ {w} : ~NoteWith(v, n)'
                /\ work'[w].step = "send" \/ work'[w].got # "sent" => told'[n] = 0
    BY <1>1, <1>2, <1>3, <1>5 DEF NotesInv
  <2>3. \A n \in Notes : n \in there' \cup work'["leave"].todo =>
          /\ outRow'[n] = "none" /\ told'[n] = 0
          /\ \A w \in Out!Senders : ~NoteWith(w, n)'
    BY <1>1, <1>2, <1>3, <1>5 DEF NotesInv
  <2> QED
    BY <1>1, <1>2, <1>3, <1>6, <2>1, <2>2, <2>3 DEF NotesInv
<1>9. SaidInv'
  BY <1>1, <1>2, <1>3 DEF SaidInv, Out!RecordsAreTrue
<1> QED
  BY <1>1, <1>3, <1>4, <1>8, <1>9, NotesOnlyKeeps DEF NotesOnly

LEMMA OpenStep == ASSUME Out!OutreachAssumption, OutInv, Out!OpenNotice PROVE OutInv'
<1> USE DEF OutInv
<1>1. PICK n \in work["leave"].todo, made \in BOOLEAN :
        /\ outRow' = IF made THEN [outRow EXCEPT ![n] = "pending"] ELSE outRow
        /\ work' = [work EXCEPT !["leave"].step = "send", !["leave"].todo = @ \ {n}, !["leave"].item = n]
  BY DEF Out!OpenNotice
<1> DEFINE r == [work["leave"] EXCEPT !.step = "send", !.todo = @ \ {n}, !.item = n]
<1>2. "leave" \in Out!Senders /\ work["leave"] \in WorkRecs /\ n \in Notes /\ work["leave"].step = "next"
  BY DEF ShapesInv, WorkRecs, Out!Senders, Out!OpenNotice
<1>3. work' = [work EXCEPT !["leave"] = r]
  BY <1>1, <1>2 DEF ShapesInv
<1>4. r \in WorkRecs /\ r.step = "send" /\ r.item = n /\ r.todo = work["leave"].todo \ {n}
  BY <1>2 DEF WorkRecs
<1> HIDE DEF r
<1>5. UNCHANGED <<outClock, up, there, log, run, fired, ends, warned, over, said, told, unsure>>
  BY DEF Out!OpenNotice, Out!Quietly, Out!jobs, Out!subs
<1>6. ShapesInv' /\ work'["leave"] = r /\ \A v \in Out!Senders \ {"leave"} : work'[v] = work[v]
  BY <1>2, <1>3, <1>4, <1>5, SenderMoves
<1>7. outRow' \in [Notes -> {"none", "pending", "sent", "failed", "skipped"}] /\ \A m \in Notes \ {n} : outRow'[m] = outRow[m]
  BY <1>1 DEF Out!TypeOK
<1>8. Out!TypeOK'
  BY <1>2, <1>4, <1>5, <1>6, <1>7 DEF Out!TypeOK
<1>9. n \notin there /\ outRow[n] = "none" /\ told[n] = 0 /\ (\A w \in Out!Senders : ~NoteWith(w, n))
  BY <1>1, <1>2 DEF NotesInv
<1>10. \A w \in Out!Senders, m \in Notes : /\ NoteWith(w, m)' <=> NoteWith(w, m) \/ (w = "leave" /\ m = n)
                                           /\ ~NoteWith("leave", m)
  BY <1>2, <1>4, <1>6 DEF NoteWith
<1>11. Admins \subseteq Out!Senders \ {"leave"}
  BY DEF Out!OutreachAssumption, Out!Senders
<1>12. \A w \in Admins : \A m \in work'[w].todo : outRow'[m] # "none"
  <2>1. \A w \in Admins : work'[w].todo = work[w].todo /\ work[w].todo \subseteq Notes /\ n \notin work[w].todo
    BY <1>6, <1>9, <1>11 DEF NotesInv, ShapesInv, WorkRecs
  <2> QED
    BY <1>7, <2>1 DEF NotesInv
<1>13. NotesInv'
  <2>1. \A m \in Notes \ unsure' : told'[m] > 0 => outRow'[m] = "sent" \/ \E w \in Out!Senders : (work[w].step = "mark" /\ NoteWith(w, m) /\ work[w].got = "sent")'
    BY <1>5, <1>6, <1>7, <1>9, <1>10 DEF NotesInv
  <2>2. \A m \in Notes \ unsure', w \in Out!Senders : NoteWith(w, m)' =>
                /\ \A v \in Out!Senders \ {w} : ~NoteWith(v, m)'
                /\ work'[w].step = "send" \/ work'[w].got # "sent" => told'[m] = 0
    BY <1>4, <1>5, <1>6, <1>9, <1>10 DEF NotesInv
  <2>3. \A m \in Notes : m \in there' \cup work'["leave"].todo =>
          /\ outRow'[m] = "none" /\ told'[m] = 0
          /\ \A w \in Out!Senders : ~NoteWith(w, m)'
    BY <1>4, <1>5, <1>6, <1>7, <1>9, <1>10 DEF NotesInv
  <2> QED
    BY <1>4, <1>5, <1>6, <1>12, <2>1, <2>2, <2>3 DEF NotesInv
<1>14. SaidInv'
  BY <1>4, <1>5, <1>6 DEF SaidInv, Out!RecordsAreTrue
<1> QED
  BY <1>5, <1>6, <1>8, <1>13, <1>14, NotesOnlyKeeps DEF NotesOnly

LEMMA TakeStep ==
    ASSUME Out!OutreachAssumption, OutInv, NEW w \in Admins, NEW N \in SUBSET Notes, \A n \in N : outRow[n] # "none", Out!Take(w, N)
    PROVE  OutInv'
<1> USE DEF OutInv
<1> DEFINE r == [Out!Rest EXCEPT !.step = "next", !.todo = N]
<1>1. work[w] = Out!Rest /\ work' = [work EXCEPT ![w] = r]
      /\ UNCHANGED <<outClock, up, there, log, run, fired, ends, warned, over, outRow, said, told, unsure>>
  BY DEF Out!Take, Out!Quietly, Out!jobs, Out!subs
<1>2. r \in WorkRecs /\ w \in Out!Senders /\ w # "leave" /\ r.step = "next" /\ r.todo = N
  BY DEF WorkRecs, Out!Senders, Out!Rest, Out!OutreachAssumption
<1> HIDE DEF r
<1>3. ShapesInv' /\ work'[w] = r /\ \A v \in Out!Senders \ {w} : work'[v] = work[v]
  BY <1>1, <1>2, SenderMoves
<1>4. Out!TypeOK'
  BY <1>1, <1>2, <1>3 DEF Out!TypeOK
<1>5. \A v \in Out!Senders, n \in Notes : (NoteWith(v, n)' <=> NoteWith(v, n)) /\ ~NoteWith(w, n)
  BY <1>1, <1>2, <1>3 DEF NoteWith, Out!Rest
<1>6. Admins \subseteq Out!Senders /\ "leave" \in Out!Senders
  BY DEF Out!Senders
<1>7. NotesInv'
  <2>1. \A m \in Notes \ unsure' : told'[m] > 0 => outRow'[m] = "sent" \/ \E v \in Out!Senders : (work[v].step = "mark" /\ NoteWith(v, m) /\ work[v].got = "sent")'
    BY <1>1, <1>2, <1>3, <1>5 DEF NotesInv
  <2>2. \A m \in Notes \ unsure', v \in Out!Senders : NoteWith(v, m)' =>
                /\ \A u \in Out!Senders \ {v} : ~NoteWith(u, m)'
                /\ work'[v].step = "send" \/ work'[v].got # "sent" => told'[m] = 0
    BY <1>1, <1>2, <1>3, <1>5 DEF NotesInv
  <2>3. \A n \in Notes : n \in there' \cup work'["leave"].todo =>
          /\ outRow'[n] = "none" /\ told'[n] = 0
          /\ \A v \in Out!Senders : ~NoteWith(v, n)'
    BY <1>1, <1>2, <1>3, <1>5, <1>6 DEF NotesInv
  <2> QED
    BY <1>1, <1>2, <1>3, <1>6, <2>1, <2>2, <2>3 DEF NotesInv
<1>8. SaidInv'
  BY <1>1, <1>2, <1>3 DEF SaidInv, Out!RecordsAreTrue
<1> QED
  BY <1>1, <1>3, <1>4, <1>7, <1>8, NotesOnlyKeeps DEF NotesOnly

LEMMA ReadStep == ASSUME Out!OutreachAssumption, OutInv, NEW w \in Admins, Out!ReadNotice(w) PROVE OutInv'
<1> USE DEF OutInv
<1>1. PICK n \in work[w].todo :
        /\ work' = [work EXCEPT ![w].todo = @ \ {n}, ![w].item = n,
                             ![w].step = IF Out!Retryable(n) THEN "send" ELSE "next"]
        /\ unsure' = IF Out!Retryable(n) /\ \E v \in Out!Senders \ {w} : work[v].step \in {"send", "mark"} /\ work[v].item = n
                     THEN unsure \cup {n} ELSE unsure
  BY DEF Out!ReadNotice
<1> DEFINE step == IF Out!Retryable(n) THEN "send" ELSE "next"
           r == [work[w] EXCEPT !.todo = @ \ {n}, !.item = n, !.step = step]
<1>2. w \in Out!Senders /\ w # "leave" /\ work[w] \in WorkRecs /\ n \in Notes /\ work[w].step = "next"
  BY DEF ShapesInv, WorkRecs, Out!Senders, Out!ReadNotice, Out!OutreachAssumption
<1>3. work' = [work EXCEPT ![w] = r]
  BY <1>1, <1>2 DEF ShapesInv
<1>4. r \in WorkRecs /\ r.step = step /\ r.item = n /\ r.todo = work[w].todo \ {n}
  BY <1>2 DEF WorkRecs
<1>5. UNCHANGED <<outClock, up, there, log, run, fired, ends, warned, over, outRow, said, told>>
  BY DEF Out!ReadNotice, Out!Quietly, Out!jobs, Out!subs
<1>6. step \in {"send", "next"} /\ (step = "send" <=> Out!Retryable(n))
  OBVIOUS
<1> HIDE DEF r, step
<1>7. ShapesInv' /\ work'[w] = r /\ \A v \in Out!Senders \ {w} : work'[v] = work[v]
  BY <1>2, <1>3, <1>4, <1>5, <1>6, SenderMoves
<1>8. unsure \subseteq unsure' /\ unsure' \subseteq unsure \cup {n} /\ n \in Out!Items
  BY <1>1, <1>2 DEF Out!Items
<1>9. Out!TypeOK'
  BY <1>2, <1>4, <1>5, <1>6, <1>7, <1>8 DEF Out!TypeOK
<1>10. outRow[n] # "none" /\ n \notin there /\ n \notin work["leave"].todo
  BY <1>1, <1>2 DEF NotesInv
<1>11. \A v \in Out!Senders, m \in Notes : (NoteWith(v, m)' <=> NoteWith(v, m) \/ (v = w /\ m = n /\ Out!Retryable(n))) /\ ~NoteWith(w, m)
  BY <1>2, <1>4, <1>6, <1>7 DEF NoteWith
<1>12. n \notin unsure' /\ Out!Retryable(n) => /\ \A v \in Out!Senders : ~NoteWith(v, n)
                                               /\ told[n] = 0
  <2> SUFFICES ASSUME n \notin unsure', Out!Retryable(n) PROVE (\A v \in Out!Senders : ~NoteWith(v, n)) /\ told[n] = 0
    OBVIOUS
  <2>1. \A v \in Out!Senders : ~NoteWith(v, n)
    BY <1>1, <1>2, <1>11 DEF NoteWith
  <2>2. n \notin unsure /\ outRow[n] # "sent"
    BY <1>8 DEF Out!Retryable
  <2>3. ~(told[n] > 0) /\ told[n] \in 0..2
    BY <1>2, <1>8, <2>1, <2>2 DEF NotesInv, Out!TypeOK
  <2> QED
    BY <2>1, <2>3
<1>13. Admins \subseteq Out!Senders /\ "leave" \in Out!Senders
  BY DEF Out!Senders
<1>14. NotesInv'
  <2>1. \A m \in Notes \ unsure' : told'[m] > 0 => outRow'[m] = "sent" \/ \E v \in Out!Senders : (work[v].step = "mark" /\ NoteWith(v, m) /\ work[v].got = "sent")'
    BY <1>2, <1>5, <1>7, <1>8, <1>11 DEF NotesInv
  <2>2. \A m \in Notes \ unsure', v \in Out!Senders : NoteWith(v, m)' =>
                /\ \A u \in Out!Senders \ {v} : ~NoteWith(u, m)'
                /\ work'[v].step = "send" \/ work'[v].got # "sent" => told'[m] = 0
    BY <1>2, <1>5, <1>7, <1>8, <1>11, <1>12 DEF NotesInv
  <2>3. \A m \in Notes : m \in there' \cup work'["leave"].todo =>
          /\ outRow'[m] = "none" /\ told'[m] = 0
          /\ \A v \in Out!Senders : ~NoteWith(v, m)'
    BY <1>2, <1>5, <1>7, <1>10, <1>11, <1>13 DEF NotesInv
  <2> QED
    BY <1>2, <1>4, <1>5, <1>7, <1>8, <1>13, <2>1, <2>2, <2>3 DEF NotesInv
<1>15. SaidInv'
  <2>1. step # "mark"
    BY <1>6
  <2> QED
    BY <1>4, <1>5, <1>7, <2>1 DEF SaidInv, Out!RecordsAreTrue
<1> QED
  BY <1>5, <1>7, <1>8, <1>9, <1>14, <1>15, NotesOnlyKeeps DEF NotesOnly

LEMMA DeliveryStep == ASSUME Out!OutreachAssumption, OutInv, NEW w \in Out!Senders, Out!SendNotice(w) PROVE OutInv'
<1> USE DEF OutInv
<1>0. PICK n \in Notes : n = work[w].item
  BY DEF ShapesInv, Out!SendNotice
<1>1. PICK got \in {"sent", "failed", "skipped"}, more \in 0..3 :
        /\ got = "sent" => more > 0
        /\ told' = [told EXCEPT ![n] = IF @ + more > 2 THEN 2 ELSE @ + more]
        /\ unsure' = IF more > (IF got = "sent" THEN 1 ELSE 0) THEN unsure \cup {n} ELSE unsure
        /\ work' = [work EXCEPT ![w].step = "mark", ![w].got = got]
  <2>1. PICK channel \in Out!SelectChannel, try \in Out!SendWithRetry :
          LET got == CASE channel = "wecom" -> try.got [] channel = "phone" -> "failed" [] OTHER -> "skipped"
              more == IF channel = "wecom" THEN try.arrived ELSE 0
              lost == more > (IF got = "sent" THEN 1 ELSE 0)
          IN /\ told' = [told EXCEPT ![n] = IF @ + more > 2 THEN 2 ELSE @ + more]
             /\ unsure' = IF lost THEN unsure \cup {n} ELSE unsure
             /\ work' = [work EXCEPT ![w].step = "mark", ![w].got = got]
    BY <1>0 DEF Out!SendNotice
  <2>2. try.got \in {"sent", "failed"} /\ try.arrived \in 0..3 /\ (try.got = "sent" => try.arrived > 0)
    BY DEF Out!SendWithRetry
  <2> DEFINE got == CASE channel = "wecom" -> try.got [] channel = "phone" -> "failed" [] OTHER -> "skipped"
             more == IF channel = "wecom" THEN try.arrived ELSE 0
  <2>3. got \in {"sent", "failed", "skipped"} /\ more \in 0..3 /\ (got = "sent" => more > 0)
    BY <2>2 DEF Out!SelectChannel
  <2>4. /\ told' = [told EXCEPT ![n] = IF @ + more > 2 THEN 2 ELSE @ + more]
        /\ unsure' = IF more > (IF got = "sent" THEN 1 ELSE 0) THEN unsure \cup {n} ELSE unsure
        /\ work' = [work EXCEPT ![w].step = "mark", ![w].got = got]
    BY <2>1
  <2> HIDE DEF got, more
  <2> QED
    BY <2>3, <2>4
<1> DEFINE r == [work[w] EXCEPT !.step = "mark", !.got = got]
<1>2. work[w] \in WorkRecs /\ n \in Notes /\ work[w].step = "send" /\ n \in Out!Items
  BY <1>0 DEF ShapesInv, Out!SendNotice, Out!Items
<1>3. work' = [work EXCEPT ![w] = r]
  BY <1>1, <1>2 DEF ShapesInv
<1>4. r \in WorkRecs /\ r.step = "mark" /\ r.item = n /\ r.todo = work[w].todo /\ r.got = got
  BY <1>0, <1>2 DEF WorkRecs
<1> HIDE DEF r
<1>5. UNCHANGED <<outClock, up, there, log, run, fired, ends, warned, over, outRow, said>>
  BY DEF Out!SendNotice, Out!Quietly, Out!jobs, Out!subs
<1>6. ShapesInv' /\ work'[w] = r /\ \A v \in Out!Senders \ {w} : work'[v] = work[v]
  BY <1>2, <1>3, <1>4, <1>5, SenderMoves
<1>7. unsure \subseteq unsure' /\ unsure' \subseteq unsure \cup {n}
  BY <1>1
<1>8. told' \in [Out!Items -> 0..2] /\ (\A i \in Out!Items \ {n} : told'[i] = told[i]) /\ (\A i \in Out!Items : told[i] <= told'[i])
      /\ (got = "sent" => told'[n] > 0)
      /\ (n \notin unsure' => told'[n] <= told[n] + 1 /\ (got # "sent" => told'[n] = told[n]))
  <2>1. told \in [Out!Items -> 0..2]
    BY DEF Out!TypeOK
  <2> QED
    BY <1>1, <1>2, <2>1
<1>9. Out!TypeOK'
  BY <1>2, <1>4, <1>5, <1>6, <1>7, <1>8 DEF Out!TypeOK
<1>10. n \notin there /\ n \notin work["leave"].todo /\ NoteWith(w, n)
  BY <1>0, <1>2 DEF NotesInv, NoteWith
<1>11. \A v \in Out!Senders, m \in Notes : NoteWith(v, m)' <=> NoteWith(v, m)
  BY <1>0, <1>2, <1>4, <1>6 DEF NoteWith
<1>12. n \notin unsure => told[n] = 0 /\ \A v \in Out!Senders \ {w} : ~NoteWith(v, n)
  BY <1>2, <1>10 DEF NotesInv
<1>13. Admins \subseteq Out!Senders /\ "leave" \in Out!Senders /\ Notes \subseteq Out!Items
  BY DEF Out!Senders, Out!Items
<1>14. NotesInv'
  <2>1. \A m \in Notes \ unsure' : told'[m] > 0 => outRow'[m] = "sent" \/ \E v \in Out!Senders : (work[v].step = "mark" /\ NoteWith(v, m) /\ work[v].got = "sent")'
    <3>1. ASSUME NEW m \in Notes \ unsure', m # n, told'[m] > 0
          PROVE  outRow'[m] = "sent" \/ \E v \in Out!Senders : (work[v].step = "mark" /\ NoteWith(v, m) /\ work[v].got = "sent")'
      <4>1. told[m] > 0 /\ m \notin unsure /\ ~NoteWith(w, m)
        BY <1>0, <1>2, <1>7, <1>8, <1>13, <3>1 DEF NoteWith
      <4> QED
        BY <1>5, <1>6, <1>11, <4>1 DEF NotesInv
    <3>2. ASSUME n \notin unsure', told'[n] > 0 PROVE (work[w].step = "mark" /\ NoteWith(w, n) /\ work[w].got = "sent")'
      BY <1>2, <1>4, <1>6, <1>7, <1>8, <1>12, <3>2 DEF NoteWith
    <3> QED
      BY <3>1, <3>2
  <2>2. \A m \in Notes \ unsure', v \in Out!Senders : NoteWith(v, m)' =>
                /\ \A u \in Out!Senders \ {v} : ~NoteWith(u, m)'
                /\ work'[v].step = "send" \/ work'[v].got # "sent" => told'[m] = 0
    <3>1. ASSUME NEW m \in Notes \ unsure', NEW v \in Out!Senders, NoteWith(v, m)', m # n
          PROVE  /\ \A u \in Out!Senders \ {v} : ~NoteWith(u, m)'
                 /\ work'[v].step = "send" \/ work'[v].got # "sent" => told'[m] = 0
      <4>1. v # w /\ m \notin unsure /\ told'[m] = told[m] /\ work'[v] = work[v]
        BY <1>4, <1>6, <1>7, <1>8, <1>13, <3>1 DEF NoteWith
      <4> QED
        BY <1>11, <3>1, <4>1 DEF NotesInv
    <3>2. ASSUME NEW v \in Out!Senders, n \notin unsure', NoteWith(v, n)'
          PROVE  /\ \A u \in Out!Senders \ {v} : ~NoteWith(u, n)'
                 /\ work'[v].step = "send" \/ work'[v].got # "sent" => told'[n] = 0
      <4>1. v = w
        BY <1>2, <1>7, <1>11, <1>12, <3>2
      <4> QED
        BY <1>2, <1>4, <1>6, <1>7, <1>8, <1>11, <1>12, <3>2, <4>1
    <3> QED
      BY <3>1, <3>2
  <2>3. \A m \in Notes : m \in there' \cup work'["leave"].todo =>
          /\ outRow'[m] = "none" /\ told'[m] = 0
          /\ \A v \in Out!Senders : ~NoteWith(v, m)'
    BY <1>4, <1>5, <1>6, <1>8, <1>10, <1>11, <1>13 DEF NotesInv
  <2>4. \A m \in Notes \ unsure' : told'[m] < 2
    <3>1. told[n] \in 0..2 /\ told'[n] \in 0..2
      BY <1>2, <1>8 DEF Out!TypeOK
    <3> QED
      BY <1>7, <1>8, <1>12, <1>13, <3>1 DEF NotesInv
  <2> QED
    BY <1>4, <1>5, <1>6, <1>13, <2>1, <2>2, <2>3, <2>4 DEF NotesInv
<1>15. SaidInv'
  <2>1. \A i \in Out!Items : told[i] \in Nat /\ told'[i] \in Nat /\ told[i] <= told'[i]
    BY <1>8 DEF Out!TypeOK
  <2>2. Out!RecordsAreTrue'
    BY <1>5, <2>1 DEF SaidInv, Out!RecordsAreTrue, Out!TypeOK
  <2>3. \A j \in {"remind", "idle"} : run'[j].step = "log" /\ run'[j].got = "ok" => told'[run'[j].item] > 0
    BY <1>5, <2>1, JobsAre DEF SaidInv, ShapesInv
  <2>4. \A v \in Out!Senders : work'[v].step = "mark" /\ work'[v].got = "sent" => told'[work'[v].item] > 0
    BY <1>0, <1>4, <1>6, <1>8, <1>13, <2>1 DEF SaidInv, ShapesInv
  <2> QED
    BY <2>2, <2>3, <2>4 DEF SaidInv
<1>16. \A i \in Out!Items \ Notes : told'[i] = told[i]
  BY <1>2, <1>8
<1> QED
  BY <1>5, <1>6, <1>7, <1>9, <1>14, <1>15, <1>16, NotesOnlyKeeps DEF NotesOnly

LEMMA MarkStep == ASSUME Out!OutreachAssumption, OutInv, NEW w \in Out!Senders, Out!MarkNotice(w) PROVE OutInv'
<1> USE DEF OutInv
<1>0. PICK n \in Notes : n = work[w].item
  BY DEF ShapesInv, Out!MarkNotice
<1>1. PICK on \in BOOLEAN :
        /\ on => outRow[n] # "none"
        /\ outRow' = IF on THEN [outRow EXCEPT ![n] = work[w].got] ELSE outRow
        /\ said' = IF on THEN IF work[w].got = "sent" THEN said \cup {n} ELSE said \ {n} ELSE said
        /\ unsure' = IF ~on /\ work[w].got = "sent" THEN unsure \cup {n} ELSE unsure
        /\ work' = [work EXCEPT ![w].step = "next"]
  <2>1. PICK written \in BOOLEAN :
          LET on == written /\ outRow[n] # "none" IN
          /\ outRow' = IF on THEN [outRow EXCEPT ![n] = work[w].got] ELSE outRow
          /\ said' = IF on THEN IF work[w].got = "sent" THEN said \cup {n} ELSE said \ {n} ELSE said
          /\ unsure' = IF ~on /\ work[w].got = "sent" THEN unsure \cup {n} ELSE unsure
          /\ work' = [work EXCEPT ![w].step = "next"]
    BY <1>0 DEF Out!MarkNotice
  <2>2. CASE written /\ outRow[n] # "none"
    BY <2>1, <2>2
  <2>3. CASE ~(written /\ outRow[n] # "none")
    BY <2>1, <2>3
  <2> QED
    BY <2>2, <2>3
<1> DEFINE r == [work[w] EXCEPT !.step = "next"]
<1>2. work[w] \in WorkRecs /\ work[w].step = "mark" /\ n \in Out!Items
  BY DEF ShapesInv, Out!MarkNotice, Out!Items
<1>3. work' = [work EXCEPT ![w] = r]
  BY <1>1, <1>2 DEF ShapesInv
<1>4. r \in WorkRecs /\ r.step = "next" /\ r.todo = work[w].todo
  BY <1>2 DEF WorkRecs
<1> HIDE DEF r
<1>5. UNCHANGED <<outClock, up, there, log, run, fired, ends, warned, over, told>>
  BY DEF Out!MarkNotice, Out!Quietly, Out!jobs, Out!subs
<1>6. ShapesInv' /\ work'[w] = r /\ \A v \in Out!Senders \ {w} : work'[v] = work[v]
  BY <1>2, <1>3, <1>4, <1>5, SenderMoves
<1>7. unsure \subseteq unsure' /\ unsure' \subseteq unsure \cup {n}
  BY <1>1
<1>8. work[w].got \in {"sent", "failed", "skipped"}
  BY <1>2 DEF WorkRecs, ShapesInv
<1>9. outRow' \in [Notes -> {"none", "pending", "sent", "failed", "skipped"}] /\ (\A m \in Notes \ {n} : outRow'[m] = outRow[m])
      /\ (on => outRow'[n] = work[w].got) /\ (~on => outRow' = outRow)
  BY <1>0, <1>1, <1>8 DEF Out!TypeOK
<1>10. Out!TypeOK'
  <2>1. said' \subseteq Out!Items /\ unsure' \subseteq Out!Items
    BY <1>1, <1>2 DEF Out!TypeOK
  <2> QED
    BY <1>4, <1>5, <1>6, <1>9, <2>1 DEF Out!TypeOK
<1>11. n \notin there /\ n \notin work["leave"].todo /\ NoteWith(w, n)
  BY <1>0, <1>2 DEF NotesInv, NoteWith
<1>12. \A v \in Out!Senders, m \in Notes : /\ NoteWith(v, m)' <=> NoteWith(v, m) /\ v # w
                                           /\ NoteWith(w, m) => m = n
  BY <1>0, <1>2, <1>4, <1>6 DEF NoteWith
<1>13. n \notin unsure => /\ \A v \in Out!Senders \ {w} : ~NoteWith(v, n)
                          /\ (work[w].got # "sent" => told[n] = 0)
                          /\ told[n] < 2
  BY <1>0, <1>2, <1>11 DEF NotesInv
<1>14. Admins \subseteq Out!Senders /\ "leave" \in Out!Senders /\ Notes \subseteq Out!Items
  BY DEF Out!Senders, Out!Items
<1>15. \A v \in Admins : \A m \in work'[v].todo : outRow'[m] # "none"
  BY <1>4, <1>6, <1>8, <1>9, <1>14 DEF NotesInv, ShapesInv, WorkRecs
<1>16. NotesInv'
  <2>1. \A m \in Notes \ unsure' : told'[m] > 0 => outRow'[m] = "sent" \/ \E v \in Out!Senders : (work[v].step = "mark" /\ NoteWith(v, m) /\ work[v].got = "sent")'
    <3>1. ASSUME NEW m \in Notes \ unsure', m # n, told'[m] > 0
          PROVE  outRow'[m] = "sent" \/ \E v \in Out!Senders : (work[v].step = "mark" /\ NoteWith(v, m) /\ work[v].got = "sent")'
      <4>1. told[m] > 0 /\ m \notin unsure /\ ~NoteWith(w, m)
        BY <1>5, <1>7, <1>12, <3>1
      <4> QED
        BY <1>6, <1>9, <1>12, <3>1, <4>1 DEF NotesInv
    <3>2. ASSUME n \notin unsure', told'[n] > 0 PROVE outRow'[n] = "sent"
      BY <1>0, <1>1, <1>2, <1>5, <1>7, <1>9, <1>11, <1>13, <3>2
    <3> QED
      BY <3>1, <3>2
  <2>2. \A m \in Notes \ unsure', v \in Out!Senders : NoteWith(v, m)' =>
                /\ \A u \in Out!Senders \ {v} : ~NoteWith(u, m)'
                /\ work'[v].step = "send" \/ work'[v].got # "sent" => told'[m] = 0
    BY <1>5, <1>6, <1>7, <1>12 DEF NotesInv
  <2>3. \A m \in Notes : m \in there' \cup work'["leave"].todo =>
          /\ outRow'[m] = "none" /\ told'[m] = 0
          /\ \A v \in Out!Senders : ~NoteWith(v, m)'
    BY <1>4, <1>5, <1>6, <1>9, <1>11, <1>12, <1>14 DEF NotesInv
  <2> QED
    BY <1>4, <1>5, <1>6, <1>7, <1>14, <1>15, <2>1, <2>2, <2>3 DEF NotesInv
<1>17. SaidInv'
  <2>1. \A i \in said' : told'[i] > 0
    BY <1>0, <1>1, <1>2, <1>5 DEF SaidInv, Out!RecordsAreTrue
  <2> QED
    BY <1>4, <1>5, <1>6, <2>1 DEF SaidInv, Out!RecordsAreTrue
<1> QED
  BY <1>5, <1>6, <1>7, <1>10, <1>16, <1>17, NotesOnlyKeeps DEF NotesOnly

LEMMA EndNoticesStep == ASSUME Out!OutreachAssumption, OutInv, NEW w \in Out!Senders, Out!EndNotices(w) PROVE OutInv'
<1> USE DEF OutInv
<1>1. work[w].step = "next" /\ work' = [work EXCEPT ![w] = Out!Rest]
      /\ UNCHANGED <<outClock, up, there, log, run, fired, ends, warned, over, outRow, said, told, unsure>>
  BY DEF Out!EndNotices, Out!Quietly, Out!jobs, Out!subs
<1>2. Out!Rest \in WorkRecs /\ Out!Rest.step = "rest" /\ Out!Rest.todo = {}
  BY DEF WorkRecs, Out!Rest
<1>3. ShapesInv' /\ work'[w] = Out!Rest /\ \A v \in Out!Senders \ {w} : work'[v] = work[v]
  BY <1>1, <1>2, SenderMoves
<1>4. Out!TypeOK'
  BY <1>1, <1>2, <1>3 DEF Out!TypeOK
<1>5. \A v \in Out!Senders, n \in Notes : (NoteWith(v, n)' <=> NoteWith(v, n)) /\ ~NoteWith(w, n)
  BY <1>1, <1>2, <1>3 DEF NoteWith
<1>6. Admins \subseteq Out!Senders /\ "leave" \in Out!Senders
  BY DEF Out!Senders
<1>7. NotesInv'
  <2>1. \A m \in Notes \ unsure' : told'[m] > 0 => outRow'[m] = "sent" \/ \E v \in Out!Senders : (work[v].step = "mark" /\ NoteWith(v, m) /\ work[v].got = "sent")'
    BY <1>1, <1>2, <1>3, <1>5 DEF NotesInv
  <2>2. \A m \in Notes \ unsure', v \in Out!Senders : NoteWith(v, m)' =>
                /\ \A u \in Out!Senders \ {v} : ~NoteWith(u, m)'
                /\ work'[v].step = "send" \/ work'[v].got # "sent" => told'[m] = 0
    BY <1>1, <1>2, <1>3, <1>5 DEF NotesInv
  <2>3. \A n \in Notes : n \in there' \cup work'["leave"].todo =>
          /\ outRow'[n] = "none" /\ told'[n] = 0
          /\ \A v \in Out!Senders : ~NoteWith(v, n)'
    BY <1>1, <1>2, <1>3, <1>5, <1>6 DEF NotesInv
  <2> QED
    BY <1>1, <1>2, <1>3, <1>6, <2>1, <2>2, <2>3 DEF NotesInv
<1>8. SaidInv'
  BY <1>1, <1>2, <1>3 DEF SaidInv, Out!RecordsAreTrue
<1> QED
  BY <1>1, <1>3, <1>4, <1>7, <1>8, NotesOnlyKeeps DEF NotesOnly

------------------------------------------------------------------------------
(* What happens around the jobs and the notices *)

LEMMA LeaveKeeps == ASSUME Out!OutreachAssumption, OutInv, NEW i \in Out!Items, Out!Leave(i) PROVE OutInv'
<1> USE DEF OutInv
<1>1. there' \subseteq there /\ there' \cap Subs \subseteq there
      /\ UNCHANGED <<outClock, up, log, run, fired, outRow, work, ends, warned, over, said, told, unsure>>
  BY DEF Out!Leave, Out!jobs, Out!notices, Out!subs
<1>2. NotesInv' /\ SaidInv' /\ Out!TypeOK' /\ ShapesInv'
  BY <1>1 DEF NotesInv, NoteWith, SaidInv, Out!RecordsAreTrue, Out!TypeOK, ShapesInv
<1> QED
  BY <1>1, <1>2, NotesOnlyKeeps DEF NotesOnly

LEMMA RenewKeeps == ASSUME Out!OutreachAssumption, OutInv, NEW s \in Subs, NEW t \in Subs, Out!Renew(s, t) PROVE OutInv'
<1> USE DEF OutInv
<1>1. there' = (there \ {s}) \cup {t} /\ ends' = [ends EXCEPT ![t] = outClock + Period] /\ t \notin warned \cup over
      /\ UNCHANGED <<outClock, up, log, run, fired, outRow, work, warned, over, said, told, unsure>>
  BY DEF Out!Renew, Out!jobs, Out!notices
<1>2. outClock \in Nat /\ Period \in Nat \ {0} /\ ends \in [Subs -> Int] /\ t \in Out!Items /\ t \notin Notes
  BY ItemsApart, JobsAre DEF Out!TypeOK, Out!OutreachAssumption, ShapesInv
<1>3. Out!TypeOK' /\ ShapesInv'
  BY <1>1, <1>2 DEF Out!TypeOK, ShapesInv
<1>4. NotesInv'
  <2>1. work["leave"].todo \subseteq Notes /\ \A n \in Notes : n \in there' => n \in there
    BY <1>1, <1>2 DEF ShapesInv, WorkRecs, Out!Senders
  <2> QED
    BY <1>1, <2>1 DEF NotesInv, NoteWith
<1>8. SaidInv' /\ RemindInv' /\ IdleInv' /\ LifecycleInv'
  BY <1>1 DEF SaidInv, Out!RecordsAreTrue, RemindInv, IdleInv, LifecycleInv, Holds
<1>5. \A x \in Subs : ends'[x] = IF x = t THEN outClock + Period ELSE ends[x]
  BY <1>1, <1>2
<1>6. InTime(t)'
  BY <1>1, <1>2, <1>5 DEF InTime
<1>7. SubsInv'
  BY <1>1, <1>5, <1>6 DEF SubsInv, InTime, Warning, Holds, Out!WarnedBeforeOver
<1> QED
  BY <1>3, <1>4, <1>7, <1>8

LEMMA CrashKeeps == ASSUME Out!OutreachAssumption, OutInv, Out!Crash PROVE OutInv'
<1> USE DEF OutInv
<1>1. run' = [j \in Out!Jobs |-> Out!Off] /\ work' = [w \in Out!Senders |-> Out!Rest]
      /\ up' = FALSE /\ UNCHANGED <<outClock, there, log, fired, outRow, ends, warned, over, said, told>>
  BY DEF Out!Crash, Out!subs
<1>2. /\ unsure \subseteq unsure' /\ Subs \cap there \subseteq unsure'
      /\ \A j \in Out!Jobs : run[j].step = "log" /\ run[j].got \in {"ok", "lost"} => run[j].item \in unsure'
      /\ \A w \in Out!Senders : work[w].step = "mark" /\ work[w].got = "sent" => work[w].item \in unsure'
  BY DEF Out!Crash
<1>3. unsure' \subseteq Out!Items
  <2>1. \A j \in Out!Jobs : run[j].step = "log" => run[j].item \in Out!Items
    BY JobsAre DEF ShapesInv
  <2>2. Notes \subseteq Out!Items
    BY DEF Out!Items
  <2>3. \A w \in Out!Senders : work[w].step = "mark" => work[w].item \in Out!Items
    BY <2>2 DEF ShapesInv
  <2> QED
    BY <2>1, <2>3 DEF Out!Crash, Out!TypeOK
<1>4. Out!Off \in RunRecs /\ Out!Rest \in WorkRecs
  BY DEF RunRecs, WorkRecs, Out!Off, Out!Rest
<1>5. \A j \in Out!Jobs : run'[j] = Out!Off /\ run'[j].step = "off" /\ run'[j].todo = {} /\ run'[j].got = "none"
  BY <1>1 DEF Out!Off
<1>6. \A w \in Out!Senders : work'[w] = Out!Rest /\ work'[w].step = "rest" /\ work'[w].todo = {}
  BY <1>1 DEF Out!Rest
<1>7. Out!TypeOK' /\ ShapesInv'
  <2>1. run' \in [Out!Jobs -> RunRecs] /\ work' \in [Out!Senders -> WorkRecs]
    BY <1>1, <1>4
  <2>2. Out!TypeOK'
    BY <1>1, <1>3, <1>5, <1>6 DEF Out!TypeOK
  <2>3. "subscription" \in Out!Jobs
    BY JobsAre
  <2> QED
    BY <1>1, <1>5, <1>6, <2>1, <2>2, <2>3 DEF ShapesInv
<1>8. RemindInv'
  BY <1>1, <1>2, <1>5, JobsAre DEF RemindInv
<1>9. IdleInv' /\ LifecycleInv'
  BY <1>1, <1>2, <1>5, JobsAre DEF IdleInv, LifecycleInv, Holds
<1>10. SubsInv'
  BY <1>1, <1>2, <1>5, JobsAre DEF SubsInv, Holds, Warning, Out!WarnedBeforeOver
<1>11. Admins \subseteq Out!Senders /\ "leave" \in Out!Senders
  BY DEF Out!Senders
<1>12. NotesInv'
  BY <1>1, <1>2, <1>6, <1>11 DEF NotesInv, NoteWith
<1>13. SaidInv'
  BY <1>1, <1>5, <1>6, JobsAre DEF SaidInv, Out!RecordsAreTrue
<1> QED
  BY <1>7, <1>8, <1>9, <1>10, <1>12, <1>13

LEMMA TickKeeps == ASSUME Out!OutreachAssumption, OutInv, Out!Tick PROVE OutInv'
<1> USE DEF OutInv
<1>1. /\ outClock' = outClock + 1 /\ outClock < MaxClock /\ fired' = {}
      /\ UNCHANGED <<up, there, log, run, outRow, work, ends, warned, over, said, told>>
  BY DEF Out!Tick, Out!notices, Out!subs
<1>2. /\ unsure \subseteq unsure' /\ unsure' \subseteq unsure \cup Out!Items
      /\ up \/ Subs \cap there \subseteq unsure'
      /\ run["subscription"] = Out!Off
      /\ up => "subscription" \in fired \/ Out!Ending = {}
  BY JobsAre DEF Out!Tick, ShapesInv, Out!Listed, Out!Items
<1>3. outClock \in 0..MaxClock /\ MaxClock \in Nat /\ ends \in [Subs -> Int]
  BY DEF Out!TypeOK, Out!OutreachAssumption, ShapesInv
<1>4. Out!TypeOK' /\ ShapesInv' /\ RemindInv' /\ IdleInv' /\ LifecycleInv' /\ NotesInv' /\ SaidInv'
  BY <1>1, <1>2, <1>3 DEF Out!TypeOK, ShapesInv, RemindInv, IdleInv, LifecycleInv, Holds, NotesInv, NoteWith, SaidInv, Out!RecordsAreTrue
<1>5. run["subscription"].step = "off" /\ run["subscription"].todo = {}
  BY <1>2 DEF Out!Off
<1>6. ASSUME NEW s \in Subs \ (warned' \cup unsure'), s \in there PROVE InTime(s)'
  <2>1. up /\ InTime(s)
    BY <1>1, <1>2, <1>5, <1>6 DEF SubsInv, Warning, Holds
  <2>2. CASE outClock % 2 = 1
    BY <1>1, <1>2, <1>3, <1>5, <2>1, <2>2 DEF InTime
  <2>3. CASE outClock % 2 = 0 /\ "subscription" \in fired
    BY <1>1, <1>2, <1>3, <1>5, <2>1, <2>3 DEF InTime
  <2>4. CASE outClock % 2 = 0 /\ "subscription" \notin fired
    <3>1. ends[s] > outClock + 6
      BY <1>2, <1>3, <1>6, <2>1, <2>4 DEF Out!Ending
    <3> QED
      BY <1>1, <1>3, <2>4, <3>1 DEF InTime
  <2> QED
    BY <1>3, <2>2, <2>3, <2>4
<1>7. SubsInv'
  BY <1>1, <1>2, <1>5, <1>6 DEF SubsInv, Holds, Warning, Out!WarnedBeforeOver
<1> QED
  BY <1>4, <1>7

LEMMA OutStarts == ASSUME Out!OutreachAssumption, Out!Init PROVE OutInv
<1>1. Out!Off \in RunRecs /\ Out!Rest \in WorkRecs /\ 0 \in 0..2 /\ 0 \in 0..MaxClock
  BY DEF RunRecs, WorkRecs, Out!Off, Out!Rest, Out!OutreachAssumption
<1>2. \A j \in Out!Jobs : run[j] = Out!Off /\ run[j].step = "off" /\ run[j].todo = {} /\ run[j].got = "none"
  BY DEF Out!Init, Out!Off
<1>3. \A w \in Out!Senders : work[w] = Out!Rest /\ work[w].step = "rest" /\ work[w].todo = {} /\ work[w].got = "none"
  BY DEF Out!Init, Out!Rest
<1>4. ends \in [Subs -> Int] /\ \A s \in Subs : ends[s] >= 0
  <2>1. ends \in [Subs -> Ends] /\ Ends \subseteq Nat
    BY DEF Out!Init, Out!OutreachAssumption
  <2>2. \A s \in Subs : ends[s] \in Ends
    BY <2>1
  <2>3. \A s \in Subs : ends[s] \in Nat
    BY Zenon, <2>1, <2>2
  <2>4. ends \in [Subs -> Nat]
    BY Zenon, <2>1, <2>3
  <2> QED
    BY <2>4
<1>5. Out!TypeOK /\ ShapesInv
  BY <1>1, <1>2, <1>3, <1>4 DEF Out!Init, Out!TypeOK, ShapesInv
<1>6. RemindInv /\ IdleInv /\ LifecycleInv /\ SaidInv
  BY <1>2, <1>3, JobsAre DEF Out!Init, RemindInv, IdleInv, LifecycleInv, Holds, SaidInv, Out!RecordsAreTrue, Out!Nodes, Out!Items, Out!Timed
<1>7. SubsInv
  BY <1>2, <1>4, JobsAre DEF Out!Init, SubsInv, InTime, Warning, Holds, Out!WarnedBeforeOver
<1>8. Admins \subseteq Out!Senders /\ "leave" \in Out!Senders /\ Notes \subseteq Out!Items
  BY DEF Out!Senders, Out!Items
<1>9. NotesInv
  BY <1>3, <1>8 DEF Out!Init, NotesInv, NoteWith
<1> QED
  BY <1>5, <1>6, <1>7, <1>9 DEF OutInv

LEMMA OutKeeps == ASSUME Out!OutreachAssumption, OutInv, [Out!Next]_Out!vars PROVE OutInv'
<1>1. ASSUME NEW j \in Out!Jobs, Out!Fire(j) \/ Out!Reach(j) \/ Out!Send(j) \/ Out!Record(j) \/ Out!Deadline(j) \/ Out!Finish(j) PROVE OutInv'
  BY <1>1, JobKeeps DEF JobStep
<1>2. ASSUME NEW w \in Admins, Out!AskRetry(w) \/ Out!AskRetryAll(w) PROVE OutInv'
  <2>1. CASE Out!AskRetry(w)
    BY <2>1, TakeStep DEF Out!AskRetry
  <2>2. CASE Out!AskRetryAll(w)
    BY <2>2, TakeStep DEF Out!AskRetryAll
  <2> QED
    BY <1>2, <2>1, <2>2
<1>3. CASE Out!Restart
  <2>1. run' = run /\ UNCHANGED <<outClock, there, log, fired, outRow, work, ends, warned, over, said, told, unsure>> /\ up' = TRUE
    BY <1>3 DEF Out!Restart, Out!jobs, Out!notices, Out!subs
  <2> QED
    BY <2>1 DEF OutInv, Out!TypeOK, ShapesInv, RemindInv, IdleInv, LifecycleInv, Holds, SubsInv, InTime, Warning, Out!WarnedBeforeOver,
                NotesInv, NoteWith, SaidInv, Out!RecordsAreTrue
<1>4. CASE UNCHANGED Out!vars
  BY <1>4 DEF Out!vars, Out!jobs, Out!notices, Out!subs, OutInv, Out!TypeOK, ShapesInv, RemindInv, IdleInv, LifecycleInv, Holds, SubsInv, InTime,
              Warning, Out!WarnedBeforeOver, NotesInv, NoteWith, SaidInv, Out!RecordsAreTrue
<1> QED
  BY <1>1, <1>2, <1>3, <1>4, StartStep, OpenStep, ReadStep, DeliveryStep, MarkStep, EndNoticesStep, LeaveKeeps, RenewKeeps,
     CrashKeeps, TickKeeps DEF Out!Next

LEMMA OutTells == ASSUME OutInv PROVE Out!SaidOnce
BY JobsAre DEF OutInv, Out!SaidOnce, Out!TypeOK, RemindInv, IdleInv, LifecycleInv, NotesInv, Out!Nodes, Out!Items, Out!Timed

\* For any appointments, customers, subscriptions, notices and requests that retry them, whatever fails
\* and whenever the process stops: nobody is told a thing twice and nothing is called sent that did not
\* arrive, but for what a lost answer left unsure; and a shop learns that its subscription is over after
\* it was warned of it (cron/, storage/notification.go).
THEOREM OutreachTellsTrue == PartSpec => []OutreachIsTrue
<1> USE OutAssumption
<1> DEFINE I == part = "outreach" => OutInv
<1>1. PartInit => I
  BY OutStarts DEF PartInit
<1>2. I /\ [PartNext]_allVars => I'
  <2> SUFFICES ASSUME I, [PartNext]_allVars, part' = "outreach" PROVE OutInv'
    OBVIOUS
  <2>1. part = "outreach" /\ [Out!Next]_Out!vars
    BY DEF PartNext, allVars, OutVars, Out!vars, Out!jobs, Out!notices, Out!subs
  <2> QED
    BY <2>1, OutKeeps
<1>3. I => OutreachIsTrue
  BY OutTells DEF OutreachIsTrue, OutInv, SaidInv, SubsInv
<1> QED
  BY <1>1, <1>2, <1>3, PTL DEF PartSpec
==============================================================================
