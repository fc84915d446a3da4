--------------------------- MODULE MCBookingCore ---------------------------
(***************************************************************************)
(* Instance for TLC: one afternoon of a shop with two staff members and    *)
(* two chairs.  Bookings bkA and bkB want the same person and chair at     *)
(* overlapping times; bkN, the replacement of bkOld, overlaps bkOld itself *)
(* and wants the chair of bkB.                                             *)
(***************************************************************************)
EXTENDS BookingCore, TLC

CONSTANTS
    w1, w2,
    bkA, bkB, bkN, bkN2, bkN3, bkOld, bkOld2,
    ka, kb, kc, kn, kd, ke,
    ann, bob, chair1, chair2

Ask(idem, request, start, end, staff, resources) ==
    [idem |-> idem, request |-> request, start |-> start, end |-> end,
     staff |-> staff, locks |-> {staff} \cup resources]

MCRequests == {"cut", "perm"}
AllDetails ==
       bkA   :> Ask(ka, "cut", 0, 2, ann, {chair1})
    @@ bkB   :> Ask(kb, "cut", 1, 3, ann, {chair1})
    @@ bkN   :> Ask(kn, "perm", 2, 4, bob, {chair1})
    @@ bkN2  :> Ask(kn, "perm", 2, 4, bob, {chair2})
    @@ bkN3  :> Ask(kn, "cut", 2, 4, ann, {chair1})
    @@ bkOld :> Ask(kd, "perm", 3, 4, bob, {})
    @@ bkOld2 :> Ask(ke, "perm", 4, 5, ann, {chair2})

\* Only the bookings and keys that the calls of the run name.
MCWorkers  == {w1, w2}
MCBookings == UNION {{c.old, c.new} : c \in Calls} \ {NoBooking}
MCIdemKeys == {c.key : c \in Calls} \cup {AllDetails[b].idem : b \in MCBookings}
MCLockKeys == {ann, bob, chair1, chair2}
MCRank     == ann :> 1 @@ bob :> 2 @@ chair1 :> 3 @@ chair2 :> 4
MCSeeded   == {bkOld, bkOld2} \cap MCBookings
MCDetails  == [b \in MCBookings |-> AllDetails[b]]

NewCall(op, key, from, to) == [op |-> op, key |-> key, old |-> from, new |-> to]

CreateA  == NewCall("create", ka, NoBooking, bkA)
CreateB  == NewCall("create", kb, NoBooking, bkB)
Cancel   == NewCall("cancel", kc, bkOld, NoBooking)
Cancel2  == NewCall("cancel", kc, bkOld2, NoBooking)
Move     == NewCall("reschedule", kn, bkOld, bkN)

CreateN2 == NewCall("create", kn, NoBooking, bkN2)
CreateN3 == NewCall("create", kn, NoBooking, bkN3)

\* A new booking competes for ann and chair1 with a reschedule, which competes with
\* a cancellation of the booking it moves; the key of the reschedule is then used
\* for a different booking (bkN3), which wants ann as well.
CompetingCalls == {CreateB, Move, Cancel, CreateN3}

\* A new booking competes with a reschedule for chair1, with another staff member,
\* and the key of the reschedule is used again for an equal booking (bkN2).
LostLockCalls == {CreateB, Move, CreateN2}

\* A reschedule races a cancellation of the same booking, and the key of the
\* cancellation is used for two bookings, while the reconciler is at work.
OutcomeCalls == {Cancel, Cancel2, Move}

OneCreate  == {CreateA}
TwoCancels == {Cancel, Cancel2}

Interchangeable == Permutations(MCWorkers)
============================================================================
