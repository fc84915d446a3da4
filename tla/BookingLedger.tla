---------------------------- MODULE BookingLedger ----------------------------
(***************************************************************************)
(* What the booking store promises, with no locks, no retries and no       *)
(* processes: a table of bookings of one location and a journal of the     *)
(* events that describe every change of it.  A booking is taken, given     *)
(* back or moved in ONE step, and no step makes two live bookings clash.   *)
(***************************************************************************)

CONSTANTS
    Bookings,       \* booking ids
    NoBooking,      \* the old booking of an event that has none
    Seeded,         \* bookings already confirmed when the system starts
    Clash(_, _)     \* two bookings cannot be live together

VARIABLES
    rows,           \* Bookings -> status of the row
    journal         \* the events written so far

LiveRows == {b \in Bookings : rows[b] \in {"pending", "confirmed"}}

Event(type, b, old) == [type |-> type, booking |-> b, old |-> old]

\* b may become live when the bookings in keep stay live.
Fits(b, keep) == \A c \in keep : ~Clash(b, c)

Init ==
    /\ rows = [b \in Bookings |-> IF b \in Seeded THEN "confirmed" ELSE "absent"]
    /\ journal = {}

Take(b) ==
    /\ journal' = journal \cup {Event("created", b, NoBooking)}
    /\ rows' = [rows EXCEPT ![b] = "pending"]
    /\ rows[b] = "absent"
    /\ Fits(b, LiveRows)

\* b is a live row.
GiveBack(b) ==
    /\ journal' = journal \cup {Event("cancelled", b, NoBooking)}
    /\ rows' = [rows EXCEPT ![b] = "cancelled"]

\* The old booking, a live row, is given up if and only if its replacement is taken.
Move(old, b) ==
    /\ journal' = journal \cup {Event("rescheduled", b, old)}
    /\ rows' = [rows EXCEPT ![old] = "cancelled", ![b] = "pending"]
    /\ rows[b] = "absent"
    /\ Fits(b, LiveRows \ {old})

\* No row changes without an event of its own.
Next ==
    /\ journal' # journal
    /\ \/ \E b \in Bookings : Take(b)
       \/ \E b \in LiveRows : GiveBack(b) \/ \E new \in Bookings : Move(b, new)

Spec == Init /\ [][Next]_<<rows, journal>>
==============================================================================
