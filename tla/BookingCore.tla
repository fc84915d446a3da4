----------------------------- MODULE BookingCore -----------------------------
(***************************************************************************)
(* The booking kernel of storage/booking_core.go: creating, cancelling and *)
(* rescheduling a booking under ordered Redis locks, one SQL transaction   *)
(* and a durable outcome record per idempotency key, with the reconciler   *)
(* of storage/operation_outcome.go.                                        *)
(*                                                                         *)
(* A worker is one request in flight.  Its steps are cut at every point    *)
(* where another process can run: after the outcome row, at each Redis     *)
(* command, between the read that fixes the snapshot of the transaction    *)
(* and its locking reads, between those and the commit, before the outcome *)
(* becomes final, before the re-read that verifies it, and before the      *)
(* locks are given back.  The transactions run at the default isolation    *)
(* level of MySQL: plain reads come from the snapshot, locking reads and   *)
(* unique keys from the table as it is.                                    *)
(***************************************************************************)
EXTENDS Naturals, FiniteSets

CONSTANTS
    Workers,            \* requests that may be in flight together
    Bookings,           \* booking ids
    IdemKeys,           \* idempotency keys, customer scope included
    LockKeys,           \* Redis lock keys: one per staff member or resource
    Requests,           \* what a booking asks for, its interval aside
    Details,            \* Bookings -> idempotency key, request, interval, staff
                        \* member, lock keys
    Rank,               \* LockKeys -> Nat, the lexicographic order of the keys
    Calls,              \* the calls clients may make
    Seeded,             \* bookings already confirmed in the table
    NoBooking, NoCall, Free, Orphan,
    GapLocks,           \* do locking reads block inserts into the range read?
    AmbiguousCommit,    \* may a commit take effect and still report an error?
    ReaderRejects,      \* may the reconciler's reader conclude "rejected"?
    MaxAttempts,        \* OutcomeReconcilePolicy.MaxAttempts
    MaxLosses,          \* bound: locks that vanish under a running holder
    MaxCrashes,         \* bound: requests that die half way
    MaxPasses           \* bound: passes of the reconciler

OpNames == {"create", "cancel", "reschedule"}
OpIds == OpNames \X IdemKeys

ASSUME ConstantsOK ==
    /\ NoBooking \notin Bookings
    /\ NoCall \notin Calls
    /\ Free \notin Workers
    /\ Orphan \notin Workers
    /\ Free # Orphan
    /\ GapLocks \in BOOLEAN
    /\ AmbiguousCommit \in BOOLEAN
    /\ ReaderRejects \in BOOLEAN
    /\ MaxAttempts \in Nat \ {0}
    /\ MaxLosses \in Nat
    /\ MaxCrashes \in Nat
    /\ MaxPasses \in Nat

ASSUME DetailsOK ==
    /\ Details \in [Bookings -> [idem : IdemKeys, request : Requests, start : Nat, end : Nat,
                                 staff : LockKeys, locks : SUBSET LockKeys]]
    /\ \A b \in Bookings : Details[b].staff \in Details[b].locks

Claims(b) == Details[b].locks

\* Half-open intervals.
Overlaps(b, c) ==
    /\ Details[b].start < Details[c].end
    /\ Details[c].start < Details[b].end

\* One staff member or exclusive resource is asked for twice at a time.
Clash(b, c) == b # c /\ Overlaps(b, c) /\ Claims(b) \cap Claims(c) # {}

\* The table starts without a double booking.
ASSUME SeededOK ==
    /\ Seeded \subseteq Bookings
    /\ \A b, c \in Seeded : ~Clash(b, c)

\* Two lock keys never sort equal.
ASSUME RankOK ==
    /\ Rank \in [LockKeys -> Nat]
    /\ \A j, k \in LockKeys : Rank[j] = Rank[k] => j = k

\* A create call carries the key of its booking; a reschedule never replaces a
\* booking by itself (booking_core.go:302).
ASSUME CallsOK ==
    \A c \in Calls :
        /\ c.op \in OpNames
        /\ c.key \in IdemKeys
        /\ c.op = "create" => /\ c.new \in Bookings \ Seeded
                              /\ c.key = Details[c.new].idem
        /\ c.op = "cancel" => c.old \in Bookings
        /\ c.op = "reschedule" => /\ c.old \in Bookings
                                  /\ c.new \in Bookings \ Seeded
                                  /\ c.old # c.new

VARIABLES
    \* the database
    booking,    \* Bookings -> status of the row, "absent" before the insert
    outbox,     \* the outbox rows
    outcome,    \* OpIds -> the outcome record of (operation, idempotency key)
    made,       \* history: OpIds -> bookings changed by a commit of that call
    unseen,     \* Workers -> bookings committed since the snapshot of its last create
    \* Redis
    owner,      \* LockKeys -> the worker whose token is stored, or Free/Orphan
    \* one request each
    pc, call,
    need,       \* lock keys the request must hold
    got,        \* lock handles it has
    lost,       \* has its watchdog recorded a lost lock?
    rows,       \* rows locked by its open transaction
    res,        \* result under construction; the last answer when idle
    \* the reconciler
    recon,
    \* bounds
    losses, crashes, passes

table   == <<booking, outbox, made>>
db      == <<table, unseen>>
locals  == <<call, need, got, lost, rows, res>>
bounds  == <<losses, crashes, passes>>
vars    == <<booking, outbox, outcome, made, unseen, owner, pc, call, need, got, lost,
             rows, res, recon, losses, crashes, passes>>

------------------------------------------------------------------------------
(* Requests and records *)

BookingStatus == {"absent", "pending", "confirmed", "cancelled"}
OutcomeStatus == {"none", "pending", "confirmed", "rejected", "unknown", "needs_human"}
Terminal      == {"confirmed", "rejected", "needs_human"}

Op(c) == <<c.op, c.key>>
Inserts(c) == c.op \in {"create", "reschedule"}
GivesUp(c) == c.op \in {"cancel", "reschedule"}

Exists(b) == booking[b] # "absent"
Live(b)   == booking[b] \in {"pending", "confirmed"}

FindConflicts(b, occupied) == {c \in occupied : Clash(b, c)}

\* The row of a booking names its staff member; its resources are rows of
\* another table, read from the snapshot.
SeenClaims(w, c) == IF c \in unseen[w] THEN {Details[c].staff} ELSE Claims(c)
SeenConflicts(w, b, occupied) ==
    {c \in occupied : c # b /\ Overlaps(b, c) /\ Claims(b) \cap SeenClaims(w, c) # {}}

\* The comparison ignores the resources of the two requests, as the code does.
SameBookingRequest(b, c) ==
    /\ Details[b].request = Details[c].request
    /\ Details[b].start = Details[c].start
    /\ Details[b].end = Details[c].end

SameKey(b) == {e \in Bookings : Exists(e) /\ Details[e].idem = Details[b].idem}

\* The live rows of the location that a locking read of b's interval returns.
Occupied(b) == {c \in Bookings : Live(c) /\ Overlaps(b, c)}

\* A row locked by another open transaction cannot be read FOR UPDATE.
Unlocked(w, S) == \A v \in Workers \ {w} : rows[v] \cap S = {}

Result(kind, b) == [kind |-> kind, booking |-> b]
Failure(kind)   == Result(kind, NoBooking)
Ok(b)           == Result("ok", b)

AllowedTransition(from, to) ==
    \/ from = to
    \/ from = "pending" /\ to \in {"confirmed", "rejected", "unknown"}
    \/ from = "unknown" /\ to \in {"confirmed", "rejected", "needs_human"}

\* Mutant: the caller's idea of the status is checked, the stored one is not.
CanTransition_NoCompare(o, from, to, b) ==
    /\ AllowedTransition(from, to)
    /\ to = "confirmed" => b # NoBooking \/ outcome[o].booking # NoBooking

\* TransitionOperationOutcome compares the stored status with the expected one.
CanTransition(o, from, to, b) ==
    /\ outcome[o].status = from
    /\ AllowedTransition(from, to)
    /\ to = "confirmed" => b # NoBooking \/ outcome[o].booking # NoBooking

Transitioned(o, to, b) ==
    [outcome EXCEPT ![o] = [status   |-> to,
                            booking  |-> IF b = NoBooking THEN outcome[o].booking ELSE b,
                            attempts |-> outcome[o].attempts + 1]]

NoOutcome == [status |-> "none", booking |-> NoBooking, attempts |-> 0]
NoRecon == [phase |-> "idle", op |-> NoCall, from |-> "none", attempts |-> 0,
            seen |-> "none", booking |-> NoBooking]

Init ==
    /\ booking = [b \in Bookings |-> IF b \in Seeded THEN "confirmed" ELSE "absent"]
    /\ outbox = {}
    /\ outcome = [o \in OpIds |-> NoOutcome]
    /\ made = [o \in OpIds |-> {}]
    /\ unseen = [w \in Workers |-> {}]
    /\ owner = [k \in LockKeys |-> Free]
    /\ pc = [w \in Workers |-> "idle"]
    /\ call = [w \in Workers |-> NoCall]
    /\ need = [w \in Workers |-> {}]
    /\ got = [w \in Workers |-> {}]
    /\ lost = [w \in Workers |-> FALSE]
    /\ rows = [w \in Workers |-> {}]
    /\ res = [w \in Workers |-> Failure("none")]
    /\ recon = NoRecon
    /\ losses = 0
    /\ crashes = 0
    /\ passes = 0

------------------------------------------------------------------------------
(* Entering a call *)

Goto(w, label) == pc' = [pc EXCEPT ![w] = label]
Set(f, w, x)   == [f EXCEPT ![w] = x]

\* The request is over: only its call and its answer are remembered.
Finish(w, r) ==
    /\ Goto(w, "idle")
    /\ res' = Set(res, w, r)
    /\ need' = Set(need, w, {})
    /\ got' = Set(got, w, {})
    /\ lost' = Set(lost, w, FALSE)
    /\ rows' = Set(rows, w, {})

\* Mutant: a pending record of the key does not stop a second request.
Begin_IgnorePending(w, c) ==
    /\ pc[w] = "idle"
    /\ outcome[Op(c)].status \in {"none", "pending"}
    /\ outcome' = [outcome EXCEPT ![Op(c)].status = "pending"]
    /\ call' = Set(call, w, c)
    /\ res' = Set(res, w, Failure("none"))
    /\ IF c.op = "create"
          THEN need' = Set(need, w, Claims(c.new)) /\ Goto(w, "lock")
          ELSE UNCHANGED need /\ Goto(w, "load")
    /\ UNCHANGED <<db, owner, got, lost, rows, recon, bounds>>

\* The pending outcome of a new idempotency key is written before anything else.
Begin(w, c) ==
    /\ pc[w] = "idle"
    /\ outcome[Op(c)].status = "none"
    /\ outcome' = [outcome EXCEPT ![Op(c)].status = "pending"]
    /\ call' = Set(call, w, c)
    /\ res' = Set(res, w, Failure("none"))
    /\ IF c.op = "create"
          THEN need' = Set(need, w, Claims(c.new)) /\ Goto(w, "lock")
          ELSE UNCHANGED need /\ Goto(w, "load")
    /\ UNCHANGED <<db, owner, got, lost, rows, recon, bounds>>

\* A key seen before is answered from its outcome record alone.
ReplayAnswer(c) ==
    LET o == outcome[Op(c)]
    IN  CASE o.status = "confirmed" ->
               IF c.op = "create" /\ ~SameBookingRequest(o.booking, c.new)
               THEN Failure("idempotencyConflict") ELSE Ok(o.booking)
          [] o.status = "rejected" ->
               IF c.op = "cancel" THEN Failure("notCancellable") ELSE Failure("conflict")
          [] OTHER -> Failure("unknown")

Replay(w, c) ==
    /\ pc[w] = "idle"
    /\ outcome[Op(c)].status # "none"
    /\ call' = Set(call, w, c)
    /\ res' = Set(res, w, ReplayAnswer(c))
    /\ UNCHANGED <<db, outcome, owner, pc, need, got, lost, rows, recon, bounds>>

\* Mutant: a reschedule locks what it gives up and forgets what it asks for.
LoadKeys_OldOnly(w) ==
    LET c == call[w]
    IN  /\ pc[w] = "load"
        /\ need' = Set(need, w, IF Exists(c.old) THEN Claims(c.old) ELSE {})
        /\ Goto(w, "lock")
        /\ UNCHANGED <<db, outcome, owner, call, got, lost, rows, res, recon, bounds>>

\* The lock keys of the booking to give up are read without any lock.  A
\* booking that does not exist has none.
LoadKeys(w) ==
    LET c == call[w]
    IN  /\ pc[w] = "load"
        /\ need' = Set(need, w, (IF Exists(c.old) THEN Claims(c.old) ELSE {})
                                \cup (IF Inserts(c) THEN Claims(c.new) ELSE {}))
        /\ Goto(w, "lock")
        /\ UNCHANGED <<db, outcome, owner, call, got, lost, rows, res, recon, bounds>>

LoadFails(w) ==
    /\ pc[w] = "load"
    /\ res' = Set(res, w, Failure("error"))
    /\ Goto(w, "reject")
    /\ UNCHANGED <<db, outcome, owner, call, need, got, lost, rows, recon, bounds>>

------------------------------------------------------------------------------
(* Ordered locks *)

\* Mutant: any missing key may be tried next.
NextKey_AnyOrder(w, k) == k \in need[w] \ got[w]

\* The keys are taken one by one in the order of their names.
NextKey(w, k) ==
    /\ k \in need[w] \ got[w]
    /\ \A j \in need[w] \ got[w] : Rank[k] <= Rank[j]

Acquire(w, k) ==
    /\ pc[w] = "lock"
    /\ NextKey(w, k)
    /\ owner[k] = Free
    /\ owner' = [owner EXCEPT ![k] = w]
    /\ got' = Set(got, w, got[w] \cup {k})
    /\ UNCHANGED <<db, outcome, pc, call, need, lost, rows, res, recon, bounds>>

\* Mutant: the transaction starts as soon as one lock is held.
AllAcquired_OneIsEnough(w) ==
    /\ pc[w] = "lock"
    /\ got[w] # {} \/ need[w] = {}
    /\ Goto(w, "read")
    /\ UNCHANGED <<db, outcome, owner, locals, recon, bounds>>

AllAcquired(w) ==
    /\ pc[w] = "lock"
    /\ got[w] = need[w]
    /\ Goto(w, "read")
    /\ UNCHANGED <<db, outcome, owner, locals, recon, bounds>>

\* Mutant: a plain DEL of every key the request has a handle of.
Released_PlainDelete(w, answered) ==
    [k \in LockKeys |-> IF k \in got[w] /\ answered THEN Free
                        ELSE IF owner[k] = w THEN Orphan ELSE owner[k]]

\* Compare-and-delete: only keys that still hold the request's own token go.
\* When Redis does not answer they stay until their TTL runs out.
Released(w, answered) ==
    [k \in LockKeys |-> IF owner[k] = w THEN IF answered THEN Free ELSE Orphan
                                        ELSE owner[k]]

\* The next key stayed taken for the whole wait, SetNX failed, or the health
\* monitor has switched to read-only.  Keys taken so far are given back; the
\* outcome stays pending when Redis is unavailable and is rejected otherwise.
AcquireFails(w, why) ==
    /\ pc[w] = "lock"
    /\ \E k \in LockKeys : NextKey(w, k) /\ (why = "lockBusy" => owner[k] # Free)
    /\ \E answered \in BOOLEAN : owner' = Released(w, answered)
    /\ IF why = "unavailable"
          THEN Finish(w, Failure(why))
          ELSE /\ res' = Set(res, w, Failure(why))
               /\ got' = Set(got, w, {})
               /\ Goto(w, "reject")
               /\ UNCHANGED <<need, lost, rows>>
    /\ UNCHANGED <<db, outcome, call, recon, bounds>>

------------------------------------------------------------------------------
(* The transaction: locking reads, then the writes and the commit *)

\* The function under the locks returns early with an error.
GiveUp(w, kind) ==
    /\ res' = Set(res, w, Failure(kind))
    /\ Goto(w, "unlock")
    /\ UNCHANGED rows

\* Another booking of this idempotency key exists already.
FindPrior(w) ==
    /\ pc[w] = "read"
    /\ call[w].op = "create"
    /\ \E e \in SameKey(call[w].new) :
          IF SameBookingRequest(e, call[w].new)
             THEN /\ res' = Set(res, w, Ok(e))
                  /\ Goto(w, "settle")
                  /\ UNCHANGED rows
             ELSE GiveUp(w, "idempotencyConflict")
    /\ UNCHANGED <<db, outcome, owner, call, need, got, lost, recon, bounds>>

\* There is none, and this plain read is the snapshot of the transaction.
TakeSnapshot(w) ==
    LET c == call[w]
    IN  /\ pc[w] = "read"
        /\ c.op = "create"
        /\ SameKey(c.new) = {}
        /\ unseen' = Set(unseen, w, {})
        /\ Goto(w, "scan")
        /\ UNCHANGED <<table, outcome, owner, locals, recon, bounds>>

\* The occupied rows are locked, and so read as they are; the allocations of
\* each come from the snapshot (booking_core.go:490-504).
ReadForCreate(w) ==
    LET c == call[w]
        occupied == Occupied(c.new)
    IN  /\ pc[w] = "scan"
        /\ Unlocked(w, occupied)
        /\ IF SeenConflicts(w, c.new, occupied) # {}
              THEN GiveUp(w, "conflict")
              ELSE /\ rows' = Set(rows, w, occupied)
                   /\ Goto(w, "commit")
                   /\ UNCHANGED res
        /\ UNCHANGED <<db, outcome, owner, call, need, got, lost, recon, bounds>>

\* Mutant: a booking that is cancelled already is reported as cancelled now.
ReadForCancel_AlreadyDone(w) ==
    LET old == call[w].old
    IN  /\ pc[w] = "read"
        /\ call[w].op = "cancel"
        /\ Unlocked(w, {old})
        /\ IF ~Live(old)
              THEN res' = Set(res, w, Ok(old)) /\ Goto(w, "settle") /\ UNCHANGED rows
              ELSE rows' = Set(rows, w, {old}) /\ Goto(w, "commit") /\ UNCHANGED res
        /\ UNCHANGED <<db, outcome, owner, call, need, got, lost, recon, bounds>>

\* Mutant: the status of the row is not looked at.
ReadForCancel_AnyStatus(w) ==
    LET old == call[w].old
    IN  /\ pc[w] = "read"
        /\ call[w].op = "cancel"
        /\ Unlocked(w, {old})
        /\ IF ~Exists(old)
              THEN GiveUp(w, "notFound")
              ELSE rows' = Set(rows, w, {old}) /\ Goto(w, "commit") /\ UNCHANGED res
        /\ UNCHANGED <<db, outcome, owner, call, need, got, lost, recon, bounds>>

ReadForCancel(w) ==
    LET old == call[w].old
    IN  /\ pc[w] = "read"
        /\ call[w].op = "cancel"
        /\ Unlocked(w, {old})
        /\ IF ~Live(old)
              THEN GiveUp(w, IF Exists(old) THEN "notCancellable" ELSE "notFound")
              ELSE /\ rows' = Set(rows, w, {old})
                   /\ Goto(w, "commit")
                   /\ UNCHANGED res
        /\ UNCHANGED <<db, outcome, owner, call, need, got, lost, recon, bounds>>

\* The old booking's own row does not stand in the way of its replacement.  Here
\* the locking reads come first, so the snapshot is taken after them.
ReadForReschedule(w) ==
    LET c == call[w]
        occupied == Occupied(c.new)
    IN  /\ pc[w] = "read"
        /\ c.op = "reschedule"
        /\ Unlocked(w, occupied \cup {c.old})
        /\ IF ~Live(c.old)
              THEN GiveUp(w, IF Exists(c.old) THEN "notCancellable" ELSE "notFound")
              ELSE IF FindConflicts(c.new, occupied \ {c.old}) # {}
              THEN GiveUp(w, "conflict")
              ELSE /\ rows' = Set(rows, w, occupied \cup {c.old})
                   /\ Goto(w, "commit")
                   /\ UNCHANGED res
        /\ UNCHANGED <<db, outcome, owner, call, need, got, lost, recon, bounds>>

Event(type, b, old) == [type |-> type, booking |-> b, old |-> old]

EventOf(c) ==
    CASE c.op = "create"     -> Event("created", c.new, NoBooking)
      [] c.op = "cancel"     -> Event("cancelled", c.old, NoBooking)
      [] c.op = "reschedule" -> Event("rescheduled", c.new, c.old)

\* Mutant: the old booking is taken for the subject of every call.
Subject_AlwaysOld(c) == c.old

Subject(c) == IF Inserts(c) THEN c.new ELSE c.old

\* Mutant: locking reads lock rows only (READ COMMITTED).
CanInsert_NoGapLocks(w, b) == ~Exists(b) /\ SameKey(b) = {}

\* Primary key, unique (customer, idempotency key), and, where locking reads
\* lock the range they read, no insert into the range of an open transaction.
CanInsert(w, b) ==
    /\ ~Exists(b)
    /\ SameKey(b) = {}
    /\ GapLocks => \A v \in Workers \ {w} :
                      pc[v] = "commit" /\ Inserts(call[v]) => ~Overlaps(b, call[v].new)

\* Mutant: a reschedule forgets to cancel the old booking.
Written_KeepOld(c) ==
    [b \in Bookings |-> CASE Inserts(c) /\ b = c.new -> "pending"
                          [] c.op = "cancel" /\ b = c.old -> "cancelled"
                          [] OTHER -> booking[b]]

\* Rows, allocations and the outbox event are written in one transaction.
Written(c) ==
    [b \in Bookings |-> CASE Inserts(c) /\ b = c.new -> "pending"
                          [] GivesUp(c) /\ b = c.old -> "cancelled"
                          [] OTHER -> booking[b]]

Commit(w) ==
    LET c == call[w]
    IN  /\ pc[w] = "commit"
        /\ Inserts(c) => CanInsert(w, c.new)
        /\ booking' = Written(c)
        /\ outbox' = outbox \cup {EventOf(c)}
        /\ made' = [made EXCEPT ![Op(c)] = @ \cup {Subject(c)}]
        /\ unseen' = [v \in Workers |-> IF pc[v] = "scan" /\ Inserts(c)
                                      THEN unseen[v] \cup {c.new} ELSE unseen[v]]
        /\ rows' = Set(rows, w, {})
        /\ \/ res' = Set(res, w, Ok(Subject(c))) /\ Goto(w, "settle")
           \/ /\ AmbiguousCommit
              /\ res' = Set(res, w, Failure("error"))
              /\ Goto(w, "unlock")
        /\ UNCHANGED <<outcome, owner, call, need, got, lost, recon, bounds>>

\* Any statement may fail: a lock wait that times out, a deadlock victim, a
\* duplicate key, a context cancelled by the loss of a Redis lock.
TxFails(w) ==
    /\ pc[w] \in {"read", "scan", "commit"}
    /\ res' = Set(res, w, Failure("error"))
    /\ rows' = Set(rows, w, {})
    /\ Goto(w, "unlock")
    /\ UNCHANGED <<db, outcome, owner, call, need, got, lost, recon, bounds>>

------------------------------------------------------------------------------
(* After the commit: settle the outcome, verify, give the locks back *)

Settle(w) ==
    LET o == Op(call[w])
    IN  /\ pc[w] = "settle"
        /\ CanTransition(o, "pending", "confirmed", res[w].booking)
        /\ outcome' = Transitioned(o, "confirmed", res[w].booking)
        /\ Goto(w, "verify")
        /\ UNCHANGED <<db, owner, locals, recon, bounds>>

\* Mutant: the failure is treated like a failure of the transaction.
SettleFails_AsError(w) ==
    /\ pc[w] = "settle"
    /\ UNCHANGED outcome
    /\ GiveUp(w, "error")
    /\ UNCHANGED <<db, owner, call, need, got, lost, recon, bounds>>

\* Whatever the reason, the caller is told the outcome is unknown.
SettleFails(w) ==
    LET o == Op(call[w])
    IN  /\ pc[w] = "settle"
        /\ \/ UNCHANGED outcome
           \/ /\ AmbiguousCommit
              /\ CanTransition(o, "pending", "confirmed", res[w].booking)
              /\ outcome' = Transitioned(o, "confirmed", res[w].booking)
        /\ GiveUp(w, "unknown")
        /\ UNCHANGED <<db, owner, call, need, got, lost, recon, bounds>>

\* The re-read agrees with what the call has done.
Verified(c, b) ==
    CASE c.op = "create"     -> SameBookingRequest(b, c.new) /\ Live(b)
      [] c.op = "cancel"     -> booking[b] = "cancelled"
      [] c.op = "reschedule" -> booking[b] = "pending" /\ booking[c.old] = "cancelled"

Verify(w) ==
    /\ pc[w] = "verify"
    /\ \/ /\ Verified(call[w], res[w].booking)
          /\ Goto(w, "unlock")
          /\ UNCHANGED <<res, rows>>
       \/ GiveUp(w, "unknown")
    /\ UNCHANGED <<db, outcome, owner, call, need, got, lost, recon, bounds>>

\* A lock that was lost, or that Redis did not confirm to be deleted, turns any
\* result into "unknown"; a definite failure still has to reject the outcome.
Unlock(w) ==
    /\ pc[w] = "unlock"
    /\ \E answered \in BOOLEAN :
          LET sure == ~lost[w] /\ (answered \/ got[w] = {})
              kind == IF sure THEN res[w].kind ELSE "unknown"
          IN  /\ owner' = Released(w, answered)
              /\ IF kind \in {"ok", "unknown"}
                    THEN Finish(w, IF sure THEN res[w] ELSE Failure("unknown"))
                    ELSE /\ Goto(w, "reject")
                         /\ got' = Set(got, w, {})
                         /\ UNCHANGED <<res, need, lost, rows>>
    /\ UNCHANGED <<db, outcome, call, recon, bounds>>

Reject(w) ==
    LET o == Op(call[w])
    IN  /\ pc[w] = "reject"
        /\ CanTransition(o, "pending", "rejected", NoBooking)
        /\ outcome' = Transitioned(o, "rejected", NoBooking)
        /\ Finish(w, res[w])
        /\ UNCHANGED <<db, owner, call, recon, bounds>>

\* Mutant: the cause is reported although the outcome could not be stored.
RejectFails_ReportCause(w) ==
    /\ pc[w] = "reject"
    /\ UNCHANGED outcome
    /\ Finish(w, res[w])
    /\ UNCHANGED <<db, owner, call, recon, bounds>>

RejectFails(w) ==
    LET o == Op(call[w])
    IN  /\ pc[w] = "reject"
        /\ \/ UNCHANGED outcome
           \/ /\ AmbiguousCommit
              /\ CanTransition(o, "pending", "rejected", NoBooking)
              /\ outcome' = Transitioned(o, "rejected", NoBooking)
        /\ Finish(w, Failure("unknown"))
        /\ UNCHANGED <<db, owner, call, recon, bounds>>

------------------------------------------------------------------------------
(* Failures *)

\* The process dies: its transaction rolls back, its lock keys stay in Redis.
Crash(w) ==
    /\ pc[w] # "idle"
    /\ crashes < MaxCrashes
    /\ crashes' = crashes + 1
    /\ owner' = Released(w, FALSE)
    /\ Finish(w, Failure("none"))
    /\ call' = Set(call, w, NoCall)
    /\ UNCHANGED <<db, outcome, recon, losses, passes>>

OrphanExpires(k) ==
    /\ owner[k] = Orphan
    /\ owner' = [owner EXCEPT ![k] = Free]
    /\ UNCHANGED <<db, outcome, pc, locals, recon, bounds>>

\* The TTL of a running holder runs out (a long pause, a failover of Redis).
LockVanishes(k) ==
    /\ owner[k] \in Workers
    /\ losses < MaxLosses
    /\ losses' = losses + 1
    /\ owner' = [owner EXCEPT ![k] = Free]
    /\ UNCHANGED <<db, outcome, pc, locals, recon, crashes, passes>>

\* The watchdog's renewal finds another token, or fails though the key is there.
WatchdogFindsLoss(w) ==
    /\ ~lost[w]
    /\ \E k \in got[w] : owner[k] # w
    /\ lost' = Set(lost, w, TRUE)
    /\ UNCHANGED <<db, outcome, owner, pc, call, need, got, rows, res, recon, bounds>>

RenewalErrors(w) ==
    /\ ~lost[w]
    /\ got[w] # {}
    /\ losses < MaxLosses
    /\ losses' = losses + 1
    /\ lost' = Set(lost, w, TRUE)
    /\ UNCHANGED <<db, outcome, owner, pc, call, need, got, rows, res, recon, crashes,
                   passes>>

------------------------------------------------------------------------------
(* The reconciler: read the record, ask the reader, compare-and-set *)

ReconcileStart(o) ==
    /\ recon.phase = "idle"
    /\ passes < MaxPasses
    /\ passes' = passes + 1
    /\ outcome[o].status \in {"pending", "unknown"}
    /\ recon' = [NoRecon EXCEPT !.phase = "record", !.op = o,
                                !.from = outcome[o].status,
                                !.attempts = outcome[o].attempts]
    /\ UNCHANGED <<db, outcome, owner, pc, locals, losses, crashes>>

\* The reader is supplied by the caller and may only read: it reports the
\* effect it finds, or that it cannot tell, or, if it dares, that there is none.
ReconcileObserve ==
    /\ recon.phase = "record"
    /\ \/ \E b \in made[recon.op] :
             recon' = [recon EXCEPT !.phase = "seen", !.seen = "confirmed", !.booking = b]
       \/ recon' = [recon EXCEPT !.phase = "seen", !.seen = "unknown"]
       \/ /\ ReaderRejects
          /\ made[recon.op] = {}
          /\ recon' = [recon EXCEPT !.phase = "seen", !.seen = "rejected"]
    /\ UNCHANGED <<db, outcome, owner, pc, locals, bounds>>

\* An unknown that stays unknown goes to a human after enough attempts or time.
ReconciledStatus(old) ==
    IF recon.seen = "unknown" /\ recon.from = "unknown"
       /\ (recon.attempts + 1 >= MaxAttempts \/ old)
    THEN "needs_human" ELSE recon.seen

ReconcileWrite ==
    /\ recon.phase = "seen"
    /\ \E old \in BOOLEAN :
          LET next == ReconciledStatus(old)
          IN  IF CanTransition(recon.op, recon.from, next, recon.booking)
                 THEN outcome' = Transitioned(recon.op, next, recon.booking)
                 ELSE UNCHANGED outcome
    /\ recon' = NoRecon
    /\ UNCHANGED <<db, owner, pc, locals, bounds>>

------------------------------------------------------------------------------
WorkerStep(w) ==
    \/ LoadKeys(w) \/ LoadFails(w)
    \/ \E k \in LockKeys : Acquire(w, k)
    \/ AllAcquired(w)
    \/ \E why \in {"lockBusy", "lockError", "unavailable"} : AcquireFails(w, why)
    \/ FindPrior(w) \/ TakeSnapshot(w) \/ ReadForCreate(w)
    \/ ReadForCancel(w) \/ ReadForReschedule(w)
    \/ Commit(w) \/ TxFails(w)
    \/ Settle(w) \/ SettleFails(w) \/ Verify(w) \/ Unlock(w)
    \/ Reject(w) \/ RejectFails(w)

Environment ==
    \/ \E w \in Workers : Crash(w) \/ WatchdogFindsLoss(w) \/ RenewalErrors(w)
    \/ \E k \in LockKeys : OrphanExpires(k) \/ LockVanishes(k)

Reconcile ==
    \/ \E o \in OpIds : ReconcileStart(o)
    \/ ReconcileObserve
    \/ ReconcileWrite

Next ==
    \/ \E w \in Workers, c \in Calls : Begin(w, c) \/ Replay(w, c)
    \/ \E w \in Workers : WorkerStep(w)
    \/ Environment
    \/ Reconcile

Spec == Init /\ [][Next]_vars

------------------------------------------------------------------------------
(* Properties *)

Answers == {"none", "ok", "unknown", "unavailable", "conflict", "notCancellable",
            "notFound", "idempotencyConflict", "lockBusy", "lockError", "error"}

ReconStates ==
    [phase : {"idle", "record", "seen"}, op : OpIds \cup {NoCall},
     from : OutcomeStatus, attempts : Nat,
     seen : {"none", "confirmed", "unknown", "rejected"},
     booking : Bookings \cup {NoBooking}]

Results  == [kind : Answers, booking : Bookings \cup {NoBooking}]
Outcomes == [status : OutcomeStatus, booking : Bookings \cup {NoBooking}, attempts : Nat]
Events   == [type : {"created", "cancelled", "rescheduled"},
             booking : Bookings, old : Bookings \cup {NoBooking}]
Labels   == {"idle", "load", "lock", "read", "scan", "commit", "settle", "verify", "unlock",
             "reject"}

TypeOK ==
    /\ booking \in [Bookings -> BookingStatus]
    /\ outbox \subseteq Events
    /\ outcome \in [OpIds -> Outcomes]
    /\ made \in [OpIds -> SUBSET Bookings]
    /\ unseen \in [Workers -> SUBSET Bookings]
    /\ owner \in [LockKeys -> Workers \cup {Free, Orphan}]
    /\ pc \in [Workers -> Labels]
    /\ call \in [Workers -> Calls \cup {NoCall}]
    /\ \A w \in Workers : pc[w] # "idle" => call[w] \in Calls
    /\ \A w \in Workers : pc[w] = "load" => GivesUp(call[w])
    /\ \A w \in Workers : pc[w] = "scan" => call[w].op = "create"
    /\ need \in [Workers -> SUBSET LockKeys]
    /\ got \in [Workers -> SUBSET LockKeys]
    /\ lost \in [Workers -> BOOLEAN]
    /\ rows \in [Workers -> SUBSET Bookings]
    /\ res \in [Workers -> Results]
    /\ recon \in ReconStates
    /\ recon.phase # "idle" => recon.op \in OpIds
    /\ losses \in 0 .. MaxLosses
    /\ crashes \in 0 .. MaxCrashes
    /\ passes \in 0 .. MaxPasses

\* No staff member and no exclusive resource is promised twice for overlapping
\* times, whatever creates and reschedules run together (the purpose of
\* withBookingLocks and of the locking re-read in the transaction).
NoDoubleBooking == \A b, c \in Bookings : Live(b) /\ Live(c) => ~Clash(b, c)

\* The create about to be committed has read the row of b, committed after its
\* snapshot, and not its resources; they have different staff.
Overtakes(w, b) ==
    /\ call[w].op = "create"
    /\ b \in unseen[w]
    /\ Details[b].staff # Details[call[w].new].staff

\* Why it holds, for every number of requests.  Handles of locks that cannot
\* vanish are owned; they cover what the request is about to insert; what a
\* snapshot misses then has nothing to do with it; and so what the reads have
\* shown stays true until the commit.
HoldersOwn ==
    MaxLosses = 0 => \A w \in Workers : \A k \in got[w] : owner[k] = w
LocksCover ==
    \A w \in Workers :
        /\ pc[w] \in {"lock", "read", "scan", "commit"} /\ Inserts(call[w])
              => Claims(call[w].new) \subseteq need[w]
        /\ pc[w] \in {"read", "scan", "commit"} => got[w] = need[w]
UnseenApart ==
    MaxLosses = 0 =>
        \A w \in Workers : pc[w] \in {"scan", "commit"} /\ call[w].op = "create" =>
            \A b \in unseen[w] : Claims(b) \cap Claims(call[w].new) = {}
ReadsFresh ==
    \A w \in Workers : pc[w] = "commit" /\ Inserts(call[w]) =>
        \A b \in Bookings : Live(b) /\ Clash(call[w].new, b) =>
            \/ GivesUp(call[w]) /\ b = call[w].old
            \/ Overtakes(w, b)

SafeReads == HoldersOwn /\ LocksCover /\ UnseenApart /\ ReadsFresh
Exclusion == NoDoubleBooking /\ SafeReads

\* Where the range locks of the database are all there is (a Redis lock has
\* vanished under its holder): a booking comes to clash with another only when
\* its request has locked the row of the other and read its allocations from
\* an older snapshot (booking_core.go:96-99, 490-504), so that it is a resource
\* which is promised twice, never a staff member.
OnlyOvertakersClash ==
    [][\A b, c \in Bookings : ~Live(b) /\ Live(b)' /\ Live(c)' /\ Clash(b, c) =>
          \E w \in Workers : call[w].new = b /\ Overtakes(w, c)]_vars

\* No staff member is promised twice for overlapping times.
StaffOnce ==
    \A b, c \in Bookings : Live(b) /\ Live(c) /\ Clash(b, c) =>
        Details[b].staff # Details[c].staff

Creates(e, b) == e.type \in {"created", "rescheduled"} /\ e.booking = b
Ends(e, b)    == \/ e.type = "cancelled" /\ e.booking = b
                 \/ e.type = "rescheduled" /\ e.old = b

\* A consumer of the outbox can rebuild the table: a row exists iff exactly one
\* event made it (or it was seeded), and it is cancelled iff exactly one event
\* ended it.  In particular no booking is both cancelled and rescheduled away.
OutboxTellsRows ==
    \A b \in Bookings :
        /\ Exists(b) <=> b \in Seeded \/ \E e \in outbox : Creates(e, b)
        /\ booking[b] = "cancelled" <=> \E e \in outbox : Ends(e, b)
        /\ \A e, f \in outbox :
              (Creates(e, b) /\ Creates(f, b)) \/ (Ends(e, b) /\ Ends(f, b)) => e = f

\* However often a call is retried, crashed and replayed, its key commits at
\* most once.
AtMostOneEffect == \A o \in OpIds : \A b, c \in made[o] : b = c

\* An outcome that says "rejected" is the truth: nothing was written under it.
RejectedLeavesNothing ==
    \A o \in OpIds : outcome[o].status = "rejected" => made[o] = {}

\* An outcome that says "confirmed" names a booking the call has really made,
\* moved or cancelled, or for a create an equal booking found under its key.
ConfirmedIsTrue ==
    \A o \in OpIds : outcome[o].status = "confirmed" =>
        LET b == outcome[o].booking
        IN  /\ b \in Bookings
            /\ Exists(b)
            /\ o[1] = "cancel" => booking[b] = "cancelled"
            /\ o[1] = "create" => Details[b].idem = o[2]
            /\ o[1] # "create" \/ made[o] # {} => made[o] = {b}

\* What an idle request has told its caller agrees with the stored outcome, so
\* no retry can hear the opposite: "ok" only of a confirmed outcome and its
\* booking, a definite failure only of a rejected one (or, of a key reused for
\* another request, of a confirmed one).
AnswersMatchOutcome ==
    \A w \in Workers : pc[w] = "idle" /\ call[w] # NoCall =>
        LET o == outcome[Op(call[w])]
        IN  CASE res[w].kind = "ok" ->
                   o.status = "confirmed" /\ o.booking = res[w].booking
              [] res[w].kind = "idempotencyConflict" ->
                   o.status \in {"confirmed", "rejected"}
              [] res[w].kind \in {"unknown", "unavailable"} -> o.status # "none"
              [] OTHER -> o.status = "rejected"

\* Hearing "ok" means the booking that was asked for has been changed (or, for
\* a create, an equal one exists): a key reused for a different request is
\* refused (the comment on ErrBookingIdempotencyConflict, booking_core.go:19).
OkAnswersTheRequest ==
    \A w \in Workers : pc[w] = "idle" /\ res[w].kind = "ok" =>
        LET c == call[w]
        IN  IF c.op = "create" THEN SameBookingRequest(res[w].booking, c.new)
                               ELSE res[w].booking = Subject(c)

Waits(w, v) == pc[w] = "lock" /\ \E k \in got[v] : NextKey(w, k)

\* Ordered acquisition: two requests never hold a lock the other waits for.
NoWaitCycle == \A w, v \in Workers : w # v => ~(Waits(w, v) /\ Waits(v, w))

\* Once an outcome is final neither a slow request nor a slow reconciler that
\* read it earlier overwrites it.
FinalOutcomesStay ==
    [][\A o \in OpIds : outcome[o].status \in Terminal => outcome'[o] = outcome[o]]_vars

\* A lock token leaves Redis only by a step of the request that stored it, or
\* by running out: nobody frees a key taken over by somebody else.
OnlyHolderReleases ==
    [][\A k \in LockKeys : owner[k] \in Workers /\ owner'[k] # owner[k] =>
          pc'[owner[k]] # pc[owner[k]] \/ losses' > losses]_vars

Ledger == INSTANCE BookingLedger
    WITH rows <- booking, journal <- outbox

\* The kernel implements the one-step ledger: every commit is one atomic take,
\* give-back or move, and every other step leaves table and journal alone.
ImplementsLedger == Ledger!Spec
==============================================================================
