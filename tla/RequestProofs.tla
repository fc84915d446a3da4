---------------------------- MODULE RequestProofs ----------------------------
(***************************************************************************)
(* Theorems about requests under way: the bookings of the kernel, and the  *)
(* answers of the web chat and of WeCom.                                   *)
(*                                                                         *)
(* The booking kernel, for any number of requests, bookings, locks,        *)
(* retries, crashes and passes of the reconciler.  Three parts: the types; *)
(* what the locks are for (no double booking while none is lost, and with  *)
(* range locks alone only by a create that was overtaken in its snapshot;  *)
(* requests that wait in order); what the outcome records are for (a key   *)
(* commits once, a final outcome is true and stays, a caller hears what is *)
(* stored, the outbox tells the table, the kernel implements the one-step  *)
(* ledger while no lock is lost).                                          *)
(*                                                                         *)
(* Answers, for any number of requests, loops, replies and notifications   *)
(* (ChatTurns, WecomClient).  The web chat: every handler that waits has   *)
(* channels of its own, the latest generation if it is alone; channels not *)
(* handed out yet are empty and open; and a request that is alone is the   *)
(* only one engaged, so that only its own turn fills its channels          *)
(* (TurnsInv).  WeCom: a request that is under way holds a token with at   *)
(* least one tick left, since the margin covers the tick of the fetch and  *)
(* the tick of the use (ClientInv).                                        *)
(***************************************************************************)
EXTENDS BookingCore, MCChat, FiniteSetTheorems, TLAPS

------------------------------------------------------------------------------
(* Types *)

\* The parts of TypeOK that the steps of one request can change.
LEMMA OpOfCall == \A c \in Calls : Op(c) \in OpIds
BY CallsOK DEF Op, OpIds

LEMMA OpOfWorker ==
    ASSUME TypeOK, NEW w \in Workers, pc[w] # "idle"
    PROVE  call[w] \in Calls /\ Op(call[w]) \in OpIds
BY OpOfCall DEF TypeOK

\* The initial state is well typed.
LEMMA InitTypeOK == Init => TypeOK
<1> SUFFICES ASSUME Init PROVE TypeOK
  OBVIOUS
<1> USE DEF Init
<1>1. NoOutcome \in Outcomes
  BY DEF NoOutcome, OutcomeStatus, Outcomes
<1>2. NoRecon \in ReconStates
  BY DEF NoRecon, ReconStates, OutcomeStatus
<1>3. Failure("none") \in Results
  BY DEF Failure, Result, Answers, Results
<1>4. recon.phase = "idle"
  BY DEF NoRecon
<1>5. \A w \in Workers : pc[w] = "idle"
  OBVIOUS
<1>6. /\ outcome \in [OpIds -> Outcomes]
      /\ res \in [Workers -> Results]
      /\ recon \in ReconStates
  BY <1>1, <1>2, <1>3
<1>7. /\ booking \in [Bookings -> BookingStatus]
      /\ pc \in [Workers -> Labels]
  BY DEF BookingStatus, Labels
<1>8. losses \in 0 .. MaxLosses /\ crashes \in 0 .. MaxCrashes /\ passes \in 0 .. MaxPasses
  BY ConstantsOK
<1> QED
  BY <1>4, <1>5, <1>6, <1>7, <1>8 DEF TypeOK

\* A result built by the code is a well-typed answer.
LEMMA ResultType ==
    /\ \A kind \in Answers : Failure(kind) \in Results
    /\ \A b \in Bookings \cup {NoBooking} : Ok(b) \in Results
BY DEF Result, Failure, Ok, Results, Answers

LEMMA TransitionedType ==
    ASSUME TypeOK, NEW o \in OpIds, NEW to \in OutcomeStatus,
           NEW b \in Bookings \cup {NoBooking}
    PROVE  Transitioned(o, to, b) \in [OpIds -> Outcomes]
BY DEF TypeOK, Transitioned, Outcomes

LEMMA ReleasedType ==
    ASSUME TypeOK, NEW w \in Workers, NEW answered \in BOOLEAN
    PROVE  Released(w, answered) \in [LockKeys -> Workers \cup {Free, Orphan}]
BY DEF TypeOK, Released

\* A request that only moves on and changes its own result or locked rows.
LEMMA LocalStepType ==
    ASSUME TypeOK, NEW w \in Workers, NEW r \in Results, NEW R \in SUBSET Bookings,
           NEW label \in Labels \ {"load", "scan"}, pc[w] # "idle", Goto(w, label),
           res' = [res EXCEPT ![w] = r], rows' = [rows EXCEPT ![w] = R],
           UNCHANGED <<call, need, got, lost, owner, recon, losses, crashes, passes>>,
           booking' \in [Bookings -> BookingStatus], outbox' \subseteq Events,
           outcome' \in [OpIds -> Outcomes], made' \in [OpIds -> SUBSET Bookings],
           unseen' \in [Workers -> SUBSET Bookings]
    PROVE  TypeOK'
BY DEF TypeOK, Goto, Set

\* A request that ends.
LEMMA FinishType ==
    ASSUME TypeOK, NEW w \in Workers, NEW r \in Results, Finish(w, r),
           UNCHANGED <<db, recon, losses, passes>>, crashes' \in 0 .. MaxCrashes,
           owner' \in [LockKeys -> Workers \cup {Free, Orphan}],
           outcome' \in [OpIds -> Outcomes],
           call' = call \/ call' = [call EXCEPT ![w] = NoCall]
    PROVE  TypeOK'
BY DEF TypeOK, Finish, Labels, Goto, Set, db, table

\* The function under the locks returns an error.
LEMMA GiveUpType ==
    ASSUME TypeOK, NEW w \in Workers, NEW kind \in Answers, pc[w] # "idle", GiveUp(w, kind),
           outcome' \in [OpIds -> Outcomes],
           UNCHANGED <<db, owner, call, need, got, lost, recon, bounds>>
    PROVE  TypeOK'
BY ResultType DEF TypeOK, GiveUp, Goto, Set, Labels, db, table, bounds

\* The locking reads find nothing in the way.
LEMMA ReadsOkType ==
    ASSUME TypeOK, NEW w \in Workers, pc[w] # "idle", NEW R \in SUBSET Bookings,
           rows' = Set(rows, w, R), Goto(w, "commit"), UNCHANGED res,
           UNCHANGED <<db, outcome, owner, call, need, got, lost, recon, bounds>>
    PROVE  TypeOK'
BY DEF TypeOK, Goto, Set, Labels, db, table, bounds

LEMMA LockStepsType ==
    ASSUME TypeOK, NEW w \in Workers,
           \/ LoadKeys(w) \/ LoadFails(w) \/ AllAcquired(w)
           \/ \E k \in LockKeys : Acquire(w, k)
           \/ \E why \in {"lockBusy", "lockError", "unavailable"} : AcquireFails(w, why)
    PROVE  TypeOK'
<1> USE DEF Goto, Set, db, table, bounds, locals
<1>0. pc[w] # "idle" => call[w] \in Calls
  BY DEF TypeOK
<1>1. CASE LoadKeys(w)
  <2>1. need' \in [Workers -> SUBSET LockKeys]
    <3> DEFINE c == call[w]
    <3>0. pc[w] = "load"
      BY <1>1 DEF LoadKeys
    <3>1. c \in Calls /\ GivesUp(c)
      BY <3>0 DEF TypeOK
    <3>2. c.old \in Bookings /\ (Inserts(c) => c.new \in Bookings)
      BY <3>1, CallsOK DEF GivesUp, Inserts
    <3>3. Claims(c.old) \subseteq LockKeys /\ (Inserts(c) => Claims(c.new) \subseteq LockKeys)
      BY <3>2, DetailsOK DEF Claims
    <3> DEFINE keys == (IF Exists(c.old) THEN Claims(c.old) ELSE {})
                       \cup (IF Inserts(c) THEN Claims(c.new) ELSE {})
    <3>4. keys \in SUBSET LockKeys
      BY <3>3
    <3>5. need' = [need EXCEPT ![w] = keys]
      BY <1>1 DEF LoadKeys
    <3> QED
      BY <3>4, <3>5 DEF TypeOK
  <2>2. pc[w] = "load" /\ pc' = [pc EXCEPT ![w] = "lock"]
    BY <1>1 DEF LoadKeys
  <2> QED
    BY <1>0, <1>1, <2>1, <2>2 DEF TypeOK, LoadKeys, Labels
<1>2. CASE LoadFails(w)
  BY <1>0, <1>2, ResultType DEF TypeOK, LoadFails, Labels, Answers
<1>3. CASE AllAcquired(w)
  BY <1>0, <1>3 DEF TypeOK, AllAcquired, Labels
<1>4. ASSUME NEW k \in LockKeys, Acquire(w, k) PROVE TypeOK'
  BY <1>4 DEF TypeOK, Acquire
<1>5. ASSUME NEW why \in {"lockBusy", "lockError", "unavailable"}, AcquireFails(w, why)
      PROVE  TypeOK'
  <2>1. Failure(why) \in Results
    BY ResultType DEF Answers
  <2>2. owner' \in [LockKeys -> Workers \cup {Free, Orphan}]
    BY <1>5, ReleasedType DEF AcquireFails
  <2>3. UNCHANGED <<db, outcome, call, recon, bounds>> /\ pc[w] = "lock"
    BY <1>5 DEF AcquireFails
  <2>4. CASE why = "unavailable"
    <3>1. Finish(w, Failure(why))
      BY <1>5, <2>4 DEF AcquireFails
    <3>2. outcome' \in [OpIds -> Outcomes] /\ crashes' \in 0 .. MaxCrashes
      BY <2>3 DEF TypeOK
    <3> QED
      BY <2>1, <2>2, <2>3, <3>1, <3>2, FinishType
  <2>5. CASE why # "unavailable"
    <3>1. /\ res' = [res EXCEPT ![w] = Failure(why)]
          /\ got' = [got EXCEPT ![w] = {}]
          /\ pc' = [pc EXCEPT ![w] = "reject"]
          /\ UNCHANGED <<need, lost, rows>>
      BY <1>5, <2>5 DEF AcquireFails
    <3> QED
      BY <1>0, <2>1, <2>2, <2>3, <3>1 DEF TypeOK, Labels
  <2> QED
    BY <2>4, <2>5
<1> QED
  BY <1>1, <1>2, <1>3, <1>4, <1>5

LEMMA TransactionType ==
    ASSUME TypeOK, NEW w \in Workers,
           \/ FindPrior(w) \/ TakeSnapshot(w) \/ ReadForCreate(w)
           \/ ReadForCancel(w) \/ ReadForReschedule(w) \/ Commit(w) \/ TxFails(w)
    PROVE  TypeOK'
<1> DEFINE c == call[w]
<1>0. pc[w] # "idle" => c \in Calls /\ Op(c) \in OpIds
  BY OpOfWorker
<1>1. outcome \in [OpIds -> Outcomes] /\ rows[w] \in SUBSET Bookings
  BY DEF TypeOK
<1>2. CASE FindPrior(w)
  <2>1. PICK e \in SameKey(c.new) :
           IF SameBookingRequest(e, c.new)
             THEN res' = Set(res, w, Ok(e)) /\ Goto(w, "settle") /\ UNCHANGED rows
             ELSE GiveUp(w, "idempotencyConflict")
    BY <1>2 DEF FindPrior
  <2>2. Ok(e) \in Results
    BY ResultType DEF SameKey
  <2>3. /\ pc[w] = "read"
        /\ UNCHANGED <<db, outcome, owner, call, need, got, lost, recon, bounds>>
    BY <1>2 DEF FindPrior
  <2>4. CASE SameBookingRequest(e, c.new)
    <3>1. res' = Set(res, w, Ok(e)) /\ Goto(w, "settle") /\ UNCHANGED rows
      BY <2>1, <2>4
    <3> QED
      BY <1>0, <2>2, <2>3, <3>1 DEF TypeOK, Goto, Set, Labels, db, table, bounds
  <2>5. CASE ~SameBookingRequest(e, c.new)
    BY <1>1, <2>1, <2>3, <2>5, GiveUpType DEF Answers
  <2> QED
    BY <2>4, <2>5
<1>8. CASE TakeSnapshot(w)
  <2>1. /\ pc[w] = "read" /\ c.op = "create"
        /\ pc' = [pc EXCEPT ![w] = "scan"]
        /\ unseen' = [unseen EXCEPT ![w] = {}]
        /\ UNCHANGED <<table, outcome, owner, locals, recon, bounds>>
    BY <1>8 DEF TakeSnapshot, Goto, Set
  <2>2. unseen' \in [Workers -> SUBSET Bookings]
    BY <2>1 DEF TypeOK
  <2> QED
    BY <1>0, <2>1, <2>2 DEF TypeOK, Labels, table, locals, bounds
<1>3. CASE ReadForCreate(w)
  <2>1. Occupied(c.new) \in SUBSET Bookings
    BY DEF Occupied
  <2>2. CASE SeenConflicts(w, c.new, Occupied(c.new)) # {}
    BY <1>1, <1>3, <2>2, GiveUpType DEF ReadForCreate, Answers
  <2>3. CASE SeenConflicts(w, c.new, Occupied(c.new)) = {}
    BY <1>3, <2>1, <2>3, ReadsOkType DEF ReadForCreate
  <2> QED
    BY <2>2, <2>3
<1>4. CASE ReadForCancel(w)
  <2>1. {c.old} \in SUBSET Bookings
    BY <1>0, <1>4, CallsOK DEF ReadForCancel
  <2>2. CASE ~Live(c.old)
    BY <1>1, <1>4, <2>2, GiveUpType DEF ReadForCancel, Answers
  <2>3. CASE Live(c.old)
    BY <1>4, <2>1, <2>3, ReadsOkType DEF ReadForCancel
  <2> QED
    BY <2>2, <2>3
<1>5. CASE ReadForReschedule(w)
  <2>1. Occupied(c.new) \cup {c.old} \in SUBSET Bookings
    BY <1>0, <1>5, CallsOK DEF ReadForReschedule, Occupied
  <2>2. CASE ~Live(c.old)
    BY <1>1, <1>5, <2>2, GiveUpType DEF ReadForReschedule, Answers
  <2>3. CASE Live(c.old) /\ FindConflicts(c.new, Occupied(c.new) \ {c.old}) # {}
    BY <1>1, <1>5, <2>3, GiveUpType DEF ReadForReschedule, Answers
  <2>4. CASE Live(c.old) /\ FindConflicts(c.new, Occupied(c.new) \ {c.old}) = {}
    BY <1>5, <2>1, <2>4, ReadsOkType DEF ReadForReschedule
  <2> QED
    BY <2>2, <2>3, <2>4
<1>6. CASE Commit(w)
  <2>0. pc[w] = "commit" /\ c \in Calls /\ Op(c) \in OpIds
    BY <1>0, <1>6 DEF Commit
  <2>1. Subject(c) \in Bookings
    BY <2>0, CallsOK DEF Subject, Inserts, OpNames
  <2>2. EventOf(c) \in Events
    BY <2>0, CallsOK DEF EventOf, Event, Events, OpNames
  <2>3. booking' \in [Bookings -> BookingStatus]
    <3>1. booking' = Written(c)
      BY <1>6 DEF Commit
    <3> QED
      BY <3>1 DEF TypeOK, Written, BookingStatus
  <2>4. outbox' \subseteq Events
    BY <1>6, <2>2 DEF Commit, TypeOK
  <2>5. made' \in [OpIds -> SUBSET Bookings]
    BY <1>6, <2>0, <2>1 DEF Commit, TypeOK
  <2>6. /\ rows' = [rows EXCEPT ![w] = {}]
        /\ UNCHANGED <<call, need, got, lost, owner, recon, losses, crashes, passes>>
        /\ outcome' \in [OpIds -> Outcomes]
    BY <1>1, <1>6 DEF Commit, Set, bounds
  <2>7. \E r \in Results, label \in Labels \ {"load", "scan"} :
           res' = [res EXCEPT ![w] = r] /\ Goto(w, label)
    BY <1>6, <2>1, ResultType DEF Commit, Set, Labels, Answers
  <2>8. unseen' \in [Workers -> SUBSET Bookings]
    <3>1. Inserts(c) => c.new \in Bookings
      BY <2>0, CallsOK DEF Inserts
    <3>2. unseen' = [v \in Workers |-> IF pc[v] = "scan" /\ Inserts(c)
                                      THEN unseen[v] \cup {c.new} ELSE unseen[v]]
      BY <1>6 DEF Commit
    <3> QED
      BY <3>1, <3>2 DEF TypeOK
  <2> QED
    BY <2>0, <2>3, <2>4, <2>5, <2>6, <2>7, <2>8, LocalStepType
<1>7. CASE TxFails(w)
  <2>1. /\ rows' = [rows EXCEPT ![w] = {}]
        /\ res' = [res EXCEPT ![w] = Failure("error")]
        /\ Goto(w, "unlock")
        /\ UNCHANGED <<db, outcome, owner, call, need, got, lost, recon, bounds>>
        /\ pc[w] # "idle"
    BY <1>7 DEF TxFails, Set
  <2>2. Failure("error") \in Results /\ "unlock" \in Labels
    BY ResultType DEF Answers, Labels
  <2> QED
    BY <2>1, <2>2 DEF TypeOK, Goto, db, table, bounds
<1> QED
  BY <1>2, <1>3, <1>4, <1>5, <1>6, <1>7, <1>8

LEMMA OutcomeStepsType ==
    ASSUME TypeOK, NEW w \in Workers,
           \/ Settle(w) \/ SettleFails(w) \/ Verify(w) \/ Unlock(w)
           \/ Reject(w) \/ RejectFails(w)
    PROVE  TypeOK'
<1> DEFINE c == call[w]
<1>0. pc[w] # "idle" => c \in Calls /\ Op(c) \in OpIds
  BY OpOfWorker
<1>1. /\ outcome \in [OpIds -> Outcomes]
      /\ res[w] \in Results
      /\ res[w].booking \in Bookings \cup {NoBooking}
      /\ crashes \in 0 .. MaxCrashes
  BY DEF TypeOK, Results
<1>2. Failure("unknown") \in Results
  BY ResultType DEF Answers
<1>3. CASE Settle(w)
  <2>1. outcome' \in [OpIds -> Outcomes]
    BY <1>0, <1>1, <1>3, TransitionedType DEF Settle, OutcomeStatus
  <2>2. pc' = [pc EXCEPT ![w] = "verify"] /\ pc[w] = "settle"
    BY <1>3 DEF Settle, Goto
  <2>3. UNCHANGED <<db, owner, locals, recon, bounds>>
    BY <1>3 DEF Settle
  <2> QED
    BY <1>0, <2>1, <2>2, <2>3 DEF TypeOK, Labels, db, table, locals, bounds
<1>4. CASE SettleFails(w)
  <2>1. outcome' \in [OpIds -> Outcomes]
    BY <1>0, <1>1, <1>4, TransitionedType DEF SettleFails, OutcomeStatus
  <2>2. /\ pc[w] = "settle" /\ GiveUp(w, "unknown")
        /\ UNCHANGED <<db, owner, call, need, got, lost, recon, bounds>>
    BY <1>4 DEF SettleFails
  <2> QED
    BY <2>1, <2>2, GiveUpType DEF Answers
<1>5. CASE Verify(w)
  <2>1. pc[w] = "verify" /\ UNCHANGED <<db, outcome, owner, call, need, got, lost, recon, bounds>>
    BY <1>5 DEF Verify
  <2>2. CASE GiveUp(w, "unknown")
    BY <1>1, <2>1, <2>2, GiveUpType DEF Answers
  <2>3. CASE Goto(w, "unlock") /\ UNCHANGED <<res, rows>>
    BY <1>0, <2>1, <2>3 DEF TypeOK, Goto, Labels, db, table, bounds
  <2> QED
    BY <1>5, <2>2, <2>3 DEF Verify
<1>6. CASE Unlock(w)
  <2>1. /\ owner' \in [LockKeys -> Workers \cup {Free, Orphan}]
        /\ UNCHANGED <<db, outcome, call, recon, bounds>>
        /\ pc[w] = "unlock"
    BY <1>6, ReleasedType DEF Unlock
  <2>2. ASSUME NEW r \in Results, Finish(w, r) PROVE TypeOK'
    BY <1>1, <2>1, <2>2, FinishType DEF bounds
  <2>3. CASE /\ Goto(w, "reject")
             /\ got' = Set(got, w, {})
             /\ UNCHANGED <<res, need, lost, rows>>
    BY <1>0, <2>1, <2>3 DEF TypeOK, Goto, Set, Labels, db, table, bounds
  <2> QED
    BY <1>1, <1>2, <1>6, <2>2, <2>3 DEF Unlock
<1>7. CASE Reject(w)
  <2>1. outcome' \in [OpIds -> Outcomes]
    BY <1>0, <1>7, TransitionedType DEF Reject, OutcomeStatus
  <2>2. Finish(w, res[w]) /\ UNCHANGED <<db, owner, call, recon, bounds>>
    BY <1>7 DEF Reject
  <2>3. owner' \in [LockKeys -> Workers \cup {Free, Orphan}]
    BY <2>2 DEF TypeOK
  <2> QED
    BY <1>1, <2>1, <2>2, <2>3, FinishType DEF bounds
<1>8. CASE RejectFails(w)
  <2>1. outcome' \in [OpIds -> Outcomes]
    BY <1>0, <1>1, <1>8, TransitionedType DEF RejectFails, OutcomeStatus
  <2>2. Finish(w, Failure("unknown")) /\ UNCHANGED <<db, owner, call, recon, bounds>>
    BY <1>8 DEF RejectFails
  <2>3. owner' \in [LockKeys -> Workers \cup {Free, Orphan}]
    BY <2>2 DEF TypeOK
  <2> QED
    BY <1>1, <1>2, <2>1, <2>2, <2>3, FinishType DEF bounds
<1> QED
  BY <1>3, <1>4, <1>5, <1>6, <1>7, <1>8

LEMMA ReconcileType == ASSUME TypeOK, Reconcile PROVE TypeOK'
<1> USE DEF db, table, locals, bounds
<1>1. ASSUME NEW o \in OpIds, ReconcileStart(o) PROVE TypeOK'
  <2>1. outcome[o].status \in OutcomeStatus /\ outcome[o].attempts \in Nat
    BY DEF TypeOK, Outcomes
  <2>2. recon' = [phase |-> "record", op |-> o, from |-> outcome[o].status,
                  attempts |-> outcome[o].attempts, seen |-> "none", booking |-> NoBooking]
    BY <1>1 DEF ReconcileStart, NoRecon
  <2>3. recon' \in ReconStates
    BY <2>1, <2>2 DEF ReconStates
  <2>4. passes' \in 0 .. MaxPasses
    BY <1>1, ConstantsOK DEF ReconcileStart, TypeOK
  <2> QED
    BY <1>1, <2>3, <2>4 DEF TypeOK, ReconcileStart
<1>2. CASE ReconcileObserve
  <2>0. recon \in ReconStates /\ recon.op \in OpIds /\ made \in [OpIds -> SUBSET Bookings]
    BY <1>2 DEF TypeOK, ReconcileObserve
  <2>1. ASSUME NEW b \in made[recon.op],
               recon' = [recon EXCEPT !.phase = "seen", !.seen = "confirmed", !.booking = b]
        PROVE  recon' \in ReconStates
    BY <1>2, <2>0, <2>1 DEF ReconStates
  <2>2. recon' \in ReconStates /\ recon'.op = recon.op
    BY <1>2, <2>0, <2>1 DEF ReconcileObserve, ReconStates
  <2> QED
    BY <1>2, <2>0, <2>2 DEF TypeOK, ReconcileObserve
<1>3. CASE ReconcileWrite
  <2>1. NoRecon \in ReconStates
    BY DEF NoRecon, ReconStates, OutcomeStatus
  <2>2. /\ recon \in ReconStates /\ recon.op \in OpIds
        /\ outcome \in [OpIds -> Outcomes]
    BY <1>3 DEF TypeOK, ReconcileWrite
  <2>3. recon.booking \in Bookings \cup {NoBooking} /\ recon.seen \in OutcomeStatus
    BY <2>2 DEF ReconStates, OutcomeStatus
  <2>4. \A old \in BOOLEAN : ReconciledStatus(old) \in OutcomeStatus
    BY <2>3 DEF ReconciledStatus, OutcomeStatus
  <2>5. outcome' \in [OpIds -> Outcomes]
    BY <1>3, <2>2, <2>3, <2>4, TransitionedType DEF ReconcileWrite
  <2>6. NoRecon.phase = "idle"
    BY DEF NoRecon
  <2> QED
    BY <1>3, <2>1, <2>5, <2>6 DEF TypeOK, ReconcileWrite
<1> QED
  BY <1>1, <1>2, <1>3 DEF Reconcile

\* Every step of the system keeps the state well typed.
LEMMA StepTypeOK == TypeOK /\ [Next]_vars => TypeOK'
<1> SUFFICES ASSUME TypeOK, [Next]_vars PROVE TypeOK'
  OBVIOUS
<1> USE DEF Goto, Set, db, table, locals, bounds
<1>1. ASSUME NEW w \in Workers, NEW c \in Calls, Begin(w, c) PROVE TypeOK'
  <2>1. Op(c) \in OpIds /\ (c.op = "create" => Claims(c.new) \in SUBSET LockKeys)
    BY OpOfCall, CallsOK, DetailsOK DEF Claims
  <2>2. Failure("none") \in Results
    BY ResultType DEF Answers
  <2>3. outcome' \in [OpIds -> Outcomes]
    <3>1. outcome \in [OpIds -> Outcomes]
      BY DEF TypeOK
    <3>2. outcome' = [outcome EXCEPT ![Op(c)].status = "pending"]
      BY <1>1 DEF Begin
    <3>3. "pending" \in OutcomeStatus
      BY DEF OutcomeStatus
    <3> QED
      BY <2>1, <3>1, <3>2, <3>3 DEF Outcomes
  <2>4. need' \in [Workers -> SUBSET LockKeys]
    <3>1. need \in [Workers -> SUBSET LockKeys]
      BY DEF TypeOK
    <3>2. \/ c.op = "create" /\ need' = [need EXCEPT ![w] = Claims(c.new)]
          \/ need' = need
      BY <1>1 DEF Begin
    <3> QED
      BY <2>1, <3>1, <3>2
  <2>5. pc' \in [Workers -> Labels]
    BY <1>1 DEF Begin, TypeOK, Labels
  <2>6. \A v \in Workers : pc'[v] # "idle" => call'[v] \in Calls
    BY <1>1 DEF Begin, TypeOK
  <2>7. pc'[w] = "load" => GivesUp(call'[w])
    BY <1>1, CallsOK DEF Begin, TypeOK, GivesUp, OpNames
  <2>8. \A v \in Workers : pc'[v] = "load" => GivesUp(call'[v])
    BY <1>1, <2>7 DEF Begin, TypeOK
  <2> QED
    BY <1>1, <2>2, <2>3, <2>4, <2>5, <2>6, <2>8 DEF TypeOK, Begin
<1>2. ASSUME NEW w \in Workers, NEW c \in Calls, Replay(w, c) PROVE TypeOK'
  <2>1. outcome[Op(c)].booking \in Bookings \cup {NoBooking}
    BY OpOfCall DEF TypeOK, Outcomes
  <2>2. ReplayAnswer(c) \in Results
    BY <2>1, ResultType DEF ReplayAnswer, Answers
  <2> QED
    BY <1>2, <2>2 DEF TypeOK, Replay
<1>3. ASSUME NEW w \in Workers, WorkerStep(w) PROVE TypeOK'
  BY <1>3, LockStepsType, TransactionType, OutcomeStepsType DEF WorkerStep
<1>4. CASE Environment
  <2>1. ASSUME NEW w \in Workers, Crash(w) PROVE TypeOK'
    <3>1. Failure("none") \in Results
      BY ResultType DEF Answers
    <3>2. owner' \in [LockKeys -> Workers \cup {Free, Orphan}]
      BY <2>1, ReleasedType DEF Crash
    <3>3. crashes' \in 0 .. MaxCrashes
      BY <2>1, ConstantsOK DEF Crash, TypeOK
    <3> QED
      BY <2>1, <3>1, <3>2, <3>3 DEF TypeOK, Crash, Finish, Labels
  <2>2. ASSUME NEW w \in Workers, WatchdogFindsLoss(w) PROVE TypeOK'
    BY <2>2 DEF TypeOK, WatchdogFindsLoss
  <2>3. ASSUME NEW w \in Workers, RenewalErrors(w) PROVE TypeOK'
    BY <2>3, ConstantsOK DEF TypeOK, RenewalErrors
  <2>4. ASSUME NEW k \in LockKeys, OrphanExpires(k) PROVE TypeOK'
    BY <2>4 DEF TypeOK, OrphanExpires
  <2>5. ASSUME NEW k \in LockKeys, LockVanishes(k) PROVE TypeOK'
    BY <2>5, ConstantsOK DEF TypeOK, LockVanishes
  <2> QED
    BY <1>4, <2>1, <2>2, <2>3, <2>4, <2>5 DEF Environment
<1>5. CASE Reconcile
  BY <1>5, ReconcileType
<1>6. CASE UNCHANGED vars
  BY <1>6 DEF TypeOK, vars
<1> QED
  BY <1>1, <1>2, <1>3, <1>4, <1>5, <1>6 DEF Next

\* Typing, for every number of requests.
THEOREM TypeCorrect == Spec => []TypeOK
BY InitTypeOK, StepTypeOK, PTL DEF Spec

------------------------------------------------------------------------------
(* Locks.  What a request has read stays true until its commit, if the     *)
(* database blocks inserts into a range somebody has read, or if no Redis  *)
(* lock disappears under its holder; either of the two is enough.  In the  *)
(* second case nothing is booked twice.  In the first a staff member never *)
(* is, and a resource only by a request that has overtaken the other       *)
(* booking.  No two requests wait for each other: the keys are taken in    *)
(* order.                                                                  *)

OneGuardHolds == GapLocks \/ MaxLosses = 0

LEMMA ClashIsSymmetric == \A b, c : Clash(b, c) => Clash(c, b)
BY DEF Clash, Overlaps

LEMMA InitSafeReads == Init => SafeReads
BY DEF Init, SafeReads, HoldersOwn, LocksCover, UnseenApart, ReadsFresh

\* A step of w that leaves the table alone, touches only its own lock tokens and
\* does not stay under the locks with the intention to write.
LEMMA QuietStep ==
    ASSUME TypeOK, SafeReads, NEW w \in Workers, UNCHANGED <<booking, unseen>>,
           \A v \in Workers \ {w} : /\ pc'[v] = pc[v] /\ call'[v] = call[v]
                                    /\ need'[v] = need[v] /\ got'[v] = got[v],
           pc'[w] \notin {"lock", "read", "scan", "commit"},
           \A k \in LockKeys : owner[k] # w => owner'[k] = owner[k],
           \/ got'[w] = {}
           \/ got'[w] = got[w] /\ UNCHANGED owner
    PROVE  SafeReads'
<1>2. HoldersOwn'
  <2> SUFFICES ASSUME MaxLosses = 0, NEW v \in Workers, NEW k \in got'[v]
               PROVE  owner'[k] = v
    BY DEF HoldersOwn
  <2>1. CASE v = w
    BY <2>1 DEF SafeReads, HoldersOwn
  <2>2. CASE v # w
    <3>1. k \in got[v] /\ k \in LockKeys
      BY <2>2 DEF TypeOK
    <3> QED
      BY <2>2, <3>1 DEF SafeReads, HoldersOwn
  <2> QED
    BY <2>1, <2>2
<1>3. LocksCover'
  BY DEF SafeReads, LocksCover, Claims
<1>4. ReadsFresh'
  BY DEF SafeReads, ReadsFresh, Overtakes, Live
<1>5. UnseenApart'
  BY DEF SafeReads, UnseenApart, Claims
<1> QED
  BY <1>2, <1>3, <1>4, <1>5 DEF SafeReads

\* A step that changes none of the state the invariant speaks of.
LEMMA UnrelatedStep ==
    ASSUME SafeReads, UNCHANGED <<booking, unseen, owner, pc, call, need, got>>
    PROVE  SafeReads'
BY DEF SafeReads, HoldersOwn, LocksCover, UnseenApart, ReadsFresh, Overtakes, Live, Claims

\* Only tokens of w go when w releases its locks.
LEMMA ReleaseTouchesOwn ==
    ASSUME NEW w \in Workers, NEW answered \in BOOLEAN, owner' = Released(w, answered)
    PROVE  \A k \in LockKeys : owner[k] # w => owner'[k] = owner[k]
BY DEF Released

\* The request ends, with or without its locks released.
LEMMA EndOfRequest ==
    ASSUME TypeOK, SafeReads, NEW w \in Workers, NEW r, Finish(w, r), UNCHANGED <<booking, unseen>>,
           \A v \in Workers \ {w} : call'[v] = call[v],
           \A k \in LockKeys : owner[k] # w => owner'[k] = owner[k]
    PROVE  SafeReads'
<1>1. pc'[w] = "idle" /\ got'[w] = {}
  BY DEF Finish, Goto, Set, TypeOK
<1>2. \A v \in Workers \ {w} : pc'[v] = pc[v] /\ need'[v] = need[v] /\ got'[v] = got[v]
  BY DEF Finish, Goto, Set, TypeOK
<1> QED
  BY <1>1, <1>2, QuietStep

\* The request leaves for a step at which it no longer intends to write.
LEMMA StepAway ==
    ASSUME TypeOK, SafeReads, NEW w \in Workers,
           NEW label \in {"settle", "verify", "unlock", "reject"}, Goto(w, label),
           UNCHANGED <<booking, unseen, owner, call, need, got>>
    PROVE  SafeReads'
<1>1. pc'[w] = label /\ \A v \in Workers \ {w} : pc'[v] = pc[v]
  BY DEF Goto, TypeOK
<1> QED
  BY <1>1, QuietStep

------------------------------------------------------------------------------
(* Locks *)

LEMMA BeginReads ==
    ASSUME TypeOK, SafeReads, NEW w \in Workers, NEW c \in Calls, Begin(w, c)
    PROVE  SafeReads'
<1>1. /\ UNCHANGED <<booking, unseen, owner, got>>
      /\ pc'[w] \in {"load", "lock"} /\ call'[w] = c
      /\ c.op = "create" => need'[w] = Claims(c.new)
      /\ c.op # "create" => pc'[w] = "load"
      /\ \A v \in Workers \ {w} : pc'[v] = pc[v] /\ call'[v] = call[v] /\ need'[v] = need[v]
  BY DEF Begin, Goto, Set, TypeOK, db, table
<1>2. HoldersOwn' /\ UnseenApart'
  BY <1>1 DEF SafeReads, HoldersOwn, UnseenApart, Claims
<1>3. LocksCover'
  BY <1>1 DEF SafeReads, LocksCover, Claims
<1>4. ReadsFresh'
  BY <1>1 DEF SafeReads, ReadsFresh, Overtakes, Live
<1> QED
  BY <1>2, <1>3, <1>4 DEF SafeReads

LEMMA LoadKeysReads ==
    ASSUME TypeOK, SafeReads, NEW w \in Workers, LoadKeys(w) PROVE SafeReads'
<1>1. /\ UNCHANGED <<booking, unseen, owner, call, got>>
      /\ pc'[w] = "lock"
      /\ Inserts(call[w]) => Claims(call[w].new) \subseteq need'[w]
      /\ \A v \in Workers \ {w} : pc'[v] = pc[v] /\ need'[v] = need[v]
  BY DEF LoadKeys, Goto, Set, TypeOK, db, table
<1>2. HoldersOwn' /\ UnseenApart'
  BY <1>1 DEF SafeReads, HoldersOwn, UnseenApart, Claims
<1>3. LocksCover'
  BY <1>1 DEF SafeReads, LocksCover, Claims
<1>4. ReadsFresh'
  BY <1>1 DEF SafeReads, ReadsFresh, Overtakes, Live
<1> QED
  BY <1>2, <1>3, <1>4 DEF SafeReads

LEMMA AcquireReads ==
    ASSUME TypeOK, SafeReads, NEW w \in Workers, NEW k \in LockKeys, Acquire(w, k)
    PROVE  SafeReads'
<1>1. /\ UNCHANGED <<booking, unseen, call, pc, need>>
      /\ pc[w] = "lock" /\ owner[k] = Free
      /\ got'[w] = got[w] \cup {k} /\ owner'[k] = w
      /\ \A j \in LockKeys \ {k} : owner'[j] = owner[j]
      /\ \A v \in Workers \ {w} : got'[v] = got[v]
  BY DEF Acquire, Set, TypeOK, db, table
<1>2. UnseenApart' /\ ReadsFresh'
  BY <1>1 DEF SafeReads, UnseenApart, ReadsFresh, Overtakes, Live, Claims
<1>3. HoldersOwn'
  <2> SUFFICES ASSUME MaxLosses = 0, NEW v \in Workers, NEW j \in got'[v]
               PROVE  owner'[j] = v
    BY DEF HoldersOwn
  <2>1. got[v] \subseteq LockKeys /\ \A i \in got[v] : owner[i] = v
    BY DEF TypeOK, SafeReads, HoldersOwn
  <2>2. k \notin got[v]
    BY <1>1, <2>1, ConstantsOK
  <2> QED
    BY <1>1, <2>1, <2>2
<1>4. LocksCover'
  BY <1>1 DEF SafeReads, LocksCover, Claims
<1> QED
  BY <1>2, <1>3, <1>4 DEF SafeReads

LEMMA AllAcquiredReads ==
    ASSUME TypeOK, SafeReads, NEW w \in Workers, AllAcquired(w) PROVE SafeReads'
<1>1. /\ UNCHANGED <<booking, unseen, owner, call, need, got>>
      /\ pc[w] = "lock" /\ pc'[w] = "read" /\ got[w] = need[w]
      /\ \A v \in Workers \ {w} : pc'[v] = pc[v]
  BY DEF AllAcquired, Goto, TypeOK, db, table, locals
<1>2. HoldersOwn' /\ UnseenApart' /\ ReadsFresh'
  BY <1>1 DEF SafeReads, HoldersOwn, UnseenApart, ReadsFresh, Overtakes, Live, Claims
<1>3. LocksCover'
  BY <1>1 DEF SafeReads, LocksCover, Claims
<1> QED
  BY <1>2, <1>3 DEF SafeReads

LEMMA AcquireFailsReads ==
    ASSUME TypeOK, SafeReads, NEW w \in Workers, NEW why, AcquireFails(w, why)
    PROVE  SafeReads'
<1>1. UNCHANGED <<booking, unseen, call>>
  BY DEF AcquireFails, db, table
<1>2. \A k \in LockKeys : owner[k] # w => owner'[k] = owner[k]
  BY ReleaseTouchesOwn DEF AcquireFails
<1>3. CASE why = "unavailable"
  BY <1>1, <1>2, <1>3, EndOfRequest DEF AcquireFails
<1>4. CASE why # "unavailable"
  <2>1. /\ UNCHANGED need /\ got'[w] = {} /\ pc'[w] = "reject"
        /\ \A v \in Workers \ {w} : pc'[v] = pc[v] /\ got'[v] = got[v]
    BY <1>4 DEF AcquireFails, Goto, Set, TypeOK
  <2> QED
    BY <1>1, <1>2, <2>1, QuietStep
<1> QED
  BY <1>3, <1>4

------------------------------------------------------------------------------
(* The transaction *)

\* The locking reads are followed by the writes only if they have found
\* nothing that clashes with the booking about to be inserted, or only what the
\* request overtakes.
LEMMA PassedReads ==
    ASSUME TypeOK, SafeReads, NEW w \in Workers, pc[w] \in {"read", "scan"}, Goto(w, "commit"),
           pc[w] = "read" => call[w].op # "create",
           UNCHANGED <<booking, unseen, owner, call, need, got>>,
           Inserts(call[w]) =>
              \A b \in Bookings : Live(b) /\ Clash(call[w].new, b) =>
                 \/ GivesUp(call[w]) /\ b = call[w].old
                 \/ Overtakes(w, b)
    PROVE  SafeReads'
<1>1. pc'[w] = "commit" /\ \A v \in Workers \ {w} : pc'[v] = pc[v]
  BY DEF Goto, TypeOK
<1>2. HoldersOwn' /\ UnseenApart'
  BY <1>1 DEF SafeReads, HoldersOwn, UnseenApart, Claims
<1>3. LocksCover'
  BY <1>1 DEF SafeReads, LocksCover, Claims
<1>4. ReadsFresh'
  BY <1>1 DEF SafeReads, ReadsFresh, Overtakes, Live
<1> QED
  BY <1>2, <1>3, <1>4 DEF SafeReads

\* A new snapshot misses nothing.
LEMMA SnapshotReads ==
    ASSUME TypeOK, SafeReads, NEW w \in Workers, TakeSnapshot(w) PROVE SafeReads'
<1>1. /\ UNCHANGED <<booking, owner, call, need, got>>
      /\ pc[w] = "read" /\ pc'[w] = "scan" /\ unseen'[w] = {}
      /\ \A v \in Workers \ {w} : pc'[v] = pc[v] /\ unseen'[v] = unseen[v]
  BY DEF TakeSnapshot, Goto, Set, TypeOK, table, locals
<1>2. HoldersOwn' /\ UnseenApart'
  BY <1>1 DEF SafeReads, HoldersOwn, UnseenApart, Claims
<1>3. LocksCover'
  BY <1>1 DEF SafeReads, LocksCover, Claims
<1>4. ReadsFresh'
  BY <1>1 DEF SafeReads, ReadsFresh, Overtakes, Live
<1> QED
  BY <1>2, <1>3, <1>4 DEF SafeReads

\* What the reads of a create let pass is what it overtakes.
LEMMA PassedIsOvertaken ==
    ASSUME TypeOK, NEW w \in Workers, pc[w] = "scan",
           SeenConflicts(w, call[w].new, Occupied(call[w].new)) = {},
           NEW b \in Bookings, Live(b), Clash(call[w].new, b)
    PROVE  Overtakes(w, b)
<1> DEFINE new == call[w].new
<1>1. call[w] \in Calls /\ call[w].op = "create" /\ new \in Bookings
  BY CallsOK DEF TypeOK
<1>2. b \in Occupied(new) /\ b # new /\ Overlaps(new, b)
  BY ClashIsSymmetric DEF Occupied, Clash
<1>3. Claims(new) \cap SeenClaims(w, b) = {}
  BY <1>2 DEF SeenConflicts
<1>4. b \in unseen[w]
  BY <1>3 DEF SeenClaims, Clash
<1>5. Details[b].staff \notin Details[new].locks
  BY <1>3, <1>4 DEF SeenClaims, Claims
<1>6. Details[new].staff \in Details[new].locks
  BY <1>1, DetailsOK
<1> QED
  BY <1>1, <1>4, <1>5, <1>6 DEF Overtakes

LEMMA ReadsKeepReads ==
    ASSUME TypeOK, SafeReads, NEW w \in Workers,
           \/ FindPrior(w) \/ ReadForCreate(w) \/ ReadForCancel(w) \/ ReadForReschedule(w)
           \/ TxFails(w)
    PROVE  SafeReads'
<1> DEFINE c == call[w]
           away == \E label \in {"settle", "unlock"} : Goto(w, label)
           clear == Inserts(c) => \A b \in Bookings : Live(b) /\ Clash(c.new, b) =>
                                     GivesUp(c) /\ b = c.old
<1>1. UNCHANGED <<booking, unseen, owner, call, need, got>>
  BY DEF FindPrior, ReadForCreate, ReadForCancel, ReadForReschedule, TxFails, db, table
<1>2. CASE FindPrior(w)
  <2>1. away
    BY <1>2 DEF FindPrior, GiveUp
  <2> QED
    BY <1>1, <2>1, StepAway
<1>3. CASE ReadForCreate(w)
  <2>0. pc[w] = "scan"
    BY <1>3 DEF ReadForCreate
  <2>1. CASE SeenConflicts(w, c.new, Occupied(c.new)) # {}
    <3>1. away
      BY <1>3, <2>1 DEF ReadForCreate, GiveUp
    <3> QED
      BY <1>1, <3>1, StepAway
  <2>2. CASE SeenConflicts(w, c.new, Occupied(c.new)) = {}
    <3>1. Goto(w, "commit")
      BY <1>3, <2>2 DEF ReadForCreate
    <3>2. \A b \in Bookings : Live(b) /\ Clash(c.new, b) => Overtakes(w, b)
      BY <2>0, <2>2, PassedIsOvertaken
    <3> QED
      BY <1>1, <2>0, <3>1, <3>2, PassedReads
  <2> QED
    BY <2>1, <2>2
<1>4. CASE ReadForCancel(w)
  <2>1. CASE ~Live(c.old)
    <3>1. away
      BY <1>4, <2>1 DEF ReadForCancel, GiveUp
    <3> QED
      BY <1>1, <3>1, StepAway
  <2>2. CASE Live(c.old)
    <3>1. pc[w] = "read" /\ Goto(w, "commit") /\ ~Inserts(c) /\ c.op # "create"
      BY <1>4, <2>2 DEF ReadForCancel, Inserts
    <3> QED
      BY <1>1, <3>1, PassedReads
  <2> QED
    BY <2>1, <2>2
<1>5. CASE ReadForReschedule(w)
  <2> DEFINE standing == Occupied(c.new) \ {c.old}
  <2>1. CASE ~Live(c.old) \/ FindConflicts(c.new, standing) # {}
    <3>1. away
      BY <1>5, <2>1 DEF ReadForReschedule, GiveUp
    <3> QED
      BY <1>1, <3>1, StepAway
  <2>2. CASE Live(c.old) /\ FindConflicts(c.new, standing) = {}
    <3>1. pc[w] = "read" /\ Goto(w, "commit") /\ GivesUp(c) /\ c.op # "create"
      BY <1>5, <2>2 DEF ReadForReschedule, GivesUp
    <3>2. clear
      BY <2>2, <3>1, ClashIsSymmetric DEF FindConflicts, Occupied, Clash
    <3> QED
      BY <1>1, <3>1, <3>2, PassedReads
  <2> QED
    BY <2>1, <2>2
<1>6. CASE TxFails(w)
  BY <1>1, <1>6, StepAway DEF TxFails
<1> QED
  BY <1>2, <1>3, <1>4, <1>5, <1>6

\* Two requests about to insert at the same time do not ask for the same staff
\* member or resource at overlapping times.
LEMMA WritersApart ==
    ASSUME TypeOK, SafeReads, OneGuardHolds,
           NEW w \in Workers, NEW v \in Workers, v # w,
           pc[w] = "commit", Inserts(call[w]), CanInsert(w, call[w].new),
           pc[v] = "commit", Inserts(call[v])
    PROVE  ~Clash(call[v].new, call[w].new)
<1>1. CASE GapLocks
  BY <1>1 DEF CanInsert, Clash, Overlaps
<1>2. CASE MaxLosses = 0
  <2>1. Claims(call[w].new) \subseteq got[w] /\ Claims(call[v].new) \subseteq got[v]
    BY DEF SafeReads, LocksCover
  <2>2. \A k \in got[w] : owner[k] = w
    BY <1>2 DEF SafeReads, HoldersOwn
  <2>3. \A k \in got[v] : owner[k] = v
    BY <1>2 DEF SafeReads, HoldersOwn
  <2> QED
    BY <2>1, <2>2, <2>3 DEF Clash
<1> QED
  BY <1>1, <1>2 DEF OneGuardHolds

\* What a commit adds to a snapshot that misses it was asked for under locks
\* the other request does not hold.
LEMMA CommitUnseen ==
    ASSUME TypeOK, SafeReads, NEW w \in Workers, Commit(w), MaxLosses = 0,
           NEW v \in Workers, pc'[v] \in {"scan", "commit"}, call[v].op = "create",
           NEW b \in unseen'[v]
    PROVE  Claims(b) \cap Claims(call[v].new) = {}
<1> DEFINE c == call[w]
<1>1. /\ pc[w] = "commit" /\ c \in Calls
      /\ unseen'[v] = IF pc[v] = "scan" /\ Inserts(c) THEN unseen[v] \cup {c.new} ELSE unseen[v]
  BY DEF Commit, TypeOK
<1>2. v # w /\ pc[v] \in {"scan", "commit"}
  BY DEF Commit, Goto, TypeOK
<1>3. CASE b \in unseen[v]
  BY <1>2, <1>3 DEF SafeReads, UnseenApart
<1>4. CASE b \notin unseen[v]
  <2>1. pc[v] = "scan" /\ Inserts(c) /\ b = c.new
    BY <1>1, <1>4
  <2>2. Claims(c.new) \subseteq got[w] /\ Claims(call[v].new) \subseteq got[v]
    BY <1>1, <2>1 DEF SafeReads, LocksCover, Inserts
  <2>3. (\A k \in got[w] : owner[k] = w) /\ (\A k \in got[v] : owner[k] = v)
    BY DEF SafeReads, HoldersOwn
  <2> QED
    BY <1>2, <2>1, <2>2, <2>3
<1> QED
  BY <1>3, <1>4

LEMMA CommitReads ==
    ASSUME TypeOK, SafeReads, OneGuardHolds, NEW w \in Workers, Commit(w)
    PROVE  SafeReads'
<1> DEFINE c == call[w]
<1>1. /\ pc[w] = "commit" /\ c \in Calls
      /\ Inserts(c) => CanInsert(w, c.new)
      /\ UNCHANGED <<owner, call, need, got>>
      /\ booking' = Written(c)
      /\ \A v \in Workers : pc[v] = "commit" => unseen'[v] = unseen[v]
  BY DEF Commit, TypeOK
<1>2. pc'[w] \in {"settle", "unlock"} /\ \A v \in Workers \ {w} : pc'[v] = pc[v]
  BY DEF Commit, Goto, TypeOK
<1>3. \A b \in Bookings : Live(b)' =>
         \/ Inserts(c) /\ b = c.new
         \/ Live(b) /\ ~(GivesUp(c) /\ b = c.old)
  BY <1>1 DEF Written, Live, GivesUp
<1>4. UnseenApart'
  BY <1>1, CommitUnseen DEF UnseenApart, Claims
<1>5. HoldersOwn'
  BY <1>1 DEF SafeReads, HoldersOwn
<1>6. LocksCover'
  BY <1>1, <1>2 DEF SafeReads, LocksCover, Claims
<1>7. ReadsFresh'
  <2> SUFFICES ASSUME NEW v \in Workers, pc'[v] = "commit", Inserts(call'[v]),
                      NEW b \in Bookings, Live(b)', Clash(call'[v].new, b)
               PROVE  \/ GivesUp(call'[v]) /\ b = call'[v].old
                      \/ Overtakes(v, b)'
    BY DEF ReadsFresh, Clash, Overlaps, Claims
  <2>1. v # w /\ pc[v] = "commit" /\ call'[v] = call[v] /\ unseen'[v] = unseen[v]
    BY <1>1, <1>2
  <2>2. CASE Inserts(c) /\ b = c.new
    BY <1>1, <2>1, <2>2, WritersApart
  <2>3. CASE Live(b)
    BY <2>1, <2>3 DEF SafeReads, ReadsFresh, Overtakes
  <2> QED
    BY <1>3, <2>2, <2>3
<1> QED
  BY <1>4, <1>5, <1>6, <1>7 DEF SafeReads

------------------------------------------------------------------------------
(* All steps *)

LEMMA OutcomeStepsReads ==
    ASSUME TypeOK, SafeReads, NEW w \in Workers,
           \/ LoadFails(w) \/ Settle(w) \/ SettleFails(w) \/ Verify(w) \/ Unlock(w)
           \/ Reject(w) \/ RejectFails(w)
    PROVE  SafeReads'
<1>1. CASE LoadFails(w) \/ Settle(w) \/ SettleFails(w) \/ Verify(w)
  <2>1. UNCHANGED <<booking, unseen, owner, call, need, got>>
    BY <1>1 DEF LoadFails, Settle, SettleFails, Verify, db, table, locals
  <2>2. \E label \in {"settle", "verify", "unlock", "reject"} : Goto(w, label)
    BY <1>1 DEF LoadFails, Settle, SettleFails, Verify, GiveUp
  <2> QED
    BY <2>1, <2>2, StepAway
<1>2. CASE Reject(w) \/ RejectFails(w)
  <2>1. UNCHANGED <<booking, unseen, owner, call>>
    BY <1>2 DEF Reject, RejectFails, db, table
  <2>2. Finish(w, res[w]) \/ Finish(w, Failure("unknown"))
    BY <1>2 DEF Reject, RejectFails
  <2> QED
    BY <2>1, <2>2, EndOfRequest
<1>3. CASE Unlock(w)
  <2>1. UNCHANGED <<booking, unseen, call>>
    BY <1>3 DEF Unlock, db, table
  <2>2. \A k \in LockKeys : owner[k] # w => owner'[k] = owner[k]
    BY <1>3, ReleaseTouchesOwn DEF Unlock
  <2>3. ASSUME NEW r, Finish(w, r) PROVE SafeReads'
    BY <2>1, <2>2, <2>3, EndOfRequest
  <2>4. CASE Goto(w, "reject") /\ got' = Set(got, w, {}) /\ UNCHANGED need
    <3>1. /\ got'[w] = {} /\ pc'[w] = "reject"
          /\ \A v \in Workers \ {w} : pc'[v] = pc[v] /\ got'[v] = got[v]
      BY <2>4 DEF Goto, Set, TypeOK
    <3> QED
      BY <2>1, <2>2, <2>4, <3>1, QuietStep
  <2> QED
    BY <1>3, <2>3, <2>4 DEF Unlock
<1> QED
  BY <1>1, <1>2, <1>3

LEMMA EnvironmentReads ==
    ASSUME TypeOK, SafeReads, Environment PROVE SafeReads'
<1>1. ASSUME NEW w \in Workers, Crash(w) PROVE SafeReads'
  <2>1. UNCHANGED <<booking, unseen>> /\ Finish(w, Failure("none"))
    BY <1>1 DEF Crash, db, table
  <2>2. \A v \in Workers \ {w} : call'[v] = call[v]
    BY <1>1 DEF Crash, Set, TypeOK
  <2>3. \A k \in LockKeys : owner[k] # w => owner'[k] = owner[k]
    BY <1>1, ReleaseTouchesOwn DEF Crash
  <2> QED
    BY <2>1, <2>2, <2>3, EndOfRequest
<1>2. ASSUME NEW w \in Workers, WatchdogFindsLoss(w) \/ RenewalErrors(w) PROVE SafeReads'
  <2>1. UNCHANGED <<booking, unseen, owner, pc, call, need, got>>
    BY <1>2 DEF WatchdogFindsLoss, RenewalErrors, db, table
  <2> QED
    BY <2>1, UnrelatedStep
<1>3. ASSUME NEW k \in LockKeys, OrphanExpires(k) \/ LockVanishes(k) PROVE SafeReads'
  <2>1. /\ UNCHANGED <<booking, unseen, pc, call, need, got>>
        /\ \A j \in LockKeys \ {k} : owner'[j] = owner[j]
        /\ MaxLosses = 0 => owner[k] = Orphan
    BY <1>3 DEF OrphanExpires, LockVanishes, TypeOK, db, table, locals
  <2>2. LocksCover' /\ UnseenApart' /\ ReadsFresh'
    BY <2>1 DEF SafeReads, LocksCover, UnseenApart, ReadsFresh, Overtakes, Live, Claims
  <2>3. HoldersOwn'
    BY <2>1, ConstantsOK DEF SafeReads, HoldersOwn, TypeOK
  <2> QED
    BY <2>2, <2>3 DEF SafeReads
<1> QED
  BY <1>1, <1>2, <1>3 DEF Environment

LEMMA StepReads ==
    ASSUME OneGuardHolds, TypeOK, SafeReads, [Next]_vars PROVE SafeReads'
<1>1. ASSUME NEW w \in Workers, NEW c \in Calls, Begin(w, c) PROVE SafeReads'
  BY <1>1, BeginReads
<1>2. ASSUME NEW w \in Workers, NEW c \in Calls, Replay(w, c) PROVE SafeReads'
  <2>1. /\ pc[w] = "idle" /\ UNCHANGED <<booking, unseen, owner, pc, need, got>>
        /\ \A v \in Workers \ {w} : call'[v] = call[v]
    BY <1>2 DEF Replay, Set, TypeOK, db, table
  <2> QED
    BY <2>1, QuietStep
<1>3. ASSUME NEW w \in Workers, WorkerStep(w) PROVE SafeReads'
  BY <1>3, LoadKeysReads, AcquireReads, AllAcquiredReads, AcquireFailsReads,
     SnapshotReads, ReadsKeepReads, CommitReads, OutcomeStepsReads DEF WorkerStep
<1>4. CASE Environment
  BY <1>4, EnvironmentReads
<1>5. CASE Reconcile \/ UNCHANGED vars
  <2>1. UNCHANGED <<booking, unseen, owner, pc, call, need, got>>
    BY <1>5 DEF Reconcile, ReconcileStart, ReconcileObserve, ReconcileWrite, db, table, locals, vars
  <2> QED
    BY <2>1, UnrelatedStep
<1> QED
  BY <1>1, <1>2, <1>3, <1>4, <1>5 DEF Next

\* The locks and the reads of the kernel, for every number of requests,
\* bookings and keys: under one of the two guards, what a request has read about
\* the bookings it would clash with is true until it commits, the bookings it
\* overtakes aside (withBookingLocks, booking_core.go:93-153, 335-366).
THEOREM ReadsStaySafe == ASSUME OneGuardHolds PROVE Spec => []SafeReads
BY InitTypeOK, StepTypeOK, InitSafeReads, StepReads, PTL DEF Spec

\* A row becomes live by the commit of the request that asked for it, and what
\* it clashes with was overtaken.
LEMMA NewcomersOvertake ==
    ASSUME TypeOK, SafeReads, [Next]_vars,
           NEW b \in Bookings, ~Live(b), Live(b)',
           NEW c \in Bookings, Live(c)', Clash(b, c)
    PROVE  \E w \in Workers : pc[w] = "commit" /\ call[w].new = b /\ Overtakes(w, c)
<1>1. PICK w \in Workers : Commit(w)
  <2>1. ASSUME NEW w \in Workers,
               (\E d \in Calls : Begin(w, d) \/ Replay(w, d)) \/ (WorkerStep(w) /\ ~Commit(w))
        PROVE  UNCHANGED booking
    <3>1. ASSUME NEW d \in Calls, Begin(w, d) \/ Replay(w, d) PROVE UNCHANGED booking
      BY <3>1 DEF Begin, Replay, db, table
    <3>2. CASE \/ LoadKeys(w) \/ LoadFails(w) \/ AllAcquired(w) \/ TxFails(w)
               \/ \E k \in LockKeys : Acquire(w, k)
               \/ \E why \in {"lockBusy", "lockError", "unavailable"} : AcquireFails(w, why)
      BY <3>2 DEF LoadKeys, LoadFails, AllAcquired, TxFails, Acquire, AcquireFails, db, table
    <3>3. CASE \/ FindPrior(w) \/ TakeSnapshot(w) \/ ReadForCreate(w) \/ ReadForCancel(w)
               \/ ReadForReschedule(w)
      BY <3>3 DEF FindPrior, TakeSnapshot, ReadForCreate, ReadForCancel, ReadForReschedule, db, table
    <3>4. CASE \/ Settle(w) \/ SettleFails(w) \/ Verify(w) \/ Unlock(w) \/ Reject(w)
               \/ RejectFails(w)
      BY <3>4 DEF Settle, SettleFails, Verify, Unlock, Reject, RejectFails, db, table
    <3> QED
      BY <2>1, <3>1, <3>2, <3>3, <3>4 DEF WorkerStep
  <2>2. ASSUME Environment PROVE UNCHANGED booking
    <3>1. ASSUME NEW w \in Workers, Crash(w) \/ WatchdogFindsLoss(w) \/ RenewalErrors(w)
          PROVE  UNCHANGED booking
      BY <3>1 DEF Crash, WatchdogFindsLoss, RenewalErrors, db, table
    <3>2. ASSUME NEW k \in LockKeys, OrphanExpires(k) \/ LockVanishes(k) PROVE UNCHANGED booking
      BY <3>2 DEF OrphanExpires, LockVanishes, db, table
    <3> QED
      BY <2>2, <3>1, <3>2 DEF Environment
  <2>3. ASSUME Reconcile \/ UNCHANGED vars PROVE UNCHANGED booking
    BY <2>3 DEF Reconcile, vars, db, table, ReconcileStart, ReconcileObserve, ReconcileWrite
  <2>4. booking' # booking
    BY DEF Live
  <2> QED
    BY <2>1, <2>2, <2>3, <2>4 DEF Next
<1> DEFINE a == call[w]
<1>2. pc[w] = "commit" /\ a \in Calls /\ booking' = Written(a)
  BY <1>1 DEF Commit, TypeOK
<1>3. Inserts(a) /\ b = a.new
  BY <1>2 DEF Written, Live
<1>4. c # b /\ Live(c) /\ ~(GivesUp(a) /\ c = a.old)
  BY <1>2, <1>3 DEF Written, Live, Clash
<1> QED
  BY <1>2, <1>3, <1>4 DEF SafeReads, ReadsFresh

\* With the range locks of the database alone, whatever Redis loses: who is
\* promised twice has been overtaken, and is a resource.
THEOREM OnlyOvertaken == ASSUME GapLocks PROVE Spec => OnlyOvertakersClash
<1>1. TypeOK /\ SafeReads /\ [Next]_vars =>
         [\A b, c \in Bookings : ~Live(b) /\ Live(b)' /\ Live(c)' /\ Clash(b, c) =>
             \E w \in Workers : call[w].new = b /\ Overtakes(w, c)]_vars
  BY NewcomersOvertake
<1>2. OneGuardHolds
  BY DEF OneGuardHolds
<1> QED
  BY <1>1, <1>2, TypeCorrect, ReadsStaySafe, PTL DEF Spec, OnlyOvertakersClash

\* A staff member is never promised twice for overlapping times, whatever Redis
\* loses: the first of the requirements on bookings (docs/product, line 20).
THEOREM StaffBookedOnce == ASSUME GapLocks PROVE Spec => []StaffOnce
<1>1. Init => StaffOnce
  BY SeededOK DEF Init, StaffOnce, Live
<1>2. ASSUME TypeOK, SafeReads, StaffOnce, [Next]_vars PROVE StaffOnce'
  <2> SUFFICES ASSUME NEW b \in Bookings, NEW c \in Bookings, Live(b)', Live(c)', Clash(b, c)
               PROVE  Details[b].staff # Details[c].staff
    BY DEF StaffOnce, Clash, Overlaps, Claims
  <2>1. CASE Live(b) /\ Live(c)
    BY <1>2, <2>1 DEF StaffOnce
  <2>2. CASE ~Live(b)
    BY <1>2, <2>2, NewcomersOvertake DEF Overtakes
  <2>3. CASE ~Live(c)
    BY <1>2, <2>3, NewcomersOvertake, ClashIsSymmetric DEF Overtakes
  <2> QED
    BY <2>1, <2>2, <2>3
<1>3. OneGuardHolds
  BY DEF OneGuardHolds
<1> QED
  BY <1>1, <1>2, <1>3, TypeCorrect, ReadsStaySafe, PTL DEF Spec

\* With locks that do not vanish nothing that clashes is overtaken.
LEMMA NothingOvertaken ==
    ASSUME MaxLosses = 0, SafeReads, NEW w \in Workers, pc[w] = "commit",
           NEW b, Clash(call[w].new, b)
    PROVE  ~Overtakes(w, b)
BY DEF SafeReads, UnseenApart, Overtakes, Clash

\* The invariant of the locks and the reads, when no Redis lock vanishes under
\* its holder: no two live bookings ever want the same staff member or exclusive
\* resource at overlapping times.
THEOREM ExclusionHolds == ASSUME MaxLosses = 0 PROVE Spec => []Exclusion
<1>1. Init => NoDoubleBooking
  BY SeededOK DEF Init, NoDoubleBooking, Live
<1>2. ASSUME TypeOK, SafeReads, NoDoubleBooking, [Next]_vars PROVE NoDoubleBooking'
  <2>1. ASSUME NEW b \in Bookings, ~Live(b), Live(b)', NEW c \in Bookings, Live(c)', Clash(b, c)
        PROVE  FALSE
    BY <1>2, <2>1, NewcomersOvertake, NothingOvertaken
  <2> SUFFICES ASSUME NEW b \in Bookings, NEW c \in Bookings, Live(b)', Live(c)', Clash(b, c)
               PROVE  FALSE
    BY DEF NoDoubleBooking, Clash, Overlaps, Claims
  <2>2. Live(b) /\ Live(c)
    BY <2>1, ClashIsSymmetric
  <2> QED
    BY <1>2, <2>2 DEF NoDoubleBooking
<1>3. OneGuardHolds
  BY DEF OneGuardHolds
<1> QED
  BY <1>1, <1>2, <1>3, TypeCorrect, ReadsStaySafe, PTL DEF Spec, Exclusion

------------------------------------------------------------------------------
(* No two requests wait for each other *)

\* What a waiting request holds sorts before what it still needs, and a request
\* that has not begun to lock holds nothing.
LocksInOrder ==
    \A w \in Workers :
        /\ pc[w] \in {"idle", "load"} => got[w] = {}
        /\ pc[w] = "lock" =>
              \A j \in got[w] : \A k \in need[w] \ got[w] : Rank[j] < Rank[k]

\* A request that keeps its place, drops its locks or is past the locking
\* does not disturb the order.
LEMMA OrderKept ==
    ASSUME LocksInOrder, NEW w \in Workers,
           \A v \in Workers \ {w} :
              pc'[v] = pc[v] /\ need'[v] = need[v] /\ got'[v] = got[v],
           got'[w] = {} \/ pc'[w] \notin {"idle", "load", "lock"}
    PROVE  LocksInOrder'
BY DEF LocksInOrder

LEMMA AcquireInOrder ==
    ASSUME TypeOK, LocksInOrder, NEW w \in Workers, NEW k \in LockKeys, Acquire(w, k)
    PROVE  LocksInOrder'
<1>1. /\ UNCHANGED <<pc, need>> /\ pc[w] = "lock"
      /\ got'[w] = got[w] \cup {k}
      /\ \A v \in Workers \ {w} : got'[v] = got[v]
  BY DEF Acquire, Set, TypeOK
<1>2. k \in need[w] \ got[w] /\ \A j \in need[w] \ got[w] : Rank[k] <= Rank[j]
  BY DEF Acquire, NextKey
<1>3. ASSUME NEW j \in got'[w], NEW i \in need[w] \ got'[w] PROVE Rank[j] < Rank[i]
  <2>1. need[w] \subseteq LockKeys /\ got[w] \subseteq LockKeys
    BY DEF TypeOK
  <2>2. Rank[j] \in Nat /\ Rank[i] \in Nat /\ Rank[k] \in Nat
    BY <1>1, <2>1, RankOK
  <2>3. CASE j \in got[w]
    BY <1>1, <2>3 DEF LocksInOrder
  <2>4. CASE j = k
    <3>1. Rank[k] <= Rank[i] /\ i # k
      BY <1>1, <1>2
    <3>2. Rank[k] # Rank[i]
      BY <2>1, <3>1, RankOK
    <3> QED
      BY <2>2, <2>4, <3>1, <3>2
  <2> QED
    BY <1>1, <2>3, <2>4
<1> QED
  BY <1>1, <1>3 DEF LocksInOrder

\* Steps of w after which it holds nothing or is past the locking.
LEMMA PastLocking ==
    ASSUME TypeOK, NEW w \in Workers,
           \/ LoadFails(w) \/ AllAcquired(w) \/ FindPrior(w) \/ TakeSnapshot(w) \/ ReadForCreate(w)
           \/ ReadForCancel(w) \/ ReadForReschedule(w) \/ Commit(w) \/ TxFails(w)
           \/ Settle(w) \/ SettleFails(w) \/ Verify(w) \/ Unlock(w)
           \/ Reject(w) \/ RejectFails(w) \/ Crash(w)
           \/ \E why \in {"lockBusy", "lockError", "unavailable"} : AcquireFails(w, why)
    PROVE  /\ \A v \in Workers \ {w} :
                 pc'[v] = pc[v] /\ need'[v] = need[v] /\ got'[v] = got[v]
           /\ got'[w] = {} \/ pc'[w] \notin {"idle", "load", "lock"}
<1> DEFINE kept == \A v \in Workers \ {w} :
                      pc'[v] = pc[v] /\ need'[v] = need[v] /\ got'[v] = got[v]
           past == got'[w] = {} \/ pc'[w] \notin {"idle", "load", "lock"}
<1>1. ASSUME NEW r, Finish(w, r) PROVE kept /\ past
  BY <1>1 DEF Finish, Goto, Set, TypeOK
<1>2. ASSUME NEW label \in {"read", "scan", "commit", "settle", "verify", "unlock", "reject"},
             Goto(w, label), UNCHANGED <<need, got>>
      PROVE  kept /\ past
  BY <1>2 DEF Goto, TypeOK
<1>3. CASE \/ LoadFails(w) \/ AllAcquired(w) \/ FindPrior(w) \/ TakeSnapshot(w) \/ ReadForCreate(w)
           \/ ReadForCancel(w) \/ ReadForReschedule(w) \/ Commit(w) \/ TxFails(w)
           \/ Settle(w) \/ SettleFails(w) \/ Verify(w)
  <2>1. UNCHANGED <<need, got>>
    BY <1>3 DEF LoadFails, AllAcquired, FindPrior, TakeSnapshot, ReadForCreate, ReadForCancel,
                ReadForReschedule, Commit, TxFails, Settle, SettleFails, Verify, locals
  <2>2. \E label \in {"read", "scan", "commit", "settle", "verify", "unlock", "reject"} : Goto(w, label)
    BY <1>3 DEF LoadFails, AllAcquired, FindPrior, TakeSnapshot, ReadForCreate, ReadForCancel, GiveUp,
                ReadForReschedule, Commit, TxFails, Settle, SettleFails, Verify
  <2> QED
    BY <1>2, <2>1, <2>2
<1>4. CASE Reject(w) \/ RejectFails(w) \/ Crash(w)
  BY <1>1, <1>4 DEF Reject, RejectFails, Crash
<1>5. ASSUME Goto(w, "reject"), got' = Set(got, w, {}), UNCHANGED need PROVE kept /\ past
  BY <1>5 DEF Goto, Set, TypeOK
<1>6. CASE Unlock(w)
  BY <1>1, <1>5, <1>6 DEF Unlock
<1>7. ASSUME NEW why, AcquireFails(w, why) PROVE kept /\ past
  BY <1>1, <1>5, <1>7 DEF AcquireFails
<1> QED
  BY <1>3, <1>4, <1>6, <1>7

LEMMA StepInOrder == ASSUME TypeOK, LocksInOrder, [Next]_vars PROVE LocksInOrder'
<1>1. ASSUME NEW w \in Workers, NEW c \in Calls, Begin(w, c) PROVE LocksInOrder'
  <2>1. /\ got'[w] = {}
        /\ \A v \in Workers \ {w} :
              pc'[v] = pc[v] /\ need'[v] = need[v] /\ got'[v] = got[v]
    BY <1>1 DEF Begin, Goto, Set, TypeOK, LocksInOrder
  <2> QED
    BY <2>1, OrderKept
<1>2. ASSUME NEW w \in Workers, LoadKeys(w) PROVE LocksInOrder'
  <2>1. /\ got'[w] = {}
        /\ \A v \in Workers \ {w} :
              pc'[v] = pc[v] /\ need'[v] = need[v] /\ got'[v] = got[v]
    BY <1>2 DEF LoadKeys, Goto, Set, TypeOK, LocksInOrder
  <2> QED
    BY <2>1, OrderKept
<1>3. ASSUME NEW w \in Workers, WorkerStep(w) PROVE LocksInOrder'
  BY <1>2, <1>3, AcquireInOrder, PastLocking, OrderKept DEF WorkerStep
<1>4. CASE \E w \in Workers : Crash(w)
  BY <1>4, PastLocking, OrderKept
<1>5. CASE UNCHANGED <<pc, need, got>>
  BY <1>5 DEF LocksInOrder
<1>6. ASSUME NEW w \in Workers, NEW c \in Calls, Replay(w, c) PROVE UNCHANGED <<pc, need, got>>
  BY <1>6 DEF Replay
<1>7. CASE \/ \E w \in Workers : WatchdogFindsLoss(w) \/ RenewalErrors(w)
           \/ \E k \in LockKeys : OrphanExpires(k) \/ LockVanishes(k)
           \/ Reconcile \/ UNCHANGED vars
  BY <1>5, <1>7 DEF WatchdogFindsLoss, RenewalErrors, OrphanExpires, LockVanishes, locals,
                    Reconcile, ReconcileStart, ReconcileObserve, ReconcileWrite, vars
<1> QED
  BY <1>1, <1>3, <1>4, <1>5, <1>6, <1>7 DEF Next, Environment

\* Ordered acquisition (lock/ordered.go) keeps two requests from waiting for
\* each other's locks.
THEOREM NoTwoWait == Spec => []NoWaitCycle
<1>1. Init => LocksInOrder
  BY DEF Init, LocksInOrder
<1>2. TypeOK /\ LocksInOrder => NoWaitCycle
  <2> SUFFICES ASSUME TypeOK, LocksInOrder, NEW w \in Workers, NEW v \in Workers, w # v,
                      Waits(w, v), Waits(v, w)
               PROVE  FALSE
    BY DEF NoWaitCycle
  <2>1. PICK j \in got[v] : NextKey(w, j)
    BY DEF Waits
  <2>2. PICK k \in got[w] : NextKey(v, k)
    BY DEF Waits
  <2>3. pc[w] = "lock" /\ pc[v] = "lock" /\ j \in need[w] \ got[w] /\ k \in need[v] \ got[v]
    BY <2>1, <2>2 DEF Waits, NextKey
  <2>4. Rank[k] < Rank[j] /\ Rank[j] < Rank[k]
    BY <2>1, <2>2, <2>3 DEF LocksInOrder
  <2>5. Rank[j] \in Nat /\ Rank[k] \in Nat
    BY <2>3, RankOK DEF TypeOK
  <2> QED
    BY <2>4, <2>5
<1> QED
  BY <1>1, <1>2, InitTypeOK, StepTypeOK, StepInOrder, PTL DEF Spec

------------------------------------------------------------------------------
(* The shapes of a request's steps, its locks left out *)

BeforeCommit == {"load", "lock", "read", "scan", "commit"}

\* One request moves.
Moves(w) ==
    \/ \E c \in Calls : Begin(w, c) \/ Replay(w, c)
    \/ WorkerStep(w)
    \/ Crash(w)

Confirmed(w) ==
    /\ outcome[Op(call[w])].status = "pending"
    /\ outcome' = Transitioned(Op(call[w]), "confirmed", res[w].booking)

Rejected(w) ==
    /\ outcome[Op(call[w])].status = "pending"
    /\ outcome' = Transitioned(Op(call[w]), "rejected", NoBooking)

Starts(w) ==
    \E c \in Calls :
        /\ pc[w] = "idle" /\ pc'[w] \in {"load", "lock"} /\ call'[w] = c
        /\ outcome[Op(c)].status = "none"
        /\ outcome' = [outcome EXCEPT ![Op(c)].status = "pending"]
        /\ rows'[w] = rows[w] /\ UNCHANGED table

Repeats(w) ==
    \E c \in Calls :
        /\ pc[w] = "idle" /\ pc'[w] = "idle" /\ call'[w] = c
        /\ outcome[Op(c)].status # "none" /\ res'[w] = ReplayAnswer(c)
        /\ rows'[w] = rows[w] /\ UNCHANGED <<table, outcome>>

Advances(w) ==
    /\ pc[w] \in {"load", "lock", "read", "scan"} /\ pc'[w] \in BeforeCommit /\ call'[w] = call[w]
    /\ \/ pc'[w] # "commit" /\ rows'[w] = rows[w]
       \/ /\ Unlocked(w, rows'[w])
          /\ GivesUp(call[w]) => call[w].old \in rows'[w] /\ Live(call[w].old)
    /\ UNCHANGED <<table, outcome>>

FailsEarly(w) ==
    /\ pc[w] \in BeforeCommit /\ pc'[w] \in {"unlock", "reject"} /\ call'[w] = call[w]
    /\ res'[w].kind \notin {"ok", "unknown"}
    /\ rows'[w] \subseteq rows[w] /\ UNCHANGED <<table, outcome>>

FindsPrior(w) ==
    /\ pc[w] = "read" /\ pc'[w] = "settle" /\ call'[w] = call[w] /\ call[w].op = "create"
    /\ \E e \in SameKey(call[w].new) : res'[w] = Ok(e)
    /\ rows'[w] = rows[w] /\ UNCHANGED <<table, outcome>>

Commits(w) ==
    /\ pc[w] = "commit" /\ call'[w] = call[w]
    /\ \/ pc'[w] = "settle" /\ res'[w] = Ok(Subject(call[w]))
       \/ AmbiguousCommit /\ pc'[w] = "unlock" /\ res'[w] = Failure("error")
    /\ Inserts(call[w]) => CanInsert(w, call[w].new)
    /\ booking' = Written(call[w])
    /\ outbox' = outbox \cup {EventOf(call[w])}
    /\ made' = [made EXCEPT ![Op(call[w])] = @ \cup {Subject(call[w])}]
    /\ rows'[w] = {} /\ UNCHANGED outcome

Settles(w) ==
    /\ pc[w] = "settle" /\ call'[w] = call[w]
    /\ \/ pc'[w] = "verify" /\ res'[w] = res[w] /\ Confirmed(w)
       \/ /\ pc'[w] = "unlock" /\ res'[w].kind = "unknown"
          /\ Confirmed(w) \/ UNCHANGED outcome
    /\ rows'[w] = rows[w] /\ UNCHANGED table

Verifies(w) ==
    /\ pc[w] = "verify" /\ pc'[w] = "unlock" /\ call'[w] = call[w]
    /\ res'[w] = res[w] \/ res'[w].kind = "unknown"
    /\ rows'[w] = rows[w] /\ UNCHANGED <<table, outcome>>

Unlocks(w) ==
    /\ pc[w] = "unlock" /\ call'[w] = call[w]
    /\ \/ pc'[w] = "idle" /\ res'[w] = res[w] /\ res[w].kind \in {"ok", "unknown"}
       \/ pc'[w] = "idle" /\ res'[w].kind = "unknown"
       \/ pc'[w] = "reject" /\ res'[w] = res[w] /\ res[w].kind \notin {"ok", "unknown"}
    /\ rows'[w] \subseteq rows[w] /\ UNCHANGED <<table, outcome>>

Rejects(w) ==
    /\ pc[w] = "reject" /\ pc'[w] = "idle" /\ call'[w] = call[w]
    /\ \/ res'[w] = res[w] /\ Rejected(w)
       \/ res'[w].kind = "unknown" /\ (Rejected(w) \/ UNCHANGED outcome)
    /\ rows'[w] = {} /\ UNCHANGED table

\* Redis is unavailable.
Breaks(w) ==
    /\ pc[w] = "lock" /\ pc'[w] = "idle" /\ call'[w] = call[w]
    /\ res'[w].kind = "unavailable"
    /\ rows'[w] = {} /\ UNCHANGED <<table, outcome>>

Dies(w) ==
    /\ pc[w] # "idle" /\ pc'[w] = "idle" /\ call'[w] = NoCall
    /\ rows'[w] = {} /\ UNCHANGED <<table, outcome>>

\* What a step of w does not touch.
OthersStay(w) ==
    /\ \A v \in Workers \ {w} : /\ pc'[v] = pc[v] /\ call'[v] = call[v]
                                /\ res'[v] = res[v] /\ rows'[v] = rows[v]
    /\ UNCHANGED recon

LEMMA StepKinds ==
    ASSUME [Next]_vars
    PROVE  \/ \E w \in Workers : Moves(w)
           \/ Reconcile
           \/ UNCHANGED <<table, outcome, pc, call, rows, res, recon>>
<1>1. CASE \/ \E w \in Workers : WatchdogFindsLoss(w) \/ RenewalErrors(w)
           \/ \E k \in LockKeys : OrphanExpires(k) \/ LockVanishes(k)
           \/ UNCHANGED vars
  BY <1>1 DEF WatchdogFindsLoss, RenewalErrors, OrphanExpires, LockVanishes, locals, db, table,
              vars
<1> QED
  BY <1>1 DEF Next, Environment, Moves

LEMMA MovesAlone ==
    ASSUME TypeOK, NEW w \in Workers, Moves(w) PROVE OthersStay(w)
<1> USE DEF OthersStay, TypeOK, Goto, Set, locals
<1>1. ASSUME NEW c \in Calls, Begin(w, c) \/ Replay(w, c) PROVE OthersStay(w)
  BY <1>1 DEF Begin, Replay
<1>2. CASE LoadKeys(w) \/ LoadFails(w) \/ AllAcquired(w) \/ \E k \in LockKeys : Acquire(w, k)
  BY <1>2 DEF LoadKeys, LoadFails, AllAcquired, Acquire
<1>3. ASSUME NEW why, AcquireFails(w, why) PROVE OthersStay(w)
  BY <1>3 DEF AcquireFails, Finish
<1>4. CASE FindPrior(w) \/ TakeSnapshot(w) \/ ReadForCreate(w)
  BY <1>4 DEF FindPrior, TakeSnapshot, ReadForCreate, GiveUp
<1>5. CASE ReadForCancel(w) \/ ReadForReschedule(w)
  BY <1>5 DEF ReadForCancel, ReadForReschedule, GiveUp
<1>6. CASE Commit(w) \/ TxFails(w)
  BY <1>6 DEF Commit, TxFails
<1>7. CASE Settle(w) \/ SettleFails(w) \/ Verify(w)
  BY <1>7 DEF Settle, SettleFails, Verify, GiveUp
<1>8. CASE Unlock(w)
  BY <1>8 DEF Unlock, Finish
<1>9. CASE Reject(w) \/ RejectFails(w) \/ Crash(w)
  BY <1>9 DEF Reject, RejectFails, Crash, Finish
<1> QED
  BY <1>1, <1>2, <1>3, <1>4, <1>5, <1>6, <1>7, <1>8, <1>9 DEF Moves, WorkerStep

LEMMA BeginShape ==
    ASSUME TypeOK, NEW w \in Workers, NEW c \in Calls, Begin(w, c)
    PROVE  Starts(w)
<1>1. /\ pc[w] = "idle" /\ outcome[Op(c)].status = "none"
      /\ outcome' = [outcome EXCEPT ![Op(c)].status = "pending"]
      /\ UNCHANGED table /\ rows' = rows
  BY DEF Begin, db
<1>2. call'[w] = c /\ pc'[w] \in {"load", "lock"}
  BY DEF Begin, Set, Goto, TypeOK
<1> QED
  BY <1>1, <1>2 DEF Starts

LEMMA ReplayShape ==
    ASSUME TypeOK, NEW w \in Workers, NEW c \in Calls, Replay(w, c)
    PROVE  Repeats(w)
<1>1. /\ pc[w] = "idle" /\ outcome[Op(c)].status # "none"
      /\ UNCHANGED <<table, outcome, pc, rows>>
  BY DEF Replay, db
<1>2. call'[w] = c /\ res'[w] = ReplayAnswer(c)
  BY DEF Replay, Set, TypeOK
<1> QED
  BY <1>1, <1>2 DEF Repeats

\* A request that ends answers r and has no row locked.
LEMMA FinishFacts ==
    ASSUME TypeOK, NEW w \in Workers, NEW r, Finish(w, r)
    PROVE  pc'[w] = "idle" /\ res'[w] = r /\ rows'[w] = {}
BY DEF Finish, Goto, Set, TypeOK

LEMMA GiveUpFacts ==
    ASSUME TypeOK, NEW w \in Workers, NEW kind, GiveUp(w, kind)
    PROVE  pc'[w] = "unlock" /\ res'[w].kind = kind /\ rows' = rows
BY DEF GiveUp, Goto, Set, TypeOK, Failure, Result

LEMMA LockShapes ==
    ASSUME TypeOK, NEW w \in Workers,
           \/ LoadKeys(w) \/ LoadFails(w) \/ AllAcquired(w)
           \/ \E k \in LockKeys : Acquire(w, k)
           \/ \E why \in {"lockBusy", "lockError", "unavailable"} : AcquireFails(w, why)
    PROVE  Advances(w) \/ FailsEarly(w) \/ Breaks(w)
<1>1. CASE LoadKeys(w) \/ AllAcquired(w) \/ \E k \in LockKeys : Acquire(w, k)
  <2>1. /\ pc[w] \in {"load", "lock"} /\ pc'[w] \in {"lock", "read"}
        /\ UNCHANGED <<table, outcome, call, rows>>
    BY <1>1 DEF LoadKeys, AllAcquired, Acquire, Goto, TypeOK, locals, db
  <2> QED
    BY <2>1 DEF Advances, BeforeCommit
<1>2. CASE LoadFails(w)
  <2>1. /\ pc[w] = "load" /\ pc'[w] = "reject" /\ res'[w].kind = "error"
        /\ UNCHANGED <<table, outcome, call, rows>>
    BY <1>2 DEF LoadFails, Goto, Set, TypeOK, Failure, Result, db
  <2> QED
    BY <2>1 DEF FailsEarly, BeforeCommit
<1>3. ASSUME NEW why \in {"lockBusy", "lockError", "unavailable"}, AcquireFails(w, why)
      PROVE  FailsEarly(w) \/ Breaks(w)
  <2>1. pc[w] = "lock" /\ UNCHANGED <<table, outcome, call>>
    BY <1>3 DEF AcquireFails, db
  <2>2. CASE why = "unavailable"
    <3>1. Finish(w, Failure(why))
      BY <1>3, <2>2 DEF AcquireFails
    <3>2. pc'[w] = "idle" /\ res'[w].kind = "unavailable" /\ rows'[w] = {}
      BY <2>2, <3>1, FinishFacts DEF Failure, Result
    <3> QED
      BY <2>1, <3>2 DEF Breaks
  <2>3. CASE why # "unavailable"
    <3>1. pc'[w] = "reject" /\ res'[w].kind \in {"lockBusy", "lockError"} /\ rows' = rows
      BY <1>3, <2>3 DEF AcquireFails, Goto, Set, TypeOK, Failure, Result
    <3> QED
      BY <2>1, <3>1 DEF FailsEarly, BeforeCommit
  <2> QED
    BY <2>2, <2>3
<1> QED
  BY <1>1, <1>2, <1>3

LEMMA TransactionShapes ==
    ASSUME TypeOK, NEW w \in Workers,
           \/ FindPrior(w) \/ TakeSnapshot(w) \/ ReadForCreate(w)
           \/ ReadForCancel(w) \/ ReadForReschedule(w) \/ Commit(w) \/ TxFails(w)
    PROVE  Advances(w) \/ FailsEarly(w) \/ FindsPrior(w) \/ Commits(w)
<1> DEFINE c == call[w]
<1>1. ASSUME pc[w] \in {"read", "scan"}, UNCHANGED <<table, outcome, call>>,
             NEW kind \in {"idempotencyConflict", "conflict", "notFound", "notCancellable"},
             GiveUp(w, kind)
      PROVE  FailsEarly(w)
  BY <1>1, GiveUpFacts DEF FailsEarly, BeforeCommit
<1>2. ASSUME pc[w] \in {"read", "scan"}, UNCHANGED <<table, outcome, call>>, NEW R,
             rows' = Set(rows, w, R), Goto(w, "commit"), Unlocked(w, R),
             GivesUp(c) => c.old \in R /\ Live(c.old)
      PROVE  Advances(w)
  <2>1. rows'[w] = R /\ pc'[w] = "commit"
    BY <1>2 DEF Set, Goto, TypeOK
  <2> QED
    BY <1>2, <2>1 DEF Advances, BeforeCommit
<1>3. CASE FindPrior(w)
  <2>1. /\ pc[w] = "read" /\ c.op = "create"
        /\ UNCHANGED <<table, outcome, call>>
    BY <1>3 DEF FindPrior, db
  <2>2. PICK e \in SameKey(c.new) :
           \/ res' = Set(res, w, Ok(e)) /\ Goto(w, "settle") /\ UNCHANGED rows
           \/ GiveUp(w, "idempotencyConflict")
    BY <1>3 DEF FindPrior
  <2>3. CASE res' = Set(res, w, Ok(e)) /\ Goto(w, "settle") /\ UNCHANGED rows
    <3>1. res'[w] = Ok(e) /\ pc'[w] = "settle"
      BY <2>3 DEF Set, Goto, TypeOK
    <3> QED
      BY <2>1, <2>3, <3>1 DEF FindsPrior
  <2> QED
    BY <1>1, <2>1, <2>2, <2>3
<1>4. CASE ReadForCreate(w)
  <2>1. pc[w] = "scan" /\ UNCHANGED <<table, outcome, call>> /\ ~GivesUp(c)
    BY <1>4 DEF ReadForCreate, GivesUp, TypeOK, db
  <2>2. \/ GiveUp(w, "conflict")
        \/ /\ rows' = Set(rows, w, Occupied(c.new)) /\ Goto(w, "commit")
           /\ Unlocked(w, Occupied(c.new))
    BY <1>4 DEF ReadForCreate
  <2> QED
    BY <1>1, <1>2, <2>1, <2>2
<1>5. CASE ReadForCancel(w)
  <2>1. pc[w] = "read" /\ UNCHANGED <<table, outcome, call>>
    BY <1>5 DEF ReadForCancel, db
  <2>2. \/ GiveUp(w, "notCancellable") \/ GiveUp(w, "notFound")
        \/ /\ rows' = Set(rows, w, {c.old}) /\ Goto(w, "commit")
           /\ Unlocked(w, {c.old}) /\ Live(c.old)
    BY <1>5 DEF ReadForCancel
  <2> QED
    BY <1>1, <1>2, <2>1, <2>2
<1>6. CASE ReadForReschedule(w)
  <2> DEFINE R == Occupied(c.new) \cup {c.old}
  <2>1. pc[w] = "read" /\ UNCHANGED <<table, outcome, call>>
    BY <1>6 DEF ReadForReschedule, db
  <2>2. \/ GiveUp(w, "notCancellable") \/ GiveUp(w, "notFound") \/ GiveUp(w, "conflict")
        \/ /\ rows' = Set(rows, w, R) /\ Goto(w, "commit")
           /\ Unlocked(w, R) /\ Live(c.old)
    BY <1>6 DEF ReadForReschedule
  <2>3. c.old \in R
    OBVIOUS
  <2> QED
    BY <1>1, <1>2, <2>1, <2>2, <2>3
<1>7. CASE Commit(w)
  <2>1. rows'[w] = {}
    BY <1>7 DEF Commit, Set, TypeOK
  <2>2. \/ pc'[w] = "settle" /\ res'[w] = Ok(Subject(c))
        \/ AmbiguousCommit /\ pc'[w] = "unlock" /\ res'[w] = Failure("error")
    BY <1>7 DEF Commit, Set, Goto, TypeOK
  <2> QED
    BY <1>7, <2>1, <2>2 DEF Commit, Commits
<1>8. CASE TxFails(w)
  <2>1. /\ pc[w] \in {"read", "scan", "commit"} /\ UNCHANGED <<table, outcome, call>>
        /\ rows'[w] = {} /\ pc'[w] = "unlock" /\ res'[w].kind = "error"
    BY <1>8 DEF TxFails, Set, Goto, TypeOK, Failure, Result, db
  <2> QED
    BY <2>1 DEF FailsEarly, BeforeCommit
<1>9. CASE TakeSnapshot(w)
  <2>1. /\ pc[w] = "read" /\ pc'[w] = "scan"
        /\ UNCHANGED <<table, outcome, call, rows>>
    BY <1>9 DEF TakeSnapshot, Goto, TypeOK, locals
  <2> QED
    BY <2>1 DEF Advances, BeforeCommit
<1> QED
  BY <1>3, <1>4, <1>5, <1>6, <1>7, <1>8, <1>9

LEMMA OutcomeShapes ==
    ASSUME TypeOK, NEW w \in Workers,
           \/ Settle(w) \/ SettleFails(w) \/ Verify(w) \/ Unlock(w)
           \/ Reject(w) \/ RejectFails(w) \/ Crash(w)
    PROVE  Settles(w) \/ Verifies(w) \/ Unlocks(w) \/ Rejects(w) \/ Dies(w)
<1>1. CASE Settle(w)
  <2>1. pc'[w] = "verify" /\ UNCHANGED <<table, call, res, rows>>
    BY <1>1 DEF Settle, Goto, TypeOK, locals, db
  <2> QED
    BY <1>1, <2>1 DEF Settle, Settles, Confirmed, CanTransition
<1>2. CASE SettleFails(w)
  <2>1. pc'[w] = "unlock" /\ res'[w].kind = "unknown" /\ rows' = rows
    BY <1>2, GiveUpFacts DEF SettleFails
  <2> QED
    BY <1>2, <2>1 DEF SettleFails, Settles, Confirmed, CanTransition, db
<1>3. CASE Verify(w)
  <2>1. pc[w] = "verify" /\ UNCHANGED <<table, outcome, call>>
    BY <1>3 DEF Verify, db
  <2>2. \/ Goto(w, "unlock") /\ UNCHANGED <<res, rows>>
        \/ GiveUp(w, "unknown")
    BY <1>3 DEF Verify
  <2>3. /\ pc'[w] = "unlock" /\ rows' = rows
        /\ res'[w] = res[w] \/ res'[w].kind = "unknown"
    BY <2>2, GiveUpFacts DEF Goto, TypeOK
  <2> QED
    BY <2>1, <2>3 DEF Verifies
<1>4. CASE Unlock(w)
  <2>1. pc[w] = "unlock" /\ UNCHANGED <<table, outcome, call>>
    BY <1>4 DEF Unlock, db
  <2>2. \/ Finish(w, res[w]) /\ res[w].kind \in {"ok", "unknown"}
        \/ Finish(w, Failure("unknown"))
        \/ Goto(w, "reject") /\ UNCHANGED <<res, rows>> /\ res[w].kind \notin {"ok", "unknown"}
    BY <1>4 DEF Unlock
  <2>3. CASE Finish(w, res[w]) /\ res[w].kind \in {"ok", "unknown"}
    BY <2>1, <2>3, FinishFacts DEF Unlocks
  <2>4. CASE Finish(w, Failure("unknown"))
    BY <2>1, <2>4, FinishFacts DEF Unlocks, Failure, Result
  <2>5. CASE Goto(w, "reject") /\ UNCHANGED <<res, rows>> /\ res[w].kind \notin {"ok", "unknown"}
    BY <2>1, <2>5 DEF Unlocks, Goto, TypeOK
  <2> QED
    BY <2>2, <2>3, <2>4, <2>5
<1>5. CASE Reject(w)
  <2>1. pc'[w] = "idle" /\ res'[w] = res[w] /\ rows'[w] = {}
    BY <1>5, FinishFacts DEF Reject
  <2> QED
    BY <1>5, <2>1 DEF Reject, Rejects, Rejected, CanTransition, db
<1>6. CASE RejectFails(w)
  <2>1. pc'[w] = "idle" /\ res'[w].kind = "unknown" /\ rows'[w] = {}
    BY <1>6, FinishFacts DEF RejectFails, Failure, Result
  <2> QED
    BY <1>6, <2>1 DEF RejectFails, Rejects, Rejected, CanTransition, db
<1>7. CASE Crash(w)
  <2>1. pc'[w] = "idle" /\ rows'[w] = {} /\ call'[w] = NoCall
    BY <1>7, FinishFacts DEF Crash, Set, TypeOK
  <2> QED
    BY <1>7, <2>1 DEF Crash, Dies, db
<1> QED
  BY <1>1, <1>2, <1>3, <1>4, <1>5, <1>6, <1>7

\* Every step of a request has one of the shapes.
LEMMA Shapes ==
    ASSUME TypeOK, NEW w \in Workers, Moves(w)
    PROVE  \/ Starts(w) \/ Repeats(w) \/ Advances(w) \/ FailsEarly(w) \/ FindsPrior(w)
           \/ Commits(w) \/ Settles(w) \/ Verifies(w) \/ Unlocks(w) \/ Rejects(w)
           \/ Breaks(w) \/ Dies(w)
BY BeginShape, ReplayShape, LockShapes, TransactionShapes, OutcomeShapes
   DEF Moves, WorkerStep

------------------------------------------------------------------------------
(* Rows under lock, and what a commit does to the table *)

\* No row is locked by two open transactions, and the booking about to be given
\* up is live and locked until the commit (SELECT ... FOR UPDATE).
RowsApart == \A v, w \in Workers : v # w => rows[v] \cap rows[w] = {}
OldRowHeld ==
    \A w \in Workers : pc[w] = "commit" /\ GivesUp(call[w]) =>
        call[w].old \in rows[w] /\ Live(call[w].old)
RowLocks == RowsApart /\ OldRowHeld

\* A commit takes rows that were absent and gives up rows that were live.
LEMMA CommitEffect ==
    ASSUME TypeOK, OldRowHeld, NEW w \in Workers, Commits(w)
    PROVE  LET c == call[w]
           IN  /\ c \in Calls /\ Op(c) \in OpIds /\ Subject(c) \in Bookings
               /\ Inserts(c) => /\ c.new \in Bookings
                                /\ booking[c.new] = "absent" /\ booking'[c.new] = "pending"
               /\ GivesUp(c) => /\ c.old \in Bookings /\ Live(c.old) /\ c.old \in rows[w]
                                /\ booking'[c.old] = "cancelled"
               /\ \A b \in Bookings :
                     ~(Inserts(c) /\ b = c.new) /\ ~(GivesUp(c) /\ b = c.old)
                        => booking'[b] = booking[b]
<1> DEFINE c == call[w]
<1>1. c \in Calls /\ Op(c) \in OpIds /\ pc[w] = "commit"
  BY OpOfWorker DEF Commits
<1>2. /\ Inserts(c) => c.new \in Bookings
      /\ GivesUp(c) => c.old \in Bookings
      /\ Inserts(c) \/ GivesUp(c)
      /\ Inserts(c) /\ GivesUp(c) => c.old # c.new
  BY <1>1, CallsOK DEF Inserts, GivesUp, OpNames
<1>3. Subject(c) \in Bookings
  BY <1>2 DEF Subject
<1>4. Inserts(c) => booking[c.new] = "absent"
  BY DEF Commits, CanInsert, Exists
<1>5. GivesUp(c) => Live(c.old) /\ c.old \in rows[w]
  BY <1>1 DEF OldRowHeld
<1>6. booking' = Written(c)
  BY DEF Commits
<1>7. Inserts(c) => booking'[c.new] = "pending"
  BY <1>2, <1>6 DEF Written
<1>8. GivesUp(c) => booking'[c.old] = "cancelled"
  BY <1>2, <1>6 DEF Written
<1>9. \A b \in Bookings : ~(Inserts(c) /\ b = c.new) /\ ~(GivesUp(c) /\ b = c.old)
                             => booking'[b] = booking[b]
  BY <1>6 DEF Written
<1> QED
  BY <1>1, <1>2, <1>3, <1>4, <1>5, <1>7, <1>8, <1>9

\* Only commits write, and a row that exists or is cancelled stays so.
LEMMA OnlyCommitsWrite ==
    ASSUME TypeOK, [Next]_vars
    PROVE  UNCHANGED table \/ \E w \in Workers : Moves(w) /\ Commits(w)
<1>1. CASE \E w \in Workers : Moves(w)
  BY <1>1, Shapes DEF Starts, Repeats, Advances, FailsEarly, FindsPrior, Settles,
                      Verifies, Unlocks, Rejects, Breaks, Dies
<1>2. CASE Reconcile
  BY <1>2 DEF Reconcile, ReconcileStart, ReconcileObserve, ReconcileWrite, db
<1> QED
  BY <1>1, <1>2, StepKinds

LEMMA TableGrows ==
    ASSUME TypeOK, OldRowHeld, [Next]_vars, NEW b \in Bookings
    PROVE  /\ Exists(b) => Exists(b)'
           /\ booking[b] = "cancelled" => booking'[b] = "cancelled"
<1>1. CASE UNCHANGED table
  BY <1>1 DEF db, table, Exists
<1>2. ASSUME NEW w \in Workers, Commits(w)
      PROVE  /\ Exists(b) => Exists(b)'
             /\ booking[b] = "cancelled" => booking'[b] = "cancelled"
  BY <1>2, CommitEffect DEF Exists, Live
<1> QED
  BY <1>1, <1>2, OnlyCommitsWrite

LEMMA MoveKeepsRowLocks ==
    ASSUME TypeOK, RowLocks, NEW w \in Workers, Moves(w) PROVE RowLocks'
<1>0. OthersStay(w)
  BY MovesAlone
<1>1. rows'[w] \subseteq rows[w] \/ Unlocked(w, rows'[w])
  BY Shapes DEF Starts, Repeats, Advances, FailsEarly, FindsPrior, Commits, Settles,
                Verifies, Unlocks, Rejects, Breaks, Dies
<1>2. RowsApart'
  <2>1. \A v \in Workers \ {w} : rows'[v] = rows[v] /\ rows[v] \cap rows'[w] = {}
    BY <1>0, <1>1 DEF OthersStay, RowLocks, RowsApart, Unlocked
  <2> QED
    BY <2>1 DEF RowLocks, RowsApart
<1>3. CASE Commits(w)
  <2>1. pc'[w] # "commit"
    BY <1>3 DEF Commits
  <2>2. ASSUME NEW v \in Workers \ {w}, pc[v] = "commit", GivesUp(call[v])
        PROVE  call[v].old \in rows[v] /\ Live(call[v].old)'
    <3> DEFINE b == call[v].old
    <3>1. b \in rows[v] /\ Live(b) /\ b \notin rows[w] /\ b \in Bookings
      BY <2>2 DEF RowLocks, RowsApart, OldRowHeld, TypeOK
    <3>2. booking'[b] = booking[b]
      BY <1>3, <3>1, CommitEffect DEF RowLocks, Live
    <3>3. call'[v] = call[v]
      BY <1>0 DEF OthersStay
    <3> QED
      BY <3>1, <3>2, <3>3 DEF Live
  <2> QED
    BY <1>0, <1>2, <2>1, <2>2 DEF OthersStay, RowLocks, OldRowHeld
<1>4. CASE ~Commits(w)
  <2>1. UNCHANGED booking
    BY <1>4, Shapes DEF Starts, Repeats, Advances, FailsEarly, FindsPrior, Settles,
                        Verifies, Unlocks, Rejects, Breaks, Dies, db, table
  <2>2. pc'[w] = "commit" /\ GivesUp(call'[w]) =>
           call'[w].old \in rows'[w] /\ Live(call'[w].old)
    BY <1>4, Shapes DEF Starts, Repeats, Advances, FailsEarly, FindsPrior, Settles,
                        Verifies, Unlocks, Rejects, Breaks, Dies
  <2> QED
    BY <1>0, <1>2, <2>1, <2>2 DEF OthersStay, RowLocks, OldRowHeld, Live
<1> QED
  BY <1>3, <1>4

LEMMA StepRowLocks == ASSUME TypeOK, RowLocks, [Next]_vars PROVE RowLocks'
<1>1. CASE Reconcile \/ UNCHANGED <<table, outcome, pc, call, rows, res, recon>>
  <2>1. UNCHANGED <<booking, pc, call, rows>>
    BY <1>1 DEF Reconcile, ReconcileStart, ReconcileObserve, ReconcileWrite, db, table, locals
  <2> QED
    BY <2>1 DEF RowLocks, RowsApart, OldRowHeld, Live
<1> QED
  BY <1>1, StepKinds, MoveKeepsRowLocks

LEMMA RowLocksHold == Spec => []RowLocks
<1>1. Init => RowLocks
  BY DEF Init, RowLocks, RowsApart, OldRowHeld
<1> QED
  BY <1>1, InitTypeOK, StepTypeOK, StepRowLocks, PTL DEF Spec

------------------------------------------------------------------------------
(* The outbox *)

LEMMA CommitTellsRows ==
    ASSUME TypeOK, RowLocks, OutboxTellsRows, NEW w \in Workers, Commits(w)
    PROVE  OutboxTellsRows'
<1> DEFINE c == call[w]
           e == EventOf(c)
<1>1. outbox' = outbox \cup {e}
  BY DEF Commits
<1>2. c \in Calls
  BY CommitEffect DEF RowLocks
<1>3. \A b \in Bookings : /\ Creates(e, b) <=> Inserts(c) /\ b = c.new
                          /\ Ends(e, b) <=> GivesUp(c) /\ b = c.old
  BY <1>2, CallsOK, ConstantsOK
     DEF Creates, Ends, EventOf, Event, Inserts, GivesUp, OpNames
<1> SUFFICES ASSUME NEW b \in Bookings
             PROVE  /\ Exists(b)' <=> b \in Seeded \/ \E f \in outbox' : Creates(f, b)
                    /\ booking'[b] = "cancelled" <=> \E f \in outbox' : Ends(f, b)
                    /\ \A f, g \in outbox' :
                          (Creates(f, b) /\ Creates(g, b)) \/ (Ends(f, b) /\ Ends(g, b)) => f = g
  BY DEF OutboxTellsRows, Creates, Ends
<1>4. /\ Exists(b) <=> b \in Seeded \/ \E f \in outbox : Creates(f, b)
      /\ booking[b] = "cancelled" <=> \E f \in outbox : Ends(f, b)
      /\ \A f, g \in outbox :
            (Creates(f, b) /\ Creates(g, b)) \/ (Ends(f, b) /\ Ends(g, b)) => f = g
  BY DEF OutboxTellsRows
<1>5. CASE Inserts(c) /\ b = c.new
  <2>1. booking[b] = "absent" /\ booking'[b] = "pending" /\ ~(GivesUp(c) /\ b = c.old)
    BY <1>5, CommitEffect DEF RowLocks, Live
  <2> QED
    BY <1>1, <1>3, <1>4, <1>5, <2>1 DEF Exists
<1>6. CASE GivesUp(c) /\ b = c.old
  <2>1. Live(b) /\ booking'[b] = "cancelled" /\ ~(Inserts(c) /\ b = c.new)
    BY <1>6, CommitEffect DEF RowLocks, Live
  <2> QED
    BY <1>1, <1>3, <1>4, <1>6, <2>1 DEF Exists, Live
<1>7. CASE ~(Inserts(c) /\ b = c.new) /\ ~(GivesUp(c) /\ b = c.old)
  <2>1. booking'[b] = booking[b]
    BY <1>7, CommitEffect DEF RowLocks
  <2> QED
    BY <1>1, <1>3, <1>4, <1>7, <2>1 DEF Exists
<1> QED
  BY <1>5, <1>6, <1>7

LEMMA StepTellsRows ==
    ASSUME TypeOK, RowLocks, OutboxTellsRows, [Next]_vars PROVE OutboxTellsRows'
<1>1. CASE UNCHANGED table
  BY <1>1 DEF db, table, OutboxTellsRows, Exists
<1> QED
  BY <1>1, OnlyCommitsWrite, CommitTellsRows

\* A consumer of the outbox can rebuild the table: each row was made by one
\* event and ended by at most one (booking_core.go, the event written with the
\* rows in one transaction).
THEOREM OutboxIsComplete == Spec => []OutboxTellsRows
<1>1. Init => OutboxTellsRows
  BY DEF Init, OutboxTellsRows, Exists
<1> QED
  BY <1>1, InitTypeOK, StepTypeOK, RowLocksHold, StepTellsRows, PTL DEF Spec

------------------------------------------------------------------------------
(* How an outcome record may change *)

LEMMA TransitionedIs ==
    ASSUME TypeOK, NEW o \in OpIds, NEW to, NEW b, outcome' = Transitioned(o, to, b)
    PROVE  /\ outcome'[o].status = to
           /\ outcome'[o].booking = IF b = NoBooking THEN outcome[o].booking ELSE b
           /\ \A p \in OpIds \ {o} : outcome'[p] = outcome[p]
BY DEF TypeOK, Transitioned

\* The record o of a request's step: written when the key is new, and made final
\* by the request that has the key and finds it pending.
LEMMA MoveOfOutcome ==
    ASSUME TypeOK, NEW w \in Workers, Moves(w), NEW o \in OpIds
    PROVE  \/ outcome'[o] = outcome[o]
           \/ /\ Starts(w) /\ o = Op(call'[w])
              /\ outcome[o].status = "none" /\ outcome'[o].status = "pending"
           \/ /\ Settles(w) /\ o = Op(call[w])
              /\ outcome[o].status = "pending" /\ outcome'[o].status = "confirmed"
              /\ res[w].booking # NoBooking => outcome'[o].booking = res[w].booking
           \/ /\ Rejects(w) /\ o = Op(call[w])
              /\ outcome[o].status = "pending" /\ outcome'[o].status = "rejected"
<1>1. CASE Starts(w)
  <2>0. outcome \in [OpIds -> Outcomes]
    BY DEF TypeOK
  <2>1. PICK c \in Calls :
          /\ call'[w] = c /\ outcome[Op(c)].status = "none"
          /\ outcome' = [outcome EXCEPT ![Op(c)].status = "pending"]
    BY <1>1 DEF Starts
  <2>2. CASE o = Op(c)
    <3>1. outcome'[o].status = "pending"
      BY <2>0, <2>1, <2>2 DEF Outcomes
    <3> QED
      BY <1>1, <2>1, <2>2, <3>1
  <2>3. CASE o # Op(c)
    BY <2>0, <2>1, <2>3
  <2> QED
    BY <2>2, <2>3
<1>2. CASE Settles(w)
  <2>1. Op(call[w]) \in OpIds
    BY <1>2, OpOfWorker DEF Settles
  <2> QED
    BY <1>2, <2>1, TransitionedIs DEF Settles, Confirmed
<1>3. CASE Rejects(w)
  <2>1. Op(call[w]) \in OpIds
    BY <1>3, OpOfWorker DEF Rejects
  <2> QED
    BY <1>3, <2>1, TransitionedIs DEF Rejects, Rejected
<1> QED
  BY <1>1, <1>2, <1>3, Shapes
     DEF Repeats, Advances, FailsEarly, FindsPrior, Commits, Verifies, Unlocks, Breaks, Dies

\* The record o of a step of the reconciler.
LEMMA ReconcileOfOutcome ==
    ASSUME TypeOK, Reconcile, NEW o \in OpIds
    PROVE  \/ outcome'[o] = outcome[o]
           \/ /\ recon.phase = "seen" /\ o = recon.op
              /\ outcome[o].status = recon.from
              /\ AllowedTransition(recon.from, outcome'[o].status)
              /\ outcome'[o].status \in {recon.seen, "needs_human"}
              /\ recon.booking # NoBooking => outcome'[o].booking = recon.booking
<1>1. CASE ReconcileWrite
  <2>1. PICK old \in BOOLEAN :
           IF CanTransition(recon.op, recon.from, ReconciledStatus(old), recon.booking)
             THEN outcome' = Transitioned(recon.op, ReconciledStatus(old), recon.booking)
             ELSE UNCHANGED outcome
    BY <1>1 DEF ReconcileWrite
  <2>2. recon.phase = "seen" /\ recon.op \in OpIds
    BY <1>1 DEF ReconcileWrite, TypeOK
  <2>3. ReconciledStatus(old) \in {recon.seen, "needs_human"}
    BY DEF ReconciledStatus
  <2> QED
    BY <2>1, <2>2, <2>3, TransitionedIs DEF CanTransition
<1>2. CASE ReconcileObserve \/ \E p \in OpIds : ReconcileStart(p)
  BY <1>2 DEF ReconcileObserve, ReconcileStart
<1> QED
  BY <1>1, <1>2 DEF Reconcile

\* A record once written is never unwritten.
LEMMA WrittenStays ==
    ASSUME TypeOK, [Next]_vars, NEW o \in OpIds, outcome[o].status # "none"
    PROVE  outcome'[o].status # "none"
<1>1. ASSUME NEW w \in Workers, Moves(w) PROVE outcome'[o].status # "none"
  BY <1>1, MoveOfOutcome
<1>2. CASE Reconcile
  BY <1>2, ReconcileOfOutcome DEF AllowedTransition
<1> QED
  BY <1>1, <1>2, StepKinds

------------------------------------------------------------------------------
(* One call per key, one commit per call *)

KeyWritten ==
    /\ \A o \in OpIds : outcome[o].status = "none" => made[o] = {}
    /\ \A w \in Workers : pc[w] # "idle" => outcome[Op(call[w])].status # "none"
KeysApart ==
    \A v, w \in Workers : v # w /\ pc[v] # "idle" /\ pc[w] # "idle" =>
        Op(call[v]) # Op(call[w])
NothingYet ==
    \A w \in Workers : pc[w] \in BeforeCommit => made[Op(call[w])] = {}
OneCallPerKey == KeyWritten /\ KeysApart /\ NothingYet /\ AtMostOneEffect

\* A request in flight after its step has the key it had, or has begun with a new one.
LEMMA KeyOfMove ==
    ASSUME TypeOK, NEW w \in Workers, Moves(w), pc'[w] # "idle"
    PROVE  \/ pc[w] # "idle" /\ call'[w] = call[w] /\ Op(call'[w]) \in OpIds /\ ~Starts(w)
           \/ Starts(w) /\ call'[w] \in Calls /\ Op(call'[w]) \in OpIds
<1>1. CASE Starts(w)
  BY <1>1, OpOfCall DEF Starts
<1>2. CASE ~Starts(w)
  <2>1. pc[w] # "idle" /\ call'[w] = call[w]
    BY <1>2, Shapes DEF Repeats, Advances, FailsEarly, FindsPrior, Commits, Settles,
                        Verifies, Unlocks, Rejects, Breaks, Dies, BeforeCommit
  <2> QED
    BY <1>2, <2>1, OpOfWorker
<1> QED
  BY <1>1, <1>2

\* What a step adds to the history of key o.
LEMMA MadeGrows ==
    ASSUME TypeOK, OldRowHeld, NEW w \in Workers, Moves(w), NEW o \in OpIds
    PROVE  \/ made'[o] = made[o]
           \/ /\ Commits(w) /\ o = Op(call[w])
              /\ made'[o] = made[o] \cup {Subject(call[w])}
<1>1. CASE Commits(w)
  <2>1. made' = [made EXCEPT ![Op(call[w])] = @ \cup {Subject(call[w])}]
    BY <1>1 DEF Commits
  <2> QED
    BY <1>1, <2>1 DEF TypeOK
<1>2. CASE ~Commits(w)
  BY <1>2, Shapes DEF Starts, Repeats, Advances, FailsEarly, FindsPrior, Settles,
                      Verifies, Unlocks, Rejects, Breaks, Dies, db, table
<1> QED
  BY <1>1, <1>2

LEMMA MoveKeepsKeys ==
    ASSUME TypeOK, OldRowHeld, OneCallPerKey, NEW w \in Workers, Moves(w), [Next]_vars
    PROVE  OneCallPerKey'
<1>0. OthersStay(w)
  BY MovesAlone
<1>1. ASSUME NEW o \in OpIds, outcome'[o].status = "none" PROVE made'[o] = {}
  <2>1. outcome[o].status = "none" /\ made[o] = {}
    BY <1>1, WrittenStays DEF OneCallPerKey, KeyWritten
  <2>2. ~(Commits(w) /\ o = Op(call[w]))
    BY <2>1 DEF Commits, OneCallPerKey, KeyWritten
  <2> QED
    BY <2>1, <2>2, MadeGrows
<1>2. ASSUME NEW v \in Workers, pc'[v] # "idle"
      PROVE  outcome'[Op(call'[v])].status # "none"
  <2>1. CASE v # w
    <3>1. pc[v] # "idle" /\ call'[v] = call[v] /\ Op(call[v]) \in OpIds
      BY <1>0, <1>2, <2>1, OpOfWorker DEF OthersStay
    <3> QED
      BY <3>1, WrittenStays DEF OneCallPerKey, KeyWritten
  <2>2. CASE v = w /\ Starts(w)
    <3>1. Op(call'[w]) \in OpIds
      BY <1>2, <2>2, KeyOfMove
    <3> QED
      BY <2>2, <3>1 DEF Starts, TypeOK, Outcomes
  <2>3. CASE v = w /\ ~Starts(w)
    <3>1. pc[w] # "idle" /\ call'[w] = call[w] /\ Op(call[w]) \in OpIds
      BY <1>2, <2>3, KeyOfMove
    <3> QED
      BY <2>3, <3>1, WrittenStays DEF OneCallPerKey, KeyWritten
  <2> QED
    BY <2>1, <2>2, <2>3
<1>3. ASSUME NEW v \in Workers \ {w}, pc'[v] # "idle", pc'[w] # "idle"
      PROVE  Op(call'[v]) # Op(call'[w])
  <2>1. pc[v] # "idle" /\ call'[v] = call[v]
    BY <1>0, <1>3 DEF OthersStay
  <2>2. CASE Starts(w)
    <3>1. outcome[Op(call'[w])].status = "none"
      BY <2>2 DEF Starts
    <3> QED
      BY <2>1, <3>1 DEF OneCallPerKey, KeyWritten
  <2>3. CASE ~Starts(w)
    BY <1>3, <2>1, <2>3, KeyOfMove DEF OneCallPerKey, KeysApart
  <2> QED
    BY <2>2, <2>3
<1>4. ASSUME NEW v \in Workers, pc'[v] \in BeforeCommit PROVE made'[Op(call'[v])] = {}
  <2>0. pc'[v] # "idle"
    BY <1>4 DEF BeforeCommit
  <2>1. CASE v # w
    <3>1. pc[v] = pc'[v] /\ call'[v] = call[v] /\ Op(call[v]) \in OpIds
      BY <1>0, <2>0, <2>1, OpOfWorker DEF OthersStay
    <3>2. made[Op(call[v])] = {}
      BY <1>4, <3>1 DEF OneCallPerKey, NothingYet
    <3>3. ~(Commits(w) /\ Op(call[v]) = Op(call[w]))
      BY <2>0, <2>1, <3>1 DEF Commits, OneCallPerKey, KeysApart
    <3> QED
      BY <3>1, <3>2, <3>3, MadeGrows
  <2>2. CASE v = w /\ Starts(w)
    <3>1. Op(call'[w]) \in OpIds /\ outcome[Op(call'[w])].status = "none"
      BY <2>0, <2>2, KeyOfMove DEF Starts
    <3>2. ~Commits(w)
      BY <2>2 DEF Starts, Commits
    <3> QED
      BY <2>2, <3>1, <3>2, MadeGrows DEF OneCallPerKey, KeyWritten
  <2>3. CASE v = w /\ ~Starts(w)
    <3>1. call'[w] = call[w] /\ Op(call[w]) \in OpIds
      BY <2>0, <2>3, KeyOfMove
    <3>2. pc[w] \in BeforeCommit /\ ~Commits(w)
      BY <1>4, <2>3, Shapes DEF Starts, Repeats, Advances, FailsEarly, FindsPrior, Commits,
             Settles, Verifies, Unlocks, Rejects, Breaks, Dies, BeforeCommit
    <3> QED
      BY <2>3, <3>1, <3>2, MadeGrows DEF OneCallPerKey, NothingYet
  <2> QED
    BY <2>1, <2>2, <2>3
<1>5. AtMostOneEffect'
  <2> SUFFICES ASSUME NEW o \in OpIds, NEW a \in made'[o], NEW b \in made'[o] PROVE a = b
    BY DEF AtMostOneEffect
  <2>1. CASE made'[o] = made[o]
    BY <2>1 DEF OneCallPerKey, AtMostOneEffect
  <2>2. CASE /\ Commits(w) /\ o = Op(call[w])
             /\ made'[o] = made[o] \cup {Subject(call[w])}
    <3>1. made[o] = {}
      BY <2>2 DEF Commits, OneCallPerKey, NothingYet, BeforeCommit
    <3> QED
      BY <2>2, <3>1
  <2> QED
    BY <2>1, <2>2, MadeGrows
<1>6. KeyWritten'
  BY <1>1, <1>2 DEF KeyWritten
<1>7. KeysApart'
  <2> SUFFICES ASSUME NEW u \in Workers, NEW v \in Workers, u # v,
                      pc'[u] # "idle", pc'[v] # "idle"
               PROVE  Op(call'[u]) # Op(call'[v])
    BY DEF KeysApart
  <2>1. CASE u = w \/ v = w
    BY <1>3, <2>1
  <2>2. CASE u # w /\ v # w
    BY <1>0, <2>2 DEF OthersStay, OneCallPerKey, KeysApart
  <2> QED
    BY <2>1, <2>2
<1>8. NothingYet'
  BY <1>4 DEF NothingYet
<1> QED
  BY <1>5, <1>6, <1>7, <1>8 DEF OneCallPerKey

LEMMA StepOneCall ==
    ASSUME TypeOK, RowLocks, OneCallPerKey, [Next]_vars PROVE OneCallPerKey'
<1>1. CASE UNCHANGED <<table, outcome, pc, call, rows, res, recon>>
  BY <1>1 DEF db, table, OneCallPerKey, KeyWritten, KeysApart, NothingYet, AtMostOneEffect
<1>2. CASE Reconcile
  <2>1. UNCHANGED <<made, pc, call>>
    BY <1>2 DEF Reconcile, ReconcileStart, ReconcileObserve, ReconcileWrite, db, table, locals
  <2>2. KeyWritten'
    <3>1. ASSUME NEW o \in OpIds, outcome'[o].status = "none" PROVE made'[o] = {}
      BY <2>1, <3>1, WrittenStays DEF OneCallPerKey, KeyWritten
    <3>2. ASSUME NEW w \in Workers, pc'[w] # "idle"
          PROVE  outcome'[Op(call'[w])].status # "none"
      BY <2>1, <3>2, OpOfWorker, WrittenStays DEF OneCallPerKey, KeyWritten
    <3> QED
      BY <3>1, <3>2 DEF KeyWritten
  <2> QED
    BY <2>1, <2>2 DEF OneCallPerKey, KeysApart, NothingYet, AtMostOneEffect
<1> QED
  BY <1>1, <1>2, StepKinds, MoveKeepsKeys DEF RowLocks

LEMMA OneCallHolds == Spec => []OneCallPerKey
<1>1. Init => OneCallPerKey
  BY DEF Init, NoOutcome, OneCallPerKey, KeyWritten, KeysApart, NothingYet,
         AtMostOneEffect, BeforeCommit
<1> QED
  BY <1>1, InitTypeOK, StepTypeOK, RowLocksHold, StepOneCall, PTL DEF Spec

\* However often a call is retried, crashed and replayed, its key commits at
\* most once (the outcome row written before anything else, booking_core.go).
THEOREM KeysCommitOnce == Spec => []AtMostOneEffect
<1>1. OneCallPerKey => AtMostOneEffect
  BY DEF OneCallPerKey
<1> QED
  BY <1>1, OneCallHolds, PTL

------------------------------------------------------------------------------
(* A final outcome stays *)

\* What the reconciler has read and been told stays true while it waits.
ReconTold ==
    recon.phase # "idle" =>
        /\ recon.from \in {"pending", "unknown"}
        /\ recon.seen = "confirmed" => recon.booking \in made[recon.op]
        /\ recon.seen = "rejected" => ReaderRejects

LEMMA StepReconTold ==
    ASSUME TypeOK, RowLocks, ReconTold, [Next]_vars PROVE ReconTold'
<1>1. ASSUME NEW w \in Workers, Moves(w) PROVE ReconTold'
  <2>1. UNCHANGED recon
    BY <1>1, MovesAlone DEF OthersStay
  <2>2. ASSUME recon.phase # "idle" PROVE made[recon.op] \subseteq made'[recon.op]
    BY <1>1, <2>2, MadeGrows DEF TypeOK, RowLocks
  <2> QED
    BY <2>1, <2>2 DEF ReconTold
<1>2. CASE \E o \in OpIds : ReconcileStart(o)
  <2>1. recon'.from \in {"pending", "unknown"} /\ recon'.seen = "none"
    BY <1>2 DEF ReconcileStart, NoRecon
  <2> QED
    BY <2>1 DEF ReconTold
<1>3. CASE ReconcileObserve
  <2>1. recon \in ReconStates /\ recon.phase = "record" /\ UNCHANGED made
    BY <1>3 DEF ReconcileObserve, TypeOK, db, table
  <2>2. /\ recon'.from = recon.from /\ recon'.op = recon.op
        /\ recon'.seen = "confirmed" => recon'.booking \in made[recon.op]
        /\ recon'.seen = "rejected" => ReaderRejects
    BY <1>3, <2>1 DEF ReconcileObserve, ReconStates
  <2> QED
    BY <2>1, <2>2 DEF ReconTold
<1>4. CASE ReconcileWrite
  BY <1>4 DEF ReconcileWrite, NoRecon, ReconTold
<1>5. CASE UNCHANGED <<table, outcome, pc, call, rows, res, recon>>
  BY <1>5 DEF db, table, ReconTold
<1> QED
  BY <1>1, <1>2, <1>3, <1>4, <1>5, StepKinds DEF Reconcile

LEMMA ReconToldHolds == Spec => []ReconTold
<1>1. Init => ReconTold
  BY DEF Init, NoRecon, ReconTold
<1> QED
  BY <1>1, InitTypeOK, StepTypeOK, RowLocksHold, StepReconTold, PTL DEF Spec

LEMMA FinalStays ==
    ASSUME TypeOK, ReconTold, [Next]_vars, NEW o \in OpIds, outcome[o].status \in Terminal
    PROVE  outcome'[o] = outcome[o]
<1>1. ASSUME NEW w \in Workers, Moves(w) PROVE outcome'[o] = outcome[o]
  BY <1>1, MoveOfOutcome DEF Terminal
<1>2. CASE Reconcile
  BY <1>2, ReconcileOfOutcome DEF ReconTold, Terminal
<1> QED
  BY <1>1, <1>2, StepKinds

\* Neither a slow request nor a slow reconciler overwrites a final outcome (the
\* compare-and-set of TransitionOperationOutcome, operation_outcome.go).
THEOREM FinalIsFinal == Spec => FinalOutcomesStay
<1>1. TypeOK /\ ReconTold /\ [Next]_vars =>
         [\A o \in OpIds : outcome[o].status \in Terminal => outcome'[o] = outcome[o]]_vars
  BY FinalStays
<1> QED
  BY <1>1, TypeCorrect, ReconToldHolds, PTL DEF Spec, FinalOutcomesStay

------------------------------------------------------------------------------
(* What is recorded as made is in the table *)

LEMMA PartsOfOp == \A c \in Calls : Op(c)[1] = c.op /\ Op(c)[2] = c.key
BY DEF Op

\* Booking b is what a call with the operation and key of o brings about.
Describes(o, b) ==
    /\ b \in Bookings /\ Exists(b)
    /\ o[1] = "cancel" => booking[b] = "cancelled"
    /\ o[1] = "create" => Details[b].idem = o[2]

MadeIsTrue == \A o \in OpIds : \A b \in made[o] : Describes(o, b)

LEMMA DescribesStays ==
    ASSUME TypeOK, OldRowHeld, [Next]_vars, NEW o, NEW b, Describes(o, b)
    PROVE  Describes(o, b)'
<1>1. Exists(b)' /\ (booking[b] = "cancelled" => booking'[b] = "cancelled")
  BY TableGrows DEF Describes
<1> QED
  BY <1>1 DEF Describes

LEMMA SubjectDescribed ==
    ASSUME TypeOK, OldRowHeld, NEW w \in Workers, Commits(w)
    PROVE  Describes(Op(call[w]), Subject(call[w]))'
<1> DEFINE c == call[w]
<1>1. c \in Calls /\ Subject(c) \in Bookings /\ call'[w] = c
  BY CommitEffect DEF Commits
<1>2. /\ Inserts(c) => booking'[Subject(c)] = "pending"
      /\ ~Inserts(c) => booking'[Subject(c)] = "cancelled"
  BY <1>1, CommitEffect, CallsOK DEF Subject, Inserts, GivesUp, OpNames
<1>3. /\ Op(c)[1] = "cancel" => ~Inserts(c)
      /\ Op(c)[1] = "create" => Details[Subject(c)].idem = Op(c)[2]
  BY <1>1, PartsOfOp, CallsOK DEF Subject, Inserts
<1> QED
  BY <1>1, <1>2, <1>3 DEF Describes, Exists

LEMMA StepMadeIsTrue ==
    ASSUME TypeOK, RowLocks, MadeIsTrue, [Next]_vars PROVE MadeIsTrue'
<1> SUFFICES ASSUME NEW o \in OpIds, NEW b \in made'[o] PROVE Describes(o, b)'
  BY DEF MadeIsTrue
<1>1. CASE b \in made[o]
  BY <1>1, DescribesStays DEF MadeIsTrue, RowLocks
<1>2. ASSUME NEW w \in Workers, Moves(w), b \notin made[o] PROVE Describes(o, b)'
  <2>1. Commits(w) /\ o = Op(call[w]) /\ b = Subject(call[w])
    BY <1>2, MadeGrows DEF RowLocks
  <2>2. call'[w] = call[w]
    BY <2>1 DEF Commits
  <2> QED
    BY <2>1, <2>2, SubjectDescribed DEF RowLocks
<1> QED
  BY <1>1, <1>2, OnlyCommitsWrite DEF db, table

------------------------------------------------------------------------------
(* A confirmed outcome is true *)

\* b is the one effect of the call with key o, or an equal booking found for it.
Told(o, b) == Describes(o, b) /\ (o[1] # "create" \/ made[o] # {} => made[o] = {b})

\* The result under construction of each request.
SettledTold(w) ==
    pc[w] \in {"settle", "verify"} => res[w].kind = "ok" /\ Told(Op(call[w]), res[w].booking)
OkIsStored(w) ==
    pc[w] = "verify" \/ (pc[w] = "unlock" /\ res[w].kind = "ok") =>
        /\ outcome[Op(call[w])].status = "confirmed"
        /\ outcome[Op(call[w])].booking = res[w].booking
NotYetConfirmed(w) == pc[w] \in BeforeCommit => outcome[Op(call[w])].status # "confirmed"

ResultTold ==
    \A w \in Workers :
        /\ SettledTold(w) /\ OkIsStored(w) /\ NotYetConfirmed(w)
        /\ pc[w] = "reject" => res[w].kind # "ok"

OutcomeInv ==
    RowLocks /\ OneCallPerKey /\ ReconTold /\ MadeIsTrue /\ ResultTold /\ ConfirmedIsTrue

LEMMA ConfirmedIsTold ==
    ConfirmedIsTrue <=> \A o \in OpIds : outcome[o].status = "confirmed" =>
                                            Told(o, outcome[o].booking)
BY DEF ConfirmedIsTrue, Told, Describes

LEMMA ToldStays ==
    ASSUME TypeOK, OldRowHeld, [Next]_vars, NEW o, NEW b, Told(o, b), made'[o] = made[o]
    PROVE  Told(o, b)'
<1>1. Describes(o, b)'
  BY DescribesStays DEF Told
<1> QED
  BY <1>1 DEF Told

\* A step of w leaves the key of another request in flight alone.
LEMMA OtherKeysStay ==
    ASSUME TypeOK, OutcomeInv, NEW w \in Workers, Moves(w),
           NEW v \in Workers \ {w}, pc[v] # "idle"
    PROVE  /\ Op(call[v]) \in OpIds
           /\ made'[Op(call[v])] = made[Op(call[v])]
           /\ outcome'[Op(call[v])] = outcome[Op(call[v])]
<1> DEFINE o == Op(call[v])
<1>1. o \in OpIds /\ outcome[o].status # "none"
  BY OpOfWorker DEF OutcomeInv, OneCallPerKey, KeyWritten
<1>2. pc[w] # "idle" => o # Op(call[w])
  BY DEF OutcomeInv, OneCallPerKey, KeysApart
<1>3. made'[o] = made[o]
  BY <1>1, <1>2, MadeGrows DEF OutcomeInv, RowLocks, Commits
<1>4. outcome'[o] = outcome[o]
  BY <1>1, <1>2, MoveOfOutcome DEF Settles, Rejects
<1> QED
  BY <1>1, <1>3, <1>4

LEMMA OtherResultsStay ==
    ASSUME TypeOK, OutcomeInv, [Next]_vars, NEW w \in Workers, Moves(w),
           NEW v \in Workers \ {w}
    PROVE  /\ SettledTold(v)' /\ OkIsStored(v)' /\ NotYetConfirmed(v)'
           /\ pc'[v] = "reject" => res'[v].kind # "ok"
<1>1. pc'[v] = pc[v] /\ call'[v] = call[v] /\ res'[v] = res[v]
  BY MovesAlone DEF OthersStay
<1>2. CASE pc[v] = "idle"
  BY <1>1, <1>2 DEF SettledTold, OkIsStored, NotYetConfirmed, BeforeCommit
<1>3. CASE pc[v] # "idle"
  <2> DEFINE o == Op(call[v])
  <2>1. made'[o] = made[o] /\ outcome'[o] = outcome[o]
    BY <1>3, OtherKeysStay
  <2>2. /\ SettledTold(v) /\ OkIsStored(v) /\ NotYetConfirmed(v)
        /\ pc[v] = "reject" => res[v].kind # "ok"
    BY DEF OutcomeInv, ResultTold
  <2>3. ASSUME NEW p \in OpIds, NEW b, p = o, b = res[v].booking, Told(p, b)
        PROVE  Told(p, b)'
    BY <2>1, <2>3, ToldStays DEF OutcomeInv, RowLocks
  <2>4. SettledTold(v)'
    <3> SUFFICES ASSUME pc[v] \in {"settle", "verify"}
                 PROVE  res'[v].kind = "ok" /\ Told(Op(call[v]), res[v].booking)'
      BY <1>1 DEF SettledTold
    <3>1. PICK p \in OpIds, b \in {res[v].booking} : p = o
      BY <1>3, OpOfWorker
    <3>2. Told(p, b)'
      BY <2>2, <2>3, <3>1 DEF SettledTold
    <3> QED
      BY <1>1, <2>2, <3>1, <3>2 DEF SettledTold, Told, Describes, Exists
  <2>5. OkIsStored(v)' /\ NotYetConfirmed(v)'
    BY <1>1, <2>1, <2>2 DEF OkIsStored, NotYetConfirmed
  <2> QED
    BY <1>1, <2>2, <2>4, <2>5
<1> QED
  BY <1>2, <1>3

\* A booking the transaction has found or made is told of its key.
LEMMA NewResultTold ==
    ASSUME TypeOK, OutcomeInv, [Next]_vars, NEW w \in Workers, FindsPrior(w) \/ Commits(w),
           pc'[w] = "settle"
    PROVE  res'[w].kind = "ok" /\ Told(Op(call[w]), res[w].booking)'
<1> DEFINE c == call[w]
<1>1. c \in Calls /\ Op(c) \in OpIds /\ call'[w] = c /\ made[Op(c)] = {}
  BY OpOfWorker DEF FindsPrior, Commits, OutcomeInv, OneCallPerKey, NothingYet, BeforeCommit
<1>2. CASE FindsPrior(w)
  <2>1. PICK e \in SameKey(c.new) : res'[w] = Ok(e)
    BY <1>2 DEF FindsPrior
  <2>2. c.op = "create" /\ UNCHANGED table
    BY <1>2 DEF FindsPrior
  <2>3. Details[e].idem = c.key /\ e \in Bookings /\ Exists(e)
    BY <1>1, <2>2, CallsOK DEF SameKey
  <2>4. Op(c)[1] = "create" /\ Op(c)[2] = c.key
    BY <1>1, <2>2, PartsOfOp
  <2>5. res'[w].kind = "ok" /\ res'[w].booking = e
    BY <2>1 DEF Ok, Result
  <2>6. made'[Op(c)] = {} /\ Exists(e)'
    BY <1>1, <2>2, <2>3 DEF db, table, Exists
  <2> QED
    BY <1>1, <2>3, <2>4, <2>5, <2>6 DEF Told, Describes
<1>3. CASE Commits(w)
  <2>1. res'[w].kind = "ok" /\ res'[w].booking = Subject(c)
    BY <1>3 DEF Commits, Ok, Result
  <2>2. made'[Op(c)] = {Subject(c)}
    BY <1>1, <1>3 DEF Commits, TypeOK
  <2>3. Describes(Op(c), Subject(c))'
    BY <1>3, SubjectDescribed DEF OutcomeInv, RowLocks
  <2>4. Subject(c)' = Subject(c)
    BY <1>1
  <2> QED
    BY <1>1, <2>1, <2>2, <2>3, <2>4 DEF Told, Describes, Exists
<1> QED
  BY <1>2, <1>3

\* The record of a key that has just been confirmed names its booking.
LEMMA SettleStores ==
    ASSUME TypeOK, OutcomeInv, NEW w \in Workers, Settles(w), Confirmed(w)
    PROVE  /\ outcome'[Op(call[w])].status = "confirmed"
           /\ outcome'[Op(call[w])].booking = res[w].booking
           /\ \A p \in OpIds \ {Op(call[w])} : outcome'[p] = outcome[p]
<1>1. Op(call[w]) \in OpIds
  BY OpOfWorker DEF Settles
<1>2. res[w].booking # NoBooking
  BY ConstantsOK DEF OutcomeInv, ResultTold, SettledTold, Told, Describes, Settles
<1> QED
  BY <1>1, <1>2, TransitionedIs DEF Confirmed

LEMMA OwnResultTold ==
    ASSUME TypeOK, OutcomeInv, [Next]_vars, NEW w \in Workers, Moves(w)
    PROVE  /\ SettledTold(w)' /\ OkIsStored(w)' /\ NotYetConfirmed(w)'
           /\ pc'[w] = "reject" => res'[w].kind # "ok"
<1> DEFINE c == call[w]
<1>0. /\ SettledTold(w) /\ OkIsStored(w) /\ NotYetConfirmed(w)
      /\ pc[w] = "reject" => res[w].kind # "ok"
  BY DEF OutcomeInv, ResultTold
<1> DEFINE told == /\ SettledTold(w)' /\ OkIsStored(w)' /\ NotYetConfirmed(w)'
                   /\ pc'[w] = "reject" => res'[w].kind # "ok"
<1>1. CASE pc'[w] = "idle"
  BY <1>1 DEF SettledTold, OkIsStored, NotYetConfirmed, BeforeCommit
<1>2. CASE Starts(w)
  <2>1. pc'[w] \in {"load", "lock"} /\ outcome'[Op(call'[w])].status = "pending"
    BY <1>2, OpOfCall DEF Starts, TypeOK, Outcomes
  <2> QED
    BY <2>1 DEF SettledTold, OkIsStored, NotYetConfirmed
<1>3. CASE Advances(w) \/ FailsEarly(w)
  <2>1. /\ call'[w] = c /\ UNCHANGED outcome /\ pc[w] \in BeforeCommit
        /\ \/ pc'[w] \in BeforeCommit
           \/ pc'[w] \in {"unlock", "reject"} /\ res'[w].kind # "ok"
    BY <1>3 DEF Advances, FailsEarly, BeforeCommit
  <2> QED
    BY <1>0, <2>1 DEF SettledTold, OkIsStored, NotYetConfirmed, BeforeCommit
<1>4. CASE FindsPrior(w) \/ Commits(w)
  <2>1. pc'[w] = "settle" \/ (pc'[w] = "unlock" /\ res'[w].kind = "error")
    BY <1>4 DEF FindsPrior, Commits, Failure, Result
  <2>2. CASE pc'[w] = "settle"
    <3>1. res'[w].kind = "ok" /\ Told(Op(call[w]), res[w].booking)'
      BY <1>4, <2>2, NewResultTold
    <3> QED
      BY <2>2, <3>1 DEF SettledTold, OkIsStored, NotYetConfirmed, BeforeCommit
  <2>3. CASE pc'[w] = "unlock" /\ res'[w].kind = "error"
    BY <2>3 DEF SettledTold, OkIsStored, NotYetConfirmed, BeforeCommit
  <2> QED
    BY <2>1, <2>2, <2>3
<1>5. CASE Settles(w)
  <2>1. CASE pc'[w] = "verify" /\ res'[w] = res[w] /\ Confirmed(w)
    <3>1. PICK p \in OpIds, b \in {res[w].booking} : p = Op(c)
      BY <1>5, OpOfWorker DEF Settles
    <3>2. res[w].kind = "ok" /\ Told(p, b)
      BY <1>0, <1>5, <3>1 DEF Settles, SettledTold
    <3>3. made'[p] = made[p] /\ call'[w] = c
      BY <1>5 DEF Settles, db, table
    <3>4. Told(p, b)'
      BY <3>2, <3>3, ToldStays DEF OutcomeInv, RowLocks
    <3>5. SettledTold(w)'
      BY <2>1, <3>1, <3>2, <3>3, <3>4 DEF SettledTold, Told, Describes, Exists
    <3>6. OkIsStored(w)' /\ NotYetConfirmed(w)'
      BY <1>5, <2>1, <3>3, SettleStores DEF OkIsStored, NotYetConfirmed, BeforeCommit
    <3> QED
      BY <2>1, <3>5, <3>6
  <2>2. CASE pc'[w] = "unlock" /\ res'[w].kind = "unknown"
    BY <2>2 DEF SettledTold, OkIsStored, NotYetConfirmed, BeforeCommit
  <2> QED
    BY <1>5, <2>1, <2>2 DEF Settles
<1>6. CASE Verifies(w)
  BY <1>0, <1>6 DEF Verifies, SettledTold, OkIsStored, NotYetConfirmed, BeforeCommit
<1>7. CASE Unlocks(w)
  BY <1>7 DEF Unlocks, SettledTold, OkIsStored, NotYetConfirmed, BeforeCommit
<1> QED
  BY <1>1, <1>2, <1>3, <1>4, <1>5, <1>6, <1>7, Shapes DEF Repeats, Rejects, Breaks, Dies

LEMMA MoveKeepsConfirmed ==
    ASSUME TypeOK, OutcomeInv, [Next]_vars, NEW w \in Workers, Moves(w)
    PROVE  ConfirmedIsTrue'
<1> SUFFICES ASSUME NEW o \in OpIds, outcome'[o].status = "confirmed",
                    NEW b, b = outcome'[o].booking
             PROVE  Told(o, b)'
  BY DEF ConfirmedIsTrue, Told, Describes, Exists
<1>1. CASE outcome'[o] = outcome[o]
  <2>1. Told(o, b)
    BY <1>1, ConfirmedIsTold DEF OutcomeInv
  <2>2. ~(Commits(w) /\ o = Op(call[w]))
    BY <1>1 DEF Commits, OutcomeInv, ResultTold, NotYetConfirmed, BeforeCommit
  <2>3. made'[o] = made[o]
    BY <2>2, MadeGrows DEF OutcomeInv, RowLocks
  <2> QED
    BY <2>1, <2>3, ToldStays DEF OutcomeInv, RowLocks
<1>2. CASE outcome'[o] # outcome[o]
  <2>1. Settles(w) /\ o = Op(call[w])
    BY <1>2, MoveOfOutcome
  <2>2. b = res[w].booking
    BY <1>2, <2>1, SettleStores DEF Settles
  <2>3. Told(o, b)
    BY <2>1, <2>2 DEF Settles, OutcomeInv, ResultTold, SettledTold
  <2>4. made'[o] = made[o]
    BY <2>1 DEF Settles, db, table
  <2> QED
    BY <2>3, <2>4, ToldStays DEF OutcomeInv, RowLocks
<1> QED
  BY <1>1, <1>2

LEMMA ReconcileKeepsOutcomes ==
    ASSUME TypeOK, OutcomeInv, [Next]_vars, Reconcile
    PROVE  ResultTold' /\ ConfirmedIsTrue'
<1>1. UNCHANGED <<table, pc, call, res>>
  BY DEF Reconcile, ReconcileStart, ReconcileObserve, ReconcileWrite, locals, db
<1>2. ASSUME NEW o \in OpIds, outcome[o].status = "confirmed"
      PROVE  outcome'[o] = outcome[o]
  BY <1>2, FinalStays DEF OutcomeInv, Terminal
<1>3. ASSUME NEW o \in OpIds, outcome[o].status # "confirmed",
             outcome'[o].status = "confirmed"
      PROVE  outcome'[o].booking \in made[o]
  <2>1. /\ recon.phase = "seen" /\ recon.op = o /\ recon.seen = "confirmed"
        /\ recon.booking # NoBooking => outcome'[o].booking = recon.booking
    BY <1>3, ReconcileOfOutcome
  <2>2. recon.booking \in made[o]
    BY <2>1 DEF OutcomeInv, ReconTold
  <2>3. recon.booking # NoBooking
    BY <2>2, ConstantsOK DEF TypeOK
  <2> QED
    BY <2>1, <2>2, <2>3
<1>4. ASSUME NEW w \in Workers
      PROVE  /\ SettledTold(w)' /\ OkIsStored(w)' /\ NotYetConfirmed(w)'
             /\ pc'[w] = "reject" => res'[w].kind # "ok"
  <2>1. /\ SettledTold(w) /\ OkIsStored(w) /\ NotYetConfirmed(w)
        /\ pc[w] = "reject" => res[w].kind # "ok"
    BY DEF OutcomeInv, ResultTold
  <2>2. SettledTold(w)'
    BY <1>1, <2>1 DEF SettledTold, Told, Describes, Exists, db, table
  <2>3. OkIsStored(w)'
    BY <1>1, <1>2, <2>1, OpOfWorker DEF OkIsStored
  <2>4. NotYetConfirmed(w)'
    <3> SUFFICES ASSUME pc[w] \in BeforeCommit
                 PROVE  outcome'[Op(call[w])].status # "confirmed"
      BY <1>1 DEF NotYetConfirmed
    <3>1. Op(call[w]) \in OpIds /\ made[Op(call[w])] = {}
      BY OpOfWorker DEF OutcomeInv, OneCallPerKey, NothingYet, BeforeCommit
    <3> QED
      BY <1>3, <2>1, <3>1 DEF NotYetConfirmed
  <2> QED
    BY <1>1, <2>1, <2>2, <2>3, <2>4
<1>5. ConfirmedIsTrue'
  <2> SUFFICES ASSUME NEW o \in OpIds, outcome'[o].status = "confirmed",
                      NEW b, b = outcome'[o].booking
               PROVE  Told(o, b)'
    BY DEF ConfirmedIsTrue, Told, Describes, Exists
  <2>1. Told(o, b)
    <3>1. CASE outcome[o].status = "confirmed"
      BY <1>2, <3>1, ConfirmedIsTold DEF OutcomeInv
    <3>2. CASE outcome[o].status # "confirmed"
      <4>1. b \in made[o]
        BY <1>3, <3>2
      <4>2. Describes(o, b)
        BY <4>1 DEF OutcomeInv, MadeIsTrue
      <4>3. made[o] = {b}
        BY <4>1 DEF OutcomeInv, OneCallPerKey, AtMostOneEffect
      <4> QED
        BY <4>2, <4>3 DEF Told
    <3> QED
      BY <3>1, <3>2
  <2> QED
    BY <1>1, <2>1, ToldStays DEF OutcomeInv, RowLocks, db, table
<1> QED
  BY <1>4, <1>5 DEF ResultTold

LEMMA StepOutcomeInv ==
    ASSUME TypeOK, OutcomeInv, [Next]_vars PROVE OutcomeInv'
<1>1. RowLocks' /\ OneCallPerKey' /\ ReconTold' /\ MadeIsTrue'
  BY StepRowLocks, StepOneCall, StepReconTold, StepMadeIsTrue DEF OutcomeInv
<1>2. ASSUME NEW w \in Workers, Moves(w) PROVE ResultTold' /\ ConfirmedIsTrue'
  <2>1. ConfirmedIsTrue'
    BY <1>2, MoveKeepsConfirmed
  <2>2. ASSUME NEW v \in Workers
        PROVE  /\ SettledTold(v)' /\ OkIsStored(v)' /\ NotYetConfirmed(v)'
               /\ pc'[v] = "reject" => res'[v].kind # "ok"
    BY <1>2, OwnResultTold, OtherResultsStay
  <2> QED
    BY <2>1, <2>2 DEF ResultTold
<1>3. ASSUME UNCHANGED <<table, outcome, pc, call, rows, res, recon>>
      PROVE  ResultTold' /\ ConfirmedIsTrue'
  BY <1>3 DEF OutcomeInv, ResultTold, SettledTold, OkIsStored, NotYetConfirmed, Told,
              Describes, Exists, ConfirmedIsTrue, db, table
<1> QED
  BY <1>1, <1>2, <1>3, StepKinds, ReconcileKeepsOutcomes DEF OutcomeInv

LEMMA InitOutcomeInv == Init => OutcomeInv
<1> SUFFICES ASSUME Init PROVE OutcomeInv
  OBVIOUS
<1>1. RowLocks /\ OneCallPerKey /\ ReconTold /\ MadeIsTrue
  BY DEF Init, NoOutcome, NoRecon, RowLocks, RowsApart, OldRowHeld, OneCallPerKey, KeyWritten,
         KeysApart, NothingYet, AtMostOneEffect, BeforeCommit, ReconTold, MadeIsTrue
<1>2. ResultTold /\ ConfirmedIsTrue
  BY DEF Init, NoOutcome, ResultTold, SettledTold, OkIsStored, NotYetConfirmed,
         BeforeCommit, ConfirmedIsTrue
<1> QED
  BY <1>1, <1>2 DEF OutcomeInv

LEMMA OutcomeInvHolds == Spec => []OutcomeInv
BY InitTypeOK, StepTypeOK, InitOutcomeInv, StepOutcomeInv, PTL DEF Spec

\* A confirmed outcome names a booking its call has really made, moved or
\* cancelled, or for a create an equal booking found under its key, whatever
\* commits are ambiguous and whatever the reconciler's reader concludes.
THEOREM ConfirmedMeansDone == Spec => []ConfirmedIsTrue
<1>1. OutcomeInv => ConfirmedIsTrue
  BY DEF OutcomeInv
<1> QED
  BY <1>1, OutcomeInvHolds, PTL

------------------------------------------------------------------------------
(* What callers are told *)

\* The answer r agrees with the record o.
AnswerFits(r, o) ==
    /\ r.kind = "ok" => o.status = "confirmed" /\ o.booking = r.booking
    /\ r.kind = "idempotencyConflict" => o.status \in {"confirmed", "rejected"}
    /\ r.kind \in {"unknown", "unavailable"} => o.status # "none"
    /\ r.kind \notin {"ok", "idempotencyConflict", "unknown", "unavailable"} =>
          o.status = "rejected"

LEMMA AnswersFit ==
    AnswersMatchOutcome <=>
       \A w \in Workers : pc[w] = "idle" /\ call[w] # NoCall =>
          AnswerFits(res[w], outcome[Op(call[w])])
BY DEF AnswersMatchOutcome, AnswerFits

\* No later step of anybody makes an answer wrong.
LEMMA AnswerStays ==
    ASSUME TypeOK, ReconTold, [Next]_vars, NEW o \in OpIds, NEW r, AnswerFits(r, outcome[o])
    PROVE  AnswerFits(r, outcome'[o])
<1>1. outcome[o].status \in Terminal => outcome'[o] = outcome[o]
  BY FinalStays
<1>2. outcome[o].status # "none" => outcome'[o].status # "none"
  BY WrittenStays
<1> QED
  BY <1>1, <1>2 DEF AnswerFits, Terminal

\* The answer a request ends with.
LEMMA OwnAnswerFits ==
    ASSUME TypeOK, OutcomeInv, AnswersMatchOutcome, NEW w \in Workers, Moves(w),
           pc'[w] = "idle", call'[w] # NoCall
    PROVE  AnswerFits(res'[w], outcome'[Op(call'[w])])
<1> DEFINE o == Op(call[w])
<1>1. CASE Repeats(w)
  <2>1. PICK c \in Calls : /\ call'[w] = c /\ outcome[Op(c)].status # "none"
                           /\ res'[w] = ReplayAnswer(c) /\ UNCHANGED outcome
    BY <1>1 DEF Repeats
  <2>2. \/ /\ outcome[Op(c)].status = "confirmed"
           /\ \/ ReplayAnswer(c) = Failure("idempotencyConflict")
              \/ ReplayAnswer(c) = Ok(outcome[Op(c)].booking)
        \/ /\ outcome[Op(c)].status = "rejected"
           /\ ReplayAnswer(c) \in {Failure("notCancellable"), Failure("conflict")}
        \/ ReplayAnswer(c) = Failure("unknown")
    BY DEF ReplayAnswer
  <2> QED
    BY <2>1, <2>2 DEF AnswerFits, Failure, Ok, Result
<1>2. CASE Unlocks(w)
  <2>1. /\ pc[w] = "unlock" /\ call'[w] = call[w] /\ UNCHANGED outcome
        /\ \/ res'[w] = res[w] /\ res[w].kind \in {"ok", "unknown"}
           \/ res'[w].kind = "unknown"
    BY <1>2 DEF Unlocks
  <2>2. outcome[o].status # "none"
    BY <2>1 DEF OutcomeInv, OneCallPerKey, KeyWritten
  <2>3. res[w].kind = "ok" => outcome[o].status = "confirmed" /\ outcome[o].booking = res[w].booking
    BY <2>1 DEF OutcomeInv, ResultTold, OkIsStored
  <2> QED
    BY <2>1, <2>2, <2>3 DEF AnswerFits
<1>3. CASE Rejects(w)
  <2>1. pc[w] = "reject" /\ call'[w] = call[w] /\ o \in OpIds
    BY <1>3, OpOfWorker DEF Rejects
  <2>2. outcome[o].status # "none" /\ res[w].kind # "ok"
    BY <2>1 DEF OutcomeInv, OneCallPerKey, KeyWritten, ResultTold
  <2>3. Rejected(w) => outcome'[o].status = "rejected"
    BY <2>1, TransitionedIs DEF Rejected
  <2> QED
    BY <1>3, <2>1, <2>2, <2>3 DEF Rejects, AnswerFits
<1>4. CASE Breaks(w)
  <2>1. /\ pc[w] = "lock" /\ call'[w] = call[w] /\ UNCHANGED outcome
        /\ res'[w].kind = "unavailable"
    BY <1>4 DEF Breaks
  <2>2. outcome[o].status # "none"
    BY <2>1 DEF OutcomeInv, OneCallPerKey, KeyWritten
  <2> QED
    BY <2>1, <2>2 DEF AnswerFits
<1> QED
  BY <1>1, <1>2, <1>3, <1>4, Shapes
     DEF Starts, Advances, FailsEarly, FindsPrior, Commits, Settles, Verifies, Dies, BeforeCommit

LEMMA StepAnswers ==
    ASSUME TypeOK, OutcomeInv, AnswersMatchOutcome, [Next]_vars PROVE AnswersMatchOutcome'
<1>1. ASSUME NEW w \in Workers, pc[w] = "idle", pc'[w] = "idle", call'[w] = call[w],
             res'[w] = res[w], call[w] # NoCall
      PROVE  AnswerFits(res'[w], outcome'[Op(call'[w])])
  <2>1. Op(call[w]) \in OpIds
    BY <1>1, OpOfCall DEF TypeOK
  <2>2. AnswerFits(res[w], outcome[Op(call[w])])
    BY <1>1, AnswersFit
  <2>3. PICK o \in OpIds, r \in {res[w]} : o = Op(call[w])
    BY <2>1
  <2> QED
    BY <1>1, <2>2, <2>3, AnswerStays DEF OutcomeInv
<1>2. ASSUME NEW w \in Workers, pc'[w] = "idle", call'[w] # NoCall
      PROVE  AnswerFits(res'[w], outcome'[Op(call'[w])])
  <2>1. ASSUME NEW v \in Workers, Moves(v)
        PROVE  AnswerFits(res'[w], outcome'[Op(call'[w])])
    <3>1. CASE v = w
      BY <1>2, <2>1, <3>1, OwnAnswerFits
    <3>2. CASE v # w
      BY <1>1, <1>2, <2>1, <3>2, MovesAlone DEF OthersStay
    <3> QED
      BY <3>1, <3>2
  <2>2. CASE Reconcile \/ UNCHANGED <<table, outcome, pc, call, rows, res, recon>>
    <3>1. UNCHANGED <<pc, call, res>>
      BY <2>2 DEF Reconcile, ReconcileStart, ReconcileObserve, ReconcileWrite, locals
    <3> QED
      BY <1>1, <1>2, <3>1
  <2> QED
    BY <2>1, <2>2, StepKinds
<1> QED
  BY <1>2 DEF AnswersMatchOutcome, AnswerFits

\* A caller hears "ok" only of a confirmed outcome and its booking, and a
\* definite failure only of a rejected one; no later retry, crash, lost lock or
\* pass of the reconciler makes what it heard wrong.
THEOREM AnswersAreStored == Spec => []AnswersMatchOutcome
<1>1. Init => AnswersMatchOutcome
  BY DEF Init, AnswersMatchOutcome
<1> QED
  BY <1>1, InitTypeOK, StepTypeOK, InitOutcomeInv, StepOutcomeInv, StepAnswers, PTL DEF Spec

------------------------------------------------------------------------------
(* A rejected outcome is true *)

\* A commit that reports an error has not happened, and the reconciler's reader
\* never concludes that nothing was written.
HonestCommits == ~AmbiguousCommit /\ ~ReaderRejects

CleanFailure(w) ==
    pc[w] = "reject" \/ (pc[w] = "unlock" /\ res[w].kind \notin {"ok", "unknown"}) =>
        made[Op(call[w])] = {}
NotYetRejected(w) == pc[w] \in BeforeCommit => outcome[Op(call[w])].status # "rejected"

CleanInv == RejectedLeavesNothing /\ \A w \in Workers : CleanFailure(w) /\ NotYetRejected(w)

LEMMA OwnFailureClean ==
    ASSUME HonestCommits, TypeOK, OutcomeInv, CleanInv, NEW w \in Workers, Moves(w)
    PROVE  CleanFailure(w)' /\ NotYetRejected(w)'
<1> DEFINE o == Op(call[w])
<1>1. CASE pc'[w] \in {"idle", "settle", "verify"}
  BY <1>1 DEF CleanFailure, NotYetRejected, BeforeCommit
<1>2. CASE Starts(w)
  <2>1. pc'[w] \in {"load", "lock"} /\ outcome'[Op(call'[w])].status = "pending"
    BY <1>2, OpOfCall DEF Starts, TypeOK, Outcomes
  <2> QED
    BY <2>1 DEF CleanFailure, NotYetRejected
<1>3. CASE Advances(w)
  <2>1. pc[w] \in BeforeCommit /\ pc'[w] \in BeforeCommit /\ call'[w] = call[w] /\ UNCHANGED outcome
    BY <1>3 DEF Advances, BeforeCommit
  <2> QED
    BY <2>1 DEF CleanInv, CleanFailure, NotYetRejected, BeforeCommit
<1>4. CASE FailsEarly(w)
  <2>1. made[o] = {} /\ UNCHANGED table /\ call'[w] = call[w] /\ pc'[w] \notin BeforeCommit
    BY <1>4 DEF FailsEarly, OutcomeInv, OneCallPerKey, NothingYet, BeforeCommit
  <2> QED
    BY <2>1 DEF CleanFailure, NotYetRejected, db, table
<1>5. CASE Settles(w) /\ pc'[w] = "unlock"
  BY <1>5 DEF Settles, CleanFailure, NotYetRejected, BeforeCommit
<1>6. CASE Verifies(w)
  <2>1. res[w].kind = "ok"
    BY <1>6 DEF Verifies, OutcomeInv, ResultTold, SettledTold
  <2> QED
    BY <1>6, <2>1 DEF Verifies, CleanFailure, NotYetRejected, BeforeCommit
<1>7. CASE Unlocks(w) /\ pc'[w] = "reject"
  <2>1. made[o] = {} /\ UNCHANGED table /\ call'[w] = call[w]
    BY <1>7 DEF Unlocks, CleanInv, CleanFailure
  <2> QED
    BY <1>7, <2>1 DEF CleanFailure, NotYetRejected, BeforeCommit, db, table
<1> QED
  BY <1>1, <1>2, <1>3, <1>4, <1>5, <1>6, <1>7, Shapes
     DEF HonestCommits, Repeats, FindsPrior, Commits, Settles, Unlocks, Rejects, Breaks, Dies

LEMMA StepClean ==
    ASSUME HonestCommits, TypeOK, OutcomeInv, CleanInv, [Next]_vars PROVE CleanInv'
<1>1. ASSUME NEW w \in Workers, Moves(w) PROVE CleanInv'
  <2>1. ASSUME NEW v \in Workers \ {w} PROVE CleanFailure(v)' /\ NotYetRejected(v)'
    <3>1. pc'[v] = pc[v] /\ call'[v] = call[v] /\ res'[v] = res[v]
      BY <1>1, MovesAlone DEF OthersStay
    <3>2. pc[v] # "idle" => /\ made'[Op(call[v])] = made[Op(call[v])]
                            /\ outcome'[Op(call[v])] = outcome[Op(call[v])]
      BY <1>1, OtherKeysStay
    <3> QED
      BY <3>1, <3>2 DEF CleanInv, CleanFailure, NotYetRejected, BeforeCommit
  <2>2. ASSUME NEW o \in OpIds, outcome'[o].status = "rejected" PROVE made'[o] = {}
    <3>1. CASE outcome'[o] = outcome[o]
      <4>1. made[o] = {} /\ ~(Commits(w) /\ o = Op(call[w]))
        BY <2>2, <3>1 DEF CleanInv, RejectedLeavesNothing, NotYetRejected, Commits, BeforeCommit
      <4> QED
        BY <1>1, <4>1, MadeGrows DEF OutcomeInv, RowLocks
    <3>2. CASE outcome'[o] # outcome[o]
      <4>1. Rejects(w) /\ o = Op(call[w])
        BY <1>1, <2>2, <3>2, MoveOfOutcome
      <4> QED
        BY <4>1 DEF Rejects, CleanInv, CleanFailure, db, table
    <3> QED
      BY <3>1, <3>2
  <2> QED
    BY <1>1, <2>1, <2>2, OwnFailureClean DEF CleanInv, RejectedLeavesNothing
<1>2. CASE Reconcile
  <2>1. UNCHANGED <<table, pc, call, res>>
    BY <1>2 DEF Reconcile, ReconcileStart, ReconcileObserve, ReconcileWrite, locals, db
  <2>2. ASSUME NEW o \in OpIds, outcome'[o].status = "rejected"
        PROVE  outcome[o].status = "rejected"
    BY <1>2, <2>2, ReconcileOfOutcome DEF OutcomeInv, ReconTold, HonestCommits
  <2>3. RejectedLeavesNothing'
    BY <2>1, <2>2 DEF CleanInv, RejectedLeavesNothing, db, table
  <2>4. ASSUME NEW w \in Workers PROVE CleanFailure(w)' /\ NotYetRejected(w)'
    BY <2>1, <2>2, OpOfWorker DEF CleanInv, CleanFailure, NotYetRejected, BeforeCommit, db, table
  <2> QED
    BY <2>3, <2>4 DEF CleanInv
<1>3. CASE UNCHANGED <<table, outcome, pc, call, rows, res, recon>>
  BY <1>3 DEF CleanInv, RejectedLeavesNothing, CleanFailure, NotYetRejected, db, table
<1> QED
  BY <1>1, <1>2, <1>3, StepKinds

\* A rejected outcome is the truth, nothing was written under its key, as long
\* as commits that report an error have not happened and the reader does not guess.
THEOREM RejectedMeansNothing == ASSUME HonestCommits PROVE Spec => []RejectedLeavesNothing
<1>1. Init => CleanInv
  BY DEF Init, NoOutcome, CleanInv, RejectedLeavesNothing, CleanFailure, NotYetRejected,
         BeforeCommit
<1>2. CleanInv => RejectedLeavesNothing
  BY DEF CleanInv
<1> QED
  BY <1>1, <1>2, InitTypeOK, StepTypeOK, InitOutcomeInv, StepOutcomeInv, StepClean, PTL DEF Spec

------------------------------------------------------------------------------
(* Lock tokens *)

\* A request that frees a key of its own moves on.
LEMMA OwnTokensOnly ==
    ASSUME TypeOK, NEW w \in Workers, Moves(w), NEW k \in LockKeys,
           owner[k] \in Workers, owner'[k] # owner[k]
    PROVE  owner[k] = w /\ pc'[w] # pc[w]
<1>1. CASE \E j \in LockKeys : Acquire(w, j)
  BY <1>1, ConstantsOK DEF Acquire, TypeOK
<1>2. CASE Unlock(w) \/ Crash(w) \/ \E why : AcquireFails(w, why)
  <2>1. owner[k] = w
    BY <1>2, ReleaseTouchesOwn DEF Unlock, Crash, AcquireFails
  <2>2. CASE Unlock(w)
    BY <2>1, <2>2 DEF Unlock, Finish, Goto, TypeOK
  <2>3. CASE Crash(w)
    BY <2>1, <2>3, FinishFacts DEF Crash
  <2>4. ASSUME NEW why, AcquireFails(w, why) PROVE pc'[w] # pc[w]
    BY <2>4 DEF AcquireFails, Finish, Goto, TypeOK
  <2> QED
    BY <1>2, <2>1, <2>2, <2>3, <2>4
<1>3. CASE UNCHANGED owner
  BY <1>3
<1> QED
  BY <1>1, <1>2, <1>3
     DEF Moves, WorkerStep, Begin, Replay, LoadKeys, LoadFails, AllAcquired, FindPrior,
         TakeSnapshot, locals, ReadForCreate, ReadForCancel, ReadForReschedule, Commit, TxFails, Settle,
         SettleFails, Verify, Reject, RejectFails

\* A lock token leaves Redis only by a step of the request that stored it, or by
\* running out: nobody frees a key taken over by somebody else (the
\* compare-and-delete script of lock/redis.go).
THEOREM TokensAreOwn == Spec => OnlyHolderReleases
<1>1. ASSUME TypeOK, [Next]_vars, NEW k \in LockKeys, owner[k] \in Workers,
             owner'[k] # owner[k]
      PROVE  pc'[owner[k]] # pc[owner[k]] \/ losses' > losses
  <2>1. CASE \E w \in Workers : Moves(w)
    BY <1>1, <2>1, OwnTokensOnly
  <2>2. CASE \E j \in LockKeys : LockVanishes(j)
    BY <1>1, <2>2, ConstantsOK DEF LockVanishes, TypeOK
  <2>3. CASE \E j \in LockKeys : OrphanExpires(j)
    BY <1>1, <2>3, ConstantsOK DEF OrphanExpires, TypeOK
  <2>4. CASE UNCHANGED owner
    BY <1>1, <2>4
  <2> QED
    BY <1>1, <2>1, <2>2, <2>3, <2>4
       DEF Next, Environment, Moves, WatchdogFindsLoss, RenewalErrors,
           Reconcile, ReconcileStart, ReconcileObserve, ReconcileWrite, vars
<1>2. TypeOK /\ [Next]_vars =>
         [\A k \in LockKeys : owner[k] \in Workers /\ owner'[k] # owner[k] =>
             pc'[owner[k]] # pc[owner[k]] \/ losses' > losses]_vars
  BY <1>1
<1> QED
  BY <1>2, TypeCorrect, PTL DEF Spec, OnlyHolderReleases

------------------------------------------------------------------------------
(* The kernel implements the one-step ledger *)

LEMMA CommitIsLedgerStep ==
    ASSUME TypeOK, MaxLosses = 0, RowLocks, SafeReads, OutboxTellsRows,
           NEW w \in Workers, Commits(w)
    PROVE  Ledger!Next
<1> DEFINE c == call[w]
<1>1. /\ c \in Calls /\ pc[w] = "commit"
      /\ booking' = Written(c) /\ outbox' = outbox \cup {EventOf(c)}
      /\ booking \in [Bookings -> BookingStatus]
  BY CommitEffect DEF RowLocks, Commits, TypeOK
<1>2. /\ Inserts(c) => c.new \in Bookings /\ booking[c.new] = "absent"
      /\ GivesUp(c) => c.old \in Bookings /\ Live(c.old)
  BY CommitEffect DEF RowLocks
<1>3. Inserts(c) => \A b \in Bookings : Live(b) /\ Clash(c.new, b) => GivesUp(c) /\ b = c.old
  BY <1>1, NothingOvertaken DEF SafeReads, ReadsFresh
<1>4. EventOf(c) \notin outbox
  <2>1. \/ Inserts(c) /\ Creates(EventOf(c), c.new)
        \/ GivesUp(c) /\ Ends(EventOf(c), c.old)
    BY <1>1, CallsOK DEF EventOf, Event, Creates, Ends, Inserts, GivesUp, OpNames
  <2>2. /\ Inserts(c) => ~\E e \in outbox : Creates(e, c.new)
        /\ GivesUp(c) => ~\E e \in outbox : Ends(e, c.old)
    BY <1>2 DEF OutboxTellsRows, Exists, Live
  <2> QED
    BY <2>1, <2>2
<1>5. outbox' # outbox
  BY <1>1, <1>4
<1>6. Ledger!LiveRows = {b \in Bookings : Live(b)}
  BY DEF Ledger!LiveRows, Live
<1>7. CASE c.op = "create"
  <2>1. Inserts(c) /\ ~GivesUp(c)
    BY <1>7 DEF Inserts, GivesUp
  <2>2. booking' = [booking EXCEPT ![c.new] = "pending"]
    BY <1>1, <1>7, <2>1 DEF Written
  <2>3. outbox' = outbox \cup {Ledger!Event("created", c.new, NoBooking)}
    BY <1>1, <1>7 DEF EventOf, Event, Ledger!Event
  <2>4. Ledger!Fits(c.new, Ledger!LiveRows)
    BY <1>3, <1>6, <2>1 DEF Ledger!Fits
  <2>5. Ledger!Take(c.new)
    BY <1>2, <2>1, <2>2, <2>3, <2>4 DEF Ledger!Take
  <2> QED
    BY <1>2, <1>5, <2>1, <2>5 DEF Ledger!Next
<1>8. CASE c.op = "cancel"
  <2>1. ~Inserts(c) /\ GivesUp(c)
    BY <1>8 DEF Inserts, GivesUp
  <2>2. booking' = [booking EXCEPT ![c.old] = "cancelled"]
    BY <1>1, <1>8, <2>1 DEF Written
  <2>3. outbox' = outbox \cup {Ledger!Event("cancelled", c.old, NoBooking)}
    BY <1>1, <1>8 DEF EventOf, Event, Ledger!Event
  <2>4. Ledger!GiveBack(c.old)
    BY <2>2, <2>3 DEF Ledger!GiveBack
  <2> QED
    BY <1>2, <1>5, <1>6, <2>1, <2>4 DEF Ledger!Next
<1>9. CASE c.op = "reschedule"
  <2>1. Inserts(c) /\ GivesUp(c) /\ c.old # c.new
    BY <1>1, <1>9, CallsOK DEF Inserts, GivesUp
  <2>2. booking' = [booking EXCEPT ![c.old] = "cancelled", ![c.new] = "pending"]
    BY <1>1, <1>2, <2>1 DEF Written
  <2>3. outbox' = outbox \cup {Ledger!Event("rescheduled", c.new, c.old)}
    BY <1>1, <1>9 DEF EventOf, Event, Ledger!Event
  <2>4. Ledger!Fits(c.new, Ledger!LiveRows \ {c.old})
    BY <1>3, <1>6, <2>1 DEF Ledger!Fits
  <2>5. Ledger!Move(c.old, c.new)
    BY <1>2, <2>1, <2>2, <2>3, <2>4 DEF Ledger!Move
  <2> QED
    BY <1>2, <1>5, <1>6, <2>1, <2>5 DEF Ledger!Next
<1> QED
  BY <1>1, <1>7, <1>8, <1>9, CallsOK DEF OpNames

\* Every commit is one atomic take, give-back or move of the ledger, and every
\* other step leaves table and journal alone: snapshots, retries, crashes and
\* the reconciler are invisible to a reader of the two, as long as no Redis lock
\* vanishes under its holder.
THEOREM KernelIsLedger == ASSUME MaxLosses = 0 PROVE Spec => ImplementsLedger
<1>1. Init => Ledger!Init
  BY DEF Init, Ledger!Init
<1>2. ASSUME TypeOK, RowLocks, Exclusion, OutboxTellsRows, [Next]_vars
      PROVE  [Ledger!Next]_<<booking, outbox>>
  <2>1. CASE UNCHANGED table
    BY <2>1 DEF table
  <2>2. ASSUME NEW w \in Workers, Commits(w) PROVE Ledger!Next
    BY <1>2, <2>2, CommitIsLedgerStep DEF Exclusion
  <2> QED
    BY <1>2, <2>1, <2>2, OnlyCommitsWrite
<1> QED
  BY <1>1, <1>2, TypeCorrect, RowLocksHold, ExclusionHolds, OutboxIsComplete, PTL
     DEF Spec, ImplementsLedger, Ledger!Spec

------------------------------------------------------------------------------
(* Sending through WeCom *)

Thens == {"send", "transfer", "resend"}

Sending == [pc : Client!PCs, attempt : 0..clientMaxAttempts, then : Thens,
            from : -1..MaxTime, since : 0..MaxTime]

ClientTypes ==
    /\ kfAutoTakeover \in BOOLEAN /\ human \in BOOLEAN /\ stale \in BOOLEAN
    /\ now \in 0..MaxTime /\ fetcher \in Client!Senders \cup {Client!None}
    /\ rate \in Replies \cup {Client!None}
    /\ tok.from \in -1..MaxTime /\ tok.exp \in -1..(MaxTime + Life)
    /\ s \in [Client!Senders -> Sending] /\ delivered \in [Client!Senders -> Nat]

\* A token counts as old at least one tick before it is.
TokenInv == tok.from >= 0 => tok.exp <= tok.from + Life - 1

\* Of one sender: its request ends within a tick, its token outlives that, its attempts are
\* counted, a reply that may have arrived is not tried again, and it takes a conversation back
\* only if the deployment lets it.
SenderInv(x) ==
    /\ s[x].pc \in Client!InFlight => s[x].since <= now /\ now <= s[x].since + 1
    /\ s[x].pc = "fetch" => s[x].from = s[x].since
    /\ s[x].pc \in {"send", "resend", "transfer"} => s[x].since + 1 < s[x].from + Life
    /\ s[x].pc \in {"start", "pause"} => s[x].attempt = 0
    /\ s[x].pc = "backoff" => s[x].attempt < clientMaxAttempts
    /\ x \in Replies => delivered[x] = 0 \/ (delivered[x] = 1 /\ Client!Finished(x))
    /\ s[x].pc = "transfer" \/ s[x].then = "transfer" => kfAutoTakeover

ClientInv ==
    /\ ClientTypes /\ TokenInv /\ ~stale
    /\ \A x \in Client!Senders : SenderInv(x)

LEMMA PutGoes ==
    ASSUME ClientTypes, NEW x \in Client!Senders, NEW at \in Client!PCs, NEW then \in Thens,
           NEW from \in -1..MaxTime, NEW attempt \in 0..clientMaxAttempts, Client!Put(x, at, then, from, attempt)
    PROVE  /\ s' \in [Client!Senders -> Sending]
           /\ \A y \in Client!Senders : y # x => s'[y] = s[y]
           /\ s'[x].pc = at /\ s'[x].then = then /\ s'[x].from = from /\ s'[x].attempt = attempt
           /\ s'[x].since = IF at \in Client!InFlight THEN now ELSE 0
<1> DEFINE since == IF at \in Client!InFlight THEN now ELSE 0
<1>1. since \in 0..MaxTime
  BY ClientAssumption DEF ClientTypes, Client!WecomClientAssumption
<1>2. s' = [s EXCEPT ![x] = [pc |-> at, attempt |-> attempt, then |-> then, from |-> from, since |-> since]]
  BY DEF Client!Put
<1> HIDE DEF since
<1>3. [pc |-> at, attempt |-> attempt, then |-> then, from |-> from, since |-> since] \in Sending
  BY <1>1 DEF Sending
<1>4. s \in [Client!Senders -> Sending]
  BY DEF ClientTypes
<1>5. /\ s' \in [Client!Senders -> Sending] /\ \A y \in Client!Senders : y # x => s'[y] = s[y]
      /\ s'[x] = [pc |-> at, attempt |-> attempt, then |-> then, from |-> from, since |-> since]
  BY <1>2, <1>3, <1>4
<1> QED
  BY <1>5 DEF since

\* After an attempt that failed, a reply pauses for another only if WeCom refused it for its rate.
LEMMA FailGoes ==
    ASSUME ClientTypes, NEW x \in Client!Senders, NEW limited \in BOOLEAN, Client!Fail(x, limited)
    PROVE  /\ s' \in [Client!Senders -> Sending] /\ rate' \in Replies \cup {Client!None}
           /\ \A y \in Client!Senders : y # x => s'[y] = s[y]
           /\ s'[x].then = "send" /\ s'[x].attempt = s[x].attempt
           /\ s'[x].pc = "failed" \/ (s'[x].pc = "backoff" /\ s[x].attempt < clientMaxAttempts /\ (limited \/ x \in Notices))
<1>1. s[x].attempt \in 0..clientMaxAttempts /\ -1 \in -1..MaxTime
  BY ClientAssumption DEF ClientTypes, Sending, Client!WecomClientAssumption
<1>2. CASE Client!Retries(x, limited) /\ s[x].attempt < clientMaxAttempts
  <2>1. Client!Put(x, "backoff", "send", -1, s[x].attempt) /\ rate' = rate
    BY <1>2 DEF Client!Fail, Client!Go
  <2>2. "backoff" \in Client!PCs /\ "send" \in Thens
    BY DEF Client!PCs, Thens
  <2> QED
    BY <1>1, <1>2, <2>1, <2>2, PutGoes DEF Client!Retries, ClientTypes
<1>3. CASE ~(Client!Retries(x, limited) /\ s[x].attempt < clientMaxAttempts)
  <2>1. Client!Put(x, "failed", "send", -1, s[x].attempt) /\ rate' \in {rate, Client!None}
    BY <1>3 DEF Client!Fail, Client!End, Client!Go
  <2>2. "failed" \in Client!PCs /\ "send" \in Thens
    BY DEF Client!PCs, Thens
  <2> QED
    BY <1>1, <2>1, <2>2, PutGoes DEF ClientTypes
<1> QED
  BY <1>2, <1>3

\* What a step of one sender leaves of the others.
LEMMA OthersWait ==
    ASSUME ClientInv, NEW x \in Client!Senders, \A y \in Client!Senders : y # x => s'[y] = s[y],
           \A y \in Client!Senders : y # x => delivered'[y] = delivered[y],
           now' = now, kfAutoTakeover' = kfAutoTakeover, SenderInv(x)'
    PROVE  \A y \in Client!Senders : SenderInv(y)'
<1> SUFFICES ASSUME NEW y \in Client!Senders, y # x PROVE SenderInv(y)'
  OBVIOUS
<1> QED
  BY DEF ClientInv, SenderInv, Client!Finished

LEMMA ClientBegins == Client!Init => ClientInv
<1> SUFFICES ASSUME Client!Init PROVE ClientInv
  OBVIOUS
<1>1. PICK party \in Parties :
        s = [x \in Client!Senders |-> [pc |-> IF x \in party THEN "start" ELSE "ok", attempt |-> 0, from |-> -1, since |-> 0, then |-> "send"]]
  BY DEF Client!Init
<1>2. 0 \in 0..MaxTime /\ -1 \in -1..MaxTime /\ -1 \in -1..(MaxTime + Life) /\ 0 \in 0..clientMaxAttempts
  BY ClientAssumption DEF Client!WecomClientAssumption
<1>3. s \in [Client!Senders -> Sending]
  BY <1>1, <1>2 DEF Sending, Client!PCs, Thens
<1>4. ClientTypes
  BY <1>2, <1>3, ClientAssumption DEF Client!Init, ClientTypes, Client!WecomClientAssumption
<1>5. ASSUME NEW x \in Client!Senders PROVE SenderInv(x)
  BY <1>1 DEF SenderInv, Client!Init, Client!InFlight
<1> QED
  BY <1>4, <1>5 DEF ClientInv, TokenInv, Client!Init

LEMMA WaitsItsTurn ==
    ASSUME ClientInv, NEW x \in Client!Senders, Client!Enter(x) \/ Client!Attempt(x)
    PROVE  ClientInv'
<1>1. CASE Client!Enter(x)
  <2>1. Client!Put(x, "pause", "send", -1, s[x].attempt) /\ s[x].pc = "start" /\ x \in Replies
    BY <1>1 DEF Client!Enter, Client!Go
  <2>2. /\ "pause" \in Client!PCs /\ "send" \in Thens /\ -1 \in -1..MaxTime
        /\ s[x].attempt \in 0..clientMaxAttempts /\ s[x].pc \in Client!PCs
    BY ClientAssumption DEF Client!PCs, Thens, ClientInv, ClientTypes, Sending, Client!WecomClientAssumption
  <2>3. /\ s' \in [Client!Senders -> Sending] /\ \A y \in Client!Senders : y # x => s'[y] = s[y]
        /\ s'[x].pc = "pause" /\ s'[x].then = "send" /\ s'[x].attempt = s[x].attempt
    BY <2>1, <2>2, PutGoes DEF ClientInv
  <2>4. SenderInv(x)'
    BY <1>1, <2>1, <2>3 DEF Client!Enter, ClientInv, SenderInv, Client!InFlight, Client!Finished
  <2>5. \A y \in Client!Senders : SenderInv(y)'
    BY <1>1, <2>3, <2>4, OthersWait DEF Client!Enter
  <2> QED
    BY <1>1, <2>1, <2>3, <2>5 DEF Client!Enter, ClientInv, ClientTypes, TokenInv
<1>2. CASE Client!Attempt(x)
  <2>1. /\ Client!Put(x, "token", "send", -1, s[x].attempt + 1) /\ s[x].pc \in {"pause", "backoff", "start"}
    BY <1>2 DEF Client!Attempt, Client!NextAttempt
  <2>2. s[x].attempt \in 0..clientMaxAttempts /\ clientMaxAttempts \in Nat \ {0} /\ s[x].attempt < clientMaxAttempts
    BY <2>1, ClientAssumption DEF ClientInv, ClientTypes, Sending, SenderInv, Client!WecomClientAssumption
  <2>3. /\ "token" \in Client!PCs /\ "send" \in Thens /\ -1 \in -1..MaxTime
        /\ s[x].attempt + 1 \in 0..clientMaxAttempts
    BY <2>2, ClientAssumption DEF Client!PCs, Thens, Client!WecomClientAssumption
  <2>4. /\ s' \in [Client!Senders -> Sending] /\ \A y \in Client!Senders : y # x => s'[y] = s[y]
        /\ s'[x].pc = "token" /\ s'[x].then = "send"
    BY <2>1, <2>3, PutGoes DEF ClientInv
  <2>5. SenderInv(x)'
    BY <1>2, <2>1, <2>4 DEF Client!Attempt, ClientInv, SenderInv, Client!InFlight, Client!Finished
  <2>6. \A y \in Client!Senders : SenderInv(y)'
    BY <1>2, <2>4, <2>5, OthersWait DEF Client!Attempt
  <2> QED
    BY <1>2, <2>4, <2>6 DEF Client!Attempt, ClientInv, ClientTypes, TokenInv
<1> QED
  BY <1>1, <1>2

LEMMA GetsToken ==
    ASSUME ClientInv, NEW x \in Client!Senders, Client!UseToken(x) \/ Client!Fetch(x) \/ Client!Fetched(x)
    PROVE  ClientInv'
<1>0. /\ s[x].then \in Thens /\ s[x].attempt \in 0..clientMaxAttempts /\ s[x].from \in -1..MaxTime /\ s[x].since \in 0..MaxTime
      /\ tok.from \in -1..MaxTime /\ tok.exp \in Int /\ now \in 0..MaxTime /\ now \in -1..MaxTime
      /\ MaxTime \in Nat /\ Life \in Nat /\ Margin \in Nat /\ Margin >= 2 /\ Life > Margin
      /\ Thens \subseteq Client!PCs /\ "fetch" \in Client!PCs
  BY ClientAssumption DEF ClientInv, ClientTypes, Sending, Client!WecomClientAssumption, Thens, Client!PCs
<1>1. CASE Client!UseToken(x)
  <2>1. /\ Client!Put(x, s[x].then, s[x].then, tok.from, s[x].attempt) /\ s[x].pc = "token"
        /\ tok.from >= 0 /\ now < tok.exp
    BY <1>1 DEF Client!UseToken, Client!Fresh
  <2>2. /\ s' \in [Client!Senders -> Sending] /\ \A y \in Client!Senders : y # x => s'[y] = s[y]
        /\ s'[x].pc = s[x].then /\ s'[x].then = s[x].then /\ s'[x].from = tok.from /\ s'[x].since = now
    BY <1>0, <2>1, PutGoes DEF ClientInv, Thens, Client!InFlight
  <2>3. now + 1 < tok.from + Life
    BY <1>0, <2>1 DEF ClientInv, TokenInv
  <2>4. SenderInv(x)'
    BY <1>0, <1>1, <2>1, <2>2, <2>3 DEF Client!UseToken, ClientInv, SenderInv, Client!InFlight, Client!Finished, Thens
  <2>5. \A y \in Client!Senders : SenderInv(y)'
    BY <1>1, <2>2, <2>4, OthersWait DEF Client!UseToken
  <2> QED
    BY <1>1, <2>2, <2>5 DEF Client!UseToken, ClientInv, ClientTypes, TokenInv
<1>2. CASE Client!Fetch(x)
  <2>1. Client!Put(x, "fetch", s[x].then, now, s[x].attempt) /\ s[x].pc = "token"
    BY <1>2 DEF Client!Fetch
  <2>2. /\ s' \in [Client!Senders -> Sending] /\ \A y \in Client!Senders : y # x => s'[y] = s[y]
        /\ s'[x].pc = "fetch" /\ s'[x].then = s[x].then /\ s'[x].from = now /\ s'[x].since = now
    BY <1>0, <2>1, PutGoes DEF ClientInv, Client!InFlight
  <2>3. SenderInv(x)'
    BY <1>0, <1>2, <2>1, <2>2 DEF Client!Fetch, ClientInv, SenderInv, Client!InFlight, Client!Finished, Thens
  <2>4. \A y \in Client!Senders : SenderInv(y)'
    BY <1>2, <2>2, <2>3, OthersWait DEF Client!Fetch
  <2> QED
    BY <1>2, <2>2, <2>4 DEF Client!Fetch, ClientInv, ClientTypes, TokenInv
<1>3. CASE Client!Fetched(x)
  <2>1. /\ Client!Put(x, s[x].then, s[x].then, s[x].from, s[x].attempt) /\ s[x].pc = "fetch"
        /\ tok' = [from |-> s[x].from, exp |-> now + Life - Margin]
    BY <1>3 DEF Client!Fetched, Client!Expiry
  <2>2. /\ s' \in [Client!Senders -> Sending] /\ \A y \in Client!Senders : y # x => s'[y] = s[y]
        /\ s'[x].pc = s[x].then /\ s'[x].then = s[x].then /\ s'[x].from = s[x].from /\ s'[x].since = now
    BY <1>0, <2>1, PutGoes DEF ClientInv, Thens, Client!InFlight
  <2>3. now <= s[x].from + 1
    BY <2>1 DEF ClientInv, SenderInv, Client!InFlight
  <2>4. now + 1 < s[x].from + Life /\ now + Life - Margin \in -1..(MaxTime + Life) /\ now + Life - Margin <= s[x].from + Life - 1
    BY <1>0, <2>3
  <2>5. SenderInv(x)'
    BY <1>0, <1>3, <2>1, <2>2, <2>4 DEF Client!Fetched, ClientInv, SenderInv, Client!InFlight, Client!Finished, Thens
  <2>6. \A y \in Client!Senders : SenderInv(y)'
    BY <1>3, <2>2, <2>5, OthersWait DEF Client!Fetched
  <2>7. tok'.from = s[x].from /\ tok'.exp = now + Life - Margin
    BY <2>1
  <2>8. ClientTypes'
    BY <1>0, <1>3, <2>2, <2>4, <2>7 DEF Client!Fetched, ClientInv, ClientTypes
  <2> QED
    BY <1>3, <2>4, <2>6, <2>7, <2>8 DEF Client!Fetched, ClientInv, TokenInv
<1> QED
  BY <1>1, <1>2, <1>3

\* No request under way outlives its token.
LEMMA ServedInTime ==
    ASSUME ClientInv, NEW x \in Client!Senders, s[x].pc \in {"send", "resend", "transfer"}, Client!Served(x)
    PROVE  stale' = FALSE
<1>1. /\ s[x].from \in -1..MaxTime /\ s[x].since \in 0..MaxTime /\ now \in 0..MaxTime
      /\ MaxTime \in Nat /\ Life \in Nat
  BY ClientAssumption DEF ClientInv, ClientTypes, Sending, Client!WecomClientAssumption
<1>2. now <= s[x].since + 1 /\ s[x].since + 1 < s[x].from + Life
  BY DEF ClientInv, SenderInv, Client!InFlight
<1>3. ~(now >= s[x].from + Life)
  BY <1>1, <1>2
<1> QED
  BY <1>3 DEF ClientInv, Client!Served

LEMMA SendFails ==
    ASSUME ClientInv, NEW x \in Client!Senders,
           Client!FetchFails(x) \/ Client!Lost(x) \/ Client!Limited(x)
             \/ (Client!Refused(x) /\ ~(Client!MayTakeOver /\ s[x].pc = "send"))
    PROVE  ClientInv'
<1>1. PICK limited \in BOOLEAN : Client!Fail(x, limited)
  BY DEF Client!FetchFails, Client!Lost, Client!Limited, Client!Refused
<1>2. /\ s' \in [Client!Senders -> Sending] /\ rate' \in Replies \cup {Client!None}
      /\ \A y \in Client!Senders : y # x => s'[y] = s[y]
      /\ s'[x].then = "send" /\ s'[x].attempt = s[x].attempt
      /\ s'[x].pc = "failed" \/ (s'[x].pc = "backoff" /\ s[x].attempt < clientMaxAttempts)
  BY <1>1, FailGoes DEF ClientInv
<1>3. stale' = FALSE
  <2>1. CASE stale' = stale
    BY <2>1 DEF ClientInv
  <2>2. CASE Client!Limited(x) \/ Client!Refused(x)
    BY <2>2, ServedInTime DEF Client!Limited, Client!Refused
  <2> QED
    BY <2>1, <2>2 DEF Client!FetchFails, Client!Lost
<1>4. /\ s[x].pc \notin {"ok", "failed"} /\ fetcher' \in {fetcher, Client!None} /\ delivered' = delivered
      /\ UNCHANGED <<kfAutoTakeover, now, tok, human>>
  BY DEF Client!FetchFails, Client!Lost, Client!Limited, Client!Refused
<1>5. SenderInv(x)'
  BY <1>2, <1>4 DEF ClientInv, SenderInv, Client!InFlight, Client!Finished
<1>6. \A y \in Client!Senders : SenderInv(y)'
  BY <1>2, <1>4, <1>5, OthersWait
<1> QED
  BY <1>2, <1>3, <1>4, <1>6 DEF ClientInv, ClientTypes, TokenInv

LEMMA TakesBack ==
    ASSUME ClientInv, NEW x \in Client!Senders,
           Client!Transfer(x) \/ (Client!Refused(x) /\ Client!MayTakeOver /\ s[x].pc = "send")
    PROVE  ClientInv'
<1>1. PICK then \in {"transfer", "resend"} :
        /\ Client!Put(x, "token", then, -1, s[x].attempt) /\ rate' = rate
        /\ then = "transfer" => kfAutoTakeover
  BY DEF Client!Transfer, Client!Refused, Client!Again, Client!MayTakeOver
<1>2. /\ "token" \in Client!PCs /\ then \in Thens /\ -1 \in -1..MaxTime /\ s[x].attempt \in 0..clientMaxAttempts
  BY ClientAssumption DEF Client!PCs, Thens, ClientInv, ClientTypes, Sending, Client!WecomClientAssumption
<1>3. /\ s' \in [Client!Senders -> Sending] /\ \A y \in Client!Senders : y # x => s'[y] = s[y]
      /\ s'[x].pc = "token" /\ s'[x].then = then
  BY <1>1, <1>2, PutGoes DEF ClientInv
<1>4. stale' = FALSE
  BY ServedInTime DEF Client!Transfer, Client!Refused
<1>5. /\ s[x].pc \notin {"ok", "failed"} /\ human' \in {human, FALSE} /\ delivered' = delivered
      /\ UNCHANGED <<kfAutoTakeover, now, tok, fetcher>>
  BY DEF Client!Transfer, Client!Refused
<1>6. SenderInv(x)'
  BY <1>1, <1>3, <1>5 DEF ClientInv, SenderInv, Client!InFlight, Client!Finished
<1>7. \A y \in Client!Senders : SenderInv(y)'
  BY <1>3, <1>5, <1>6, OthersWait
<1> QED
  BY <1>1, <1>3, <1>4, <1>5, <1>7 DEF ClientInv, ClientTypes, TokenInv

LEMMA GoesThrough ==
    ASSUME ClientInv, NEW x \in Client!Senders, Client!Delivered(x) \/ Client!AnswerLost(x)
    PROVE  ClientInv'
<1>1. /\ s[x].pc \in {"send", "resend"} /\ stale' = FALSE
      /\ delivered' = [delivered EXCEPT ![x] = @ + 1] /\ UNCHANGED <<kfAutoTakeover, now, tok, fetcher, human>>
  BY ServedInTime DEF Client!Delivered, Client!AnswerLost
<1>2. /\ s' \in [Client!Senders -> Sending] /\ rate' \in Replies \cup {Client!None}
      /\ \A y \in Client!Senders : y # x => s'[y] = s[y]
      /\ s'[x].then = "send"
      /\ s'[x].pc \in {"ok", "failed"} \/ (s'[x].pc = "backoff" /\ s'[x].attempt < clientMaxAttempts /\ x \in Notices)
  <2>1. CASE Client!Delivered(x)
    <3>1. Client!Put(x, "ok", "send", -1, s[x].attempt) /\ rate' \in {rate, Client!None}
      BY <2>1 DEF Client!Delivered, Client!End, Client!Go
    <3>2. "ok" \in Client!PCs /\ "send" \in Thens /\ -1 \in -1..MaxTime /\ s[x].attempt \in 0..clientMaxAttempts
      BY ClientAssumption DEF Client!PCs, Thens, ClientInv, ClientTypes, Sending, Client!WecomClientAssumption
    <3> QED
      BY <3>1, <3>2, PutGoes DEF ClientInv, ClientTypes
  <2>2. CASE Client!AnswerLost(x)
    <3>1. Client!Fail(x, FALSE)
      BY <2>2 DEF Client!AnswerLost
    <3> QED
      BY <3>1, FailGoes DEF ClientInv
  <2> QED
    BY <2>1, <2>2
<1>3. Replies \cap Notices = {}
  BY ClientAssumption DEF Client!WecomClientAssumption
<1>4. /\ delivered \in [Client!Senders -> Nat] /\ delivered' \in [Client!Senders -> Nat]
      /\ delivered'[x] = delivered[x] + 1 /\ \A y \in Client!Senders : y # x => delivered'[y] = delivered[y]
  BY <1>1 DEF ClientInv, ClientTypes
<1>5. SenderInv(x)'
  <2>1. x \in Replies => delivered[x] = 0
    BY <1>1 DEF ClientInv, SenderInv, Client!Finished
  <2>2. x \in Replies => delivered'[x] = 1 /\ s'[x].pc \in {"ok", "failed"}
    BY <1>2, <1>3, <1>4, <2>1
  <2> QED
    BY <1>2, <2>2 DEF SenderInv, Client!InFlight, Client!Finished
<1>6. \A y \in Client!Senders : SenderInv(y)'
  BY <1>1, <1>2, <1>4, <1>5, OthersWait
<1> QED
  BY <1>1, <1>2, <1>4, <1>6 DEF ClientInv, ClientTypes, TokenInv

LEMMA ClientStep == ClientInv /\ [Client!Next]_(Client!vars) => ClientInv'
<1> SUFFICES ASSUME ClientInv, [Client!Next]_(Client!vars) PROVE ClientInv'
  OBVIOUS
<1>1. ASSUME NEW x \in Client!Senders, Client!Step(x) PROVE ClientInv'
  <2>1. \/ Client!Enter(x) \/ Client!Attempt(x)
        \/ Client!UseToken(x) \/ Client!Fetch(x) \/ Client!Fetched(x)
        \/ Client!Delivered(x) \/ Client!AnswerLost(x)
        \/ Client!Transfer(x) \/ (Client!Refused(x) /\ Client!MayTakeOver /\ s[x].pc = "send")
        \/ Client!FetchFails(x) \/ Client!Lost(x) \/ Client!Limited(x)
             \/ (Client!Refused(x) /\ ~(Client!MayTakeOver /\ s[x].pc = "send"))
    BY <1>1 DEF Client!Step
  <2> QED
    BY <2>1, WaitsItsTurn, GetsToken, SendFails, TakesBack, GoesThrough
<1>2. CASE Client!TakenOver
  <2>1. \A x \in Client!Senders : SenderInv(x)'
    BY <1>2 DEF Client!TakenOver, ClientInv, SenderInv, Client!Finished
  <2> QED
    BY <1>2, <2>1 DEF Client!TakenOver, ClientInv, ClientTypes, TokenInv
<1>3. CASE Client!Tick
  <2>1. now \in 0..MaxTime /\ now' = now + 1 /\ now' \in 0..MaxTime
    BY <1>3, ClientAssumption DEF Client!Tick, ClientInv, ClientTypes, Client!WecomClientAssumption
  <2>2. ASSUME NEW x \in Client!Senders PROVE SenderInv(x)'
    BY <1>3, <2>1 DEF Client!Tick, ClientInv, SenderInv, Client!Finished
  <2> QED
    BY <1>3, <2>1, <2>2 DEF Client!Tick, ClientInv, ClientTypes, TokenInv
<1>4. CASE UNCHANGED Client!vars
  <2>1. \A x \in Client!Senders : SenderInv(x)'
    BY <1>4 DEF Client!vars, ClientInv, SenderInv, Client!Finished
  <2> QED
    BY <1>4, <2>1 DEF Client!vars, ClientInv, ClientTypes, TokenInv
<1> QED
  BY <1>1, <1>2, <1>3, <1>4 DEF Client!Next

LEMMA ClientInvTells == ClientInv => Client!TypeOK /\ Client!TokenAccepted /\ Client!RepliedOnce
<1> SUFFICES ASSUME ClientInv PROVE Client!TypeOK /\ Client!TokenAccepted /\ Client!RepliedOnce
  OBVIOUS
<1>1. ASSUME NEW x \in Client!Senders PROVE s[x].pc \in Client!PCs /\ s[x].attempt \in 0..clientMaxAttempts
  BY DEF ClientInv, ClientTypes, Sending
<1>2. Client!TypeOK
  BY <1>1 DEF ClientInv, ClientTypes, Client!TypeOK
<1>3. ASSUME NEW x \in Replies PROVE delivered[x] <= 1
  BY DEF ClientInv, SenderInv, Client!Senders
<1> QED
  BY <1>2, <1>3 DEF ClientInv, Client!TokenAccepted, Client!RepliedOnce

LEMMA ClientLeavesPersons == ClientInv /\ [Client!Next]_(Client!vars) => Client!MayTakeAway
<1> SUFFICES ASSUME ClientInv, [Client!Next]_(Client!vars), human, ~kfAutoTakeover PROVE human'
  BY DEF Client!MayTakeAway
<1>1. ASSUME NEW x \in Client!Senders PROVE s[x].pc # "transfer"
  BY DEF ClientInv, SenderInv
<1> QED
  BY <1>1 DEF Client!Next, Client!Step, Client!vars, Client!Enter, Client!Attempt, Client!UseToken, Client!Fetch, Client!Fetched,
     Client!FetchFails, Client!Delivered, Client!AnswerLost, Client!Lost, Client!Limited, Client!Refused, Client!Transfer,
     Client!TakenOver, Client!Tick

------------------------------------------------------------------------------
(* The web chat *)

Stages == {"idle", "run", "offer", "wait"}
HandPCs == {"start", "push", "dead", "begin", "wait", "stream", "stalled", "clear", "resume", "over"}
LoopRows == [state : {"none", "made", "live", "dead"}, queue : Seq(Turns!Handlers), turn : Turns!Handlers \cup {Turns!None},
             stage : Stages, gen : 0..Turns!MaxGen, cancelled : BOOLEAN, kept : BOOLEAN]
HandRows == [pc : HandPCs, gen : 0..Turns!MaxGen, loop : 0..MaxLoops, of : Turns!Handlers \cup {Turns!None}]

TurnTypes ==
    /\ cur \in 0..MaxLoops /\ gen \in 0..Turns!MaxGen /\ loopsMade \in 0..MaxLoops
    /\ loop \in [Turns!Loops -> LoopRows] /\ hand \in [Turns!Handlers -> HandRows]
    /\ ready \in [Turns!Gens -> Turns!Handlers \cup {Turns!None}] /\ done \in [Turns!Gens -> Turns!Results \cup {Turns!Empty}]
    /\ closes \in [Turns!Gens -> Nat]
    /\ pending \in BOOLEAN /\ alone \subseteq Chats /\ crossed \subseteq Turns!Handlers

\* A handler that has channels.
Tuned(h) == hand[h].pc \in {"push", "dead", "begin", "wait", "stream", "stalled"}
\* A message that no loop has got yet.
Unsent(h) == hand[h].pc \in {"start", "push", "dead", "begin", "clear", "resume"}
\* A message that waits for its turn, or has it.
Queued(h, l) == h \in Turns!ToSet(loop[l].queue)
AtWork(h, l) == loop[l].stage # "idle" /\ loop[l].turn = h

\* Channels belong to one handler, are handed out once, and are empty and open until then; and
\* a handler that has not reported finds room.
ChannelsInv ==
    /\ gen = 0 => \A l \in Turns!Loops : loop[l].stage = "idle" /\ loop[l].queue = <<>>
    /\ \A h \in Turns!Handlers : Tuned(h) => /\ hand[h].gen \in 1..gen /\ hand[h].loop \in Turns!Loops
                                             /\ done[hand[h].gen] = Turns!Empty
    /\ \A h \in Turns!Handlers : hand[h].pc \in {"stream", "stalled"} => hand[h].of \in Turns!Handlers
    /\ \A h, k \in Turns!Handlers : Tuned(h) /\ Tuned(k) /\ hand[h].gen = hand[k].gen => h = k
    /\ \A g \in Turns!Gens : /\ g > gen => ready[g] = Turns!None /\ done[g] = Turns!Empty
                             /\ g >= gen => closes[g] = 0
                             /\ closes[g] <= 1
    /\ \A l \in Turns!Loops : /\ loop[l].stage # "idle" => loop[l].turn \in Turns!Handlers
                              /\ loop[l].stage \in {"offer", "wait"} => loop[l].gen \in 1..gen

\* A message is with no loop before it was sent there, so it is at work once.
UnsentInv ==
    \A h \in Turns!Handlers :
        /\ Unsent(h) => \A l \in Turns!Loops : ~Queued(h, l) /\ ~AtWork(h, l)
        /\ hand[h].pc = "start" => h \notin crossed

\* A chat that is alone is the only one engaged: the latest channels are its own, and only its own
\* turn has put anything into them.
AloneInv ==
    \A c \in alone :
        /\ c \notin crossed
        /\ c \in Turns!Engaged =>
              /\ Turns!Engaged = {c} /\ gen \in Turns!Gens /\ hand[c].gen = gen
              /\ ready[gen] \in {Turns!None, c} /\ (done[gen] = Turns!Empty \/ done[gen].of = c)
              /\ hand[c].pc \in {"stream", "stalled"} => hand[c].of = c
              /\ \A l \in Turns!Loops : loop[l].stage \in {"offer", "wait"} => loop[l].gen = gen

TurnsInv == TurnTypes /\ ChannelsInv /\ UnsentInv /\ AloneInv

LEMMA GensAre ==
    /\ Turns!MaxGen \in Nat /\ Turns!Gens = 1..Turns!MaxGen
    /\ MaxLoops \in Nat /\ Turns!Loops = 1..MaxLoops
    /\ Chats \subseteq Turns!Handlers /\ Approvals \subseteq Turns!Handlers
<1>1. IsFiniteSet(Chats) /\ IsFiniteSet(Approvals)
  BY TurnsAssumption DEF Turns!ChatTurnsAssumption, Turns!IsFiniteSet, IsFiniteSet
<1>2. IsFiniteSet(Turns!Handlers)
  BY <1>1, FS_Union DEF Turns!Handlers
<1>3. Cardinality(Turns!Handlers) \in Nat
  BY <1>2, FS_CardinalityType
<1>4. Turns!Cardinality(Turns!Handlers) = Cardinality(Turns!Handlers)
  BY DEF Turns!Cardinality, Cardinality
<1> QED
  BY <1>3, <1>4, TurnsAssumption DEF Turns!MaxGen, Turns!Gens, Turns!Loops, Turns!Handlers, Turns!ChatTurnsAssumption

LEMMA AppendAdds ==
    ASSUME NEW S, NEW q \in Seq(S), NEW x \in S
    PROVE  Append(q, x) \in Seq(S) /\ Append(q, x) # <<>> /\ Turns!ToSet(Append(q, x)) = Turns!ToSet(q) \cup {x}
<1>1. PICK r : r = Append(q, x)
  OBVIOUS
<1>2. /\ r \in Seq(S) /\ r # <<>> /\ DOMAIN r = DOMAIN q \cup {Len(q) + 1} /\ r[Len(q) + 1] = x
      /\ \A i \in DOMAIN q : r[i] = q[i]
  BY <1>1
<1>3. Turns!ToSet(r) = Turns!ToSet(q) \cup {x}
  BY <1>2 DEF Turns!ToSet
<1> QED
  BY <1>1, <1>2, <1>3

LEMMA HeadWaits ==
    ASSUME NEW S, NEW q \in Seq(S), q # <<>>
    PROVE  Head(q) \in S /\ Head(q) \in Turns!ToSet(q) /\ Tail(q) \in Seq(S) /\ Turns!ToSet(Tail(q)) \subseteq Turns!ToSet(q)
<1>1. PICK r : r = Tail(q)
  OBVIOUS
<1>2. /\ r \in Seq(S) /\ Len(q) >= 1 /\ Len(r) = Len(q) - 1 /\ \A i \in 1..Len(r) : r[i] = q[i + 1]
      /\ Head(q) = q[1] /\ q[1] \in S /\ DOMAIN r = 1..Len(r) /\ DOMAIN q = 1..Len(q) /\ Len(q) \in Nat
  BY <1>1
<1>3. \A i \in 1..Len(r) : i + 1 \in DOMAIN q
  BY <1>2
<1>4. Turns!ToSet(r) \subseteq Turns!ToSet(q)
  BY <1>2, <1>3 DEF Turns!ToSet
<1> QED
  BY <1>1, <1>2, <1>4 DEF Turns!ToSet

\* Who is engaged, and what a step does to it.
LEMMA WhoIsEngaged ==
    /\ \A h \in Turns!Handlers : h \in Turns!Engaged <=> Turns!Active(h) \/ \E l \in Turns!Loops : AtWork(h, l) \/ (loop[l].state # "dead" /\ Queued(h, l))
    /\ Turns!Engaged \subseteq Turns!Handlers
BY DEF Turns!Engaged, AtWork, Queued

LEMMA EngagedStays ==
    ASSUME \A h \in Turns!Handlers : Turns!Active(h)' => Turns!Active(h) \/ h \in Turns!Engaged,
           \A h \in Turns!Handlers, l \in Turns!Loops : AtWork(h, l)' => h \in Turns!Engaged,
           \A h \in Turns!Handlers, l \in Turns!Loops : (loop[l].state # "dead" /\ Queued(h, l))' => h \in Turns!Engaged
    PROVE  Turns!Engaged' \subseteq Turns!Engaged
BY DEF Turns!Engaged, AtWork, Queued

\* While nobody new is engaged, those who are alone stay it.
LEMMA AloneStays ==
    ASSUME TurnsInv, Turns!Engaged' \subseteq Turns!Engaged, alone' = alone, NEW c \in alone', c \in Turns!Engaged'
    PROVE  c \in alone /\ Turns!Engaged = {c} /\ Turns!Engaged' = {c}
BY DEF TurnsInv, AloneInv

LEMMA AloneComes ==
    ASSUME TurnsInv, NEW h \in Turns!Handlers, Turns!Company(h), Turns!Engaged' \subseteq Turns!Engaged \cup {h}, NEW c \in alone', c \in Turns!Engaged'
    PROVE  c = h /\ Turns!Engaged = {} /\ Turns!Engaged' = {c} /\ h \in Chats
<1>1. CASE Turns!Engaged = {}
  BY <1>1 DEF Turns!Company, TurnsInv, TurnTypes
<1>2. CASE Turns!Engaged # {}
  BY <1>2 DEF Turns!Company
<1> QED
  BY <1>1, <1>2

LEMMA PcGoes ==
    ASSUME TurnTypes, NEW h \in Turns!Handlers, NEW at \in HandPCs, hand' = [hand EXCEPT ![h].pc = at]
    PROVE  /\ hand' \in [Turns!Handlers -> HandRows] /\ \A k \in Turns!Handlers : k # h => hand'[k] = hand[k]
           /\ hand'[h].pc = at /\ hand'[h].gen = hand[h].gen /\ hand'[h].loop = hand[h].loop /\ hand'[h].of = hand[h].of
BY DEF TurnTypes, HandRows

\* A handler goes on alone: it loses its channels or keeps them, and nobody new is engaged.
LEMMA GoesOnAlone ==
    ASSUME TurnsInv, NEW h \in Turns!Handlers, NEW at \in {"over", "dead", "clear", "resume", "stalled"}, hand' = [hand EXCEPT ![h].pc = at],
           at = "stalled" => hand[h].pc = "stream",
           Tuned(h)' => Tuned(h), Unsent(h)' => Unsent(h),
           UNCHANGED <<cur, loopsMade, loop, Turns!bridge, crossed>>, pending' \in BOOLEAN,
           (alone' = alone /\ (Turns!Active(h)' => Turns!Active(h))) \/ (Turns!Company(h) /\ h \in Approvals)
    PROVE  TurnsInv'
<1>1. at \in HandPCs
  BY DEF HandPCs
<1>2. /\ hand' \in [Turns!Handlers -> HandRows] /\ \A k \in Turns!Handlers : k # h => hand'[k] = hand[k]
      /\ hand'[h].pc = at /\ hand'[h].gen = hand[h].gen /\ hand'[h].loop = hand[h].loop /\ hand'[h].of = hand[h].of
  BY <1>1, PcGoes DEF TurnsInv
<1>3. TurnTypes'
  BY <1>2 DEF TurnsInv, TurnTypes, Turns!bridge, Turns!Company
<1>4. ChannelsInv'
  <2>1. \A k \in Turns!Handlers : (Tuned(k)' => Tuned(k)) /\ hand'[k].gen = hand[k].gen /\ hand'[k].loop = hand[k].loop
    BY <1>2 DEF Tuned
  <2>2. \A k \in Turns!Handlers : hand'[k].pc \in {"stream", "stalled"} => hand[k].pc \in {"stream", "stalled"} /\ hand'[k].of = hand[k].of
    BY <1>2
  <2> QED
    BY <2>1, <2>2 DEF TurnsInv, ChannelsInv, Turns!bridge
<1>5. UnsentInv'
  BY <1>2 DEF TurnsInv, UnsentInv, Unsent, Queued, AtWork
<1>6. Turns!Engaged' \subseteq Turns!Engaged \cup {h} /\ ((Turns!Active(h)' => Turns!Active(h)) => Turns!Engaged' \subseteq Turns!Engaged)
  BY <1>2 DEF Turns!Engaged, Turns!Active
<1>7. ASSUME NEW c \in alone' PROVE c \notin crossed'
  <2>1. alone' \subseteq alone
    BY TurnsAssumption DEF Turns!Company, Turns!ChatTurnsAssumption
  <2> QED
    BY <1>7, <2>1 DEF TurnsInv, AloneInv
<1>8. ASSUME NEW c \in alone', c \in Turns!Engaged'
      PROVE  c \in alone /\ Turns!Engaged = {c} /\ Turns!Engaged' = {c}
  <2>1. CASE alone' = alone /\ (Turns!Active(h)' => Turns!Active(h))
    BY <1>6, <1>8, <2>1, AloneStays
  <2>2. CASE Turns!Company(h) /\ h \in Approvals
    BY <1>6, <1>8, <2>2, AloneComes, TurnsAssumption DEF Turns!ChatTurnsAssumption
  <2> QED
    BY <2>1, <2>2
<1>9. AloneInv'
  BY <1>2, <1>7, <1>8 DEF TurnsInv, AloneInv, Turns!bridge
<1> QED
  BY <1>3, <1>4, <1>5, <1>9 DEF TurnsInv

\* How a step of a handler or an abort may cut a loop off: stopped, or made anew.
Cut(l) ==
    \/ /\ loop'[l].queue = loop[l].queue /\ loop'[l].turn = loop[l].turn /\ loop'[l].stage = loop[l].stage
       /\ loop'[l].gen = loop[l].gen /\ loop'[l].state \in {loop[l].state, "dead"}
    \/ loop'[l].queue = <<>> /\ loop'[l].stage = "idle"

LEMMA NobodyWaits == Turns!ToSet(<<>>) = {}
BY DEF Turns!ToSet

LEMMA CutTells ==
    ASSUME \A l \in Turns!Loops : Cut(l)
    PROVE  /\ \A h \in Turns!Handlers, l \in Turns!Loops : (AtWork(h, l)' => AtWork(h, l)) /\ (Queued(h, l)' => Queued(h, l))
           /\ \A h \in Turns!Handlers, l \in Turns!Loops : (loop[l].state # "dead" /\ Queued(h, l))' => loop[l].state # "dead" /\ Queued(h, l)
BY NobodyWaits DEF Cut, AtWork, Queued

\* A handler gets channels of its own.
LEMMA GetsChannels ==
    ASSUME TurnsInv, NEW h \in Turns!Handlers, Unsent(h), Turns!NewChannels,
           hand' \in [Turns!Handlers -> HandRows], \A k \in Turns!Handlers : k # h => hand'[k] = hand[k],
           hand'[h].pc \in {"push", "begin"}, hand'[h].gen = gen', hand'[h].loop \in Turns!Loops,
           closes' = closes \/ Turns!Supersede, UNCHANGED <<ready, done, crossed, pending>>,
           cur' \in 0..MaxLoops, loopsMade' \in 0..MaxLoops,
           loop' \in [Turns!Loops -> LoopRows], \A l \in Turns!Loops : Cut(l),
           (alone' = alone /\ Turns!Active(h)) \/ Turns!Company(h)
    PROVE  TurnsInv'
<1>0. gen \in Nat /\ gen' = gen + 1 /\ gen' \in Turns!Gens /\ gen' \in 0..Turns!MaxGen /\ gen < gen' /\ Turns!Gens = 1..Turns!MaxGen /\ Turns!MaxGen \in Nat
  BY GensAre DEF Turns!NewChannels, TurnsInv, TurnTypes
<1>1. /\ closes' \in [Turns!Gens -> Nat]
      /\ \A g \in Turns!Gens : closes'[g] <= 1 /\ (g >= gen' => closes'[g] = 0)
  <2>1. closes \in [Turns!Gens -> Nat] /\ \A g \in Turns!Gens : (g >= gen => closes[g] = 0) /\ closes[g] <= 1
    BY DEF TurnsInv, TurnTypes, ChannelsInv
  <2>2. CASE closes' = closes
    BY <1>0, <2>1, <2>2
  <2>3. CASE gen # 0 /\ closes' = [closes EXCEPT ![gen] = @ + 1]
    <3>1. gen \in Turns!Gens /\ closes[gen] = 0
      BY <1>0, <2>1, <2>3
    <3> QED
      BY <1>0, <2>1, <2>3, <3>1
  <2> QED
    BY <2>2, <2>3 DEF Turns!Supersede
<1>2. TurnTypes'
  BY <1>0, <1>1 DEF TurnsInv, TurnTypes, Turns!Company
<1>3. \A l \in Turns!Loops : /\ loop'[l].stage # "idle" => loop'[l].stage = loop[l].stage /\ loop'[l].turn = loop[l].turn /\ loop'[l].gen = loop[l].gen
  BY DEF Cut
<1>4. ready'[gen'] = Turns!None /\ done'[gen'] = Turns!Empty
  BY <1>0 DEF TurnsInv, ChannelsInv
<1>5. ChannelsInv'
  <2>1. ~(gen' = 0)
    BY <1>0
  <2>2. ASSUME NEW k \in Turns!Handlers, Tuned(k)' PROVE hand'[k].gen \in 1..gen' /\ hand'[k].loop \in Turns!Loops /\ done'[hand'[k].gen] = Turns!Empty
    <3>1. CASE k = h
      BY <1>0, <1>4, <3>1
    <3>2. CASE k # h
      <4>1. Tuned(k) /\ hand'[k] = hand[k]
        BY <2>2, <3>2 DEF Tuned
      <4> QED
        BY <1>0, <4>1 DEF TurnsInv, ChannelsInv
    <3> QED
      BY <3>1, <3>2
  <2>3. ASSUME NEW k \in Turns!Handlers, NEW m \in Turns!Handlers, Tuned(k)', Tuned(m)', hand'[k].gen = hand'[m].gen PROVE k = m
    <3>1. ASSUME NEW i \in Turns!Handlers, i # h, Tuned(i)' PROVE hand'[i] = hand[i] /\ Tuned(i) /\ hand[i].gen \in 1..gen
      BY <3>1 DEF Tuned, TurnsInv, ChannelsInv
    <3>2. CASE k # h /\ m # h
      BY <2>3, <3>1, <3>2 DEF TurnsInv, ChannelsInv
    <3>3. CASE (k = h) # (m = h)
      BY <1>0, <2>3, <3>1, <3>3
    <3> QED
      BY <3>2, <3>3
  <2>4. ASSUME NEW g \in Turns!Gens, g > gen' PROVE ready'[g] = Turns!None /\ done'[g] = Turns!Empty
    BY <1>0, <2>4 DEF TurnsInv, ChannelsInv
  <2>5. ASSUME NEW l \in Turns!Loops
        PROVE  (loop'[l].stage # "idle" => loop'[l].turn \in Turns!Handlers) /\ (loop'[l].stage \in {"offer", "wait"} => loop'[l].gen \in 1..gen')
    BY <1>0, <1>3 DEF TurnsInv, ChannelsInv
  <2>6. ASSUME NEW k \in Turns!Handlers, hand'[k].pc \in {"stream", "stalled"} PROVE hand'[k].of \in Turns!Handlers
    BY <2>6 DEF TurnsInv, ChannelsInv
  <2> QED
    BY <1>1, <2>1, <2>2, <2>3, <2>4, <2>5, <2>6 DEF ChannelsInv
<1>6. UnsentInv'
  BY CutTells DEF TurnsInv, UnsentInv, Unsent
<1>7. Turns!Engaged' \subseteq Turns!Engaged \cup {h} /\ (Turns!Active(h) => Turns!Engaged' \subseteq Turns!Engaged)
  BY CutTells, WhoIsEngaged DEF Turns!Engaged, Turns!Active, AtWork, Queued
<1>8. ASSUME NEW c \in alone' PROVE c \notin crossed'
  <2>1. CASE c \in alone
    BY <2>1 DEF TurnsInv, AloneInv
  <2>2. CASE c \notin alone
    <3>1. c = h /\ Turns!Company(h) /\ Turns!Engaged = {}
      BY <1>8, <2>2 DEF Turns!Company
    <3>2. hand[h].pc = "start"
      BY <3>1, WhoIsEngaged DEF Turns!Active, Unsent
    <3> QED
      BY <3>1, <3>2 DEF TurnsInv, UnsentInv
  <2> QED
    BY <2>1, <2>2
<1>9. ASSUME NEW c \in alone', c \in Turns!Engaged'
      PROVE  c = h /\ Turns!Engaged' = {c} /\ Turns!Engaged \subseteq {c}
  <2>1. CASE alone' = alone /\ Turns!Active(h)
    BY <1>7, <1>9, <2>1, AloneStays, WhoIsEngaged
  <2>2. CASE Turns!Company(h)
    BY <1>7, <1>9, <2>2, AloneComes
  <2> QED
    BY <2>1, <2>2
<1>10. ASSUME NEW c \in alone', c \in Turns!Engaged', NEW l \in Turns!Loops
       PROVE  loop'[l].stage \notin {"offer", "wait"}
  <2>1. loop[l].stage # "idle" => loop[l].turn \in Turns!Engaged
    BY WhoIsEngaged DEF TurnsInv, ChannelsInv, AtWork
  <2>2. ~AtWork(h, l)
    BY DEF TurnsInv, UnsentInv
  <2> QED
    BY <1>3, <1>9, <1>10, <2>1, <2>2 DEF AtWork
<1>11. AloneInv'
  BY <1>0, <1>4, <1>8, <1>9, <1>10 DEF AloneInv
<1> QED
  BY <1>2, <1>5, <1>6, <1>11 DEF TurnsInv

LEMMA RefuseInv == ASSUME TurnsInv, NEW c \in Chats, Turns!Refuse(c) PROVE TurnsInv'
<1>1. c \in Turns!Handlers /\ hand[c].pc = "start" /\ hand' = [hand EXCEPT ![c].pc = "over"]
  BY GensAre DEF Turns!Refuse
<1>2. hand'[c].pc = "over"
  BY <1>1, PcGoes DEF HandPCs, TurnsInv
<1>3. ~Tuned(c)' /\ ~Unsent(c)' /\ ~Turns!Active(c)' /\ pending' \in BOOLEAN
  BY <1>2 DEF Tuned, Unsent, Turns!Active, Turns!Refuse, Turns!talk, TurnsInv, TurnTypes
<1> QED
  BY <1>1, <1>3, GoesOnAlone DEF Turns!Refuse

LEMMA LeaveInv == ASSUME TurnsInv, NEW h \in Turns!Handlers, Turns!Bail(h) \/ Turns!GiveUp(h) PROVE TurnsInv'
<1>1. hand[h].pc = "wait" /\ hand' = [hand EXCEPT ![h].pc = "over"]
  BY DEF Turns!Bail, Turns!GiveUp
<1>2. hand'[h].pc = "over"
  BY <1>1, PcGoes DEF HandPCs, TurnsInv
<1>3. ~Tuned(h)' /\ ~Unsent(h)' /\ ~Turns!Active(h)' /\ pending' \in BOOLEAN
  BY <1>2 DEF Tuned, Unsent, Turns!Active, Turns!Bail, Turns!GiveUp, Turns!talk, TurnsInv, TurnTypes
<1> QED
  BY <1>1, <1>3, GoesOnAlone DEF Turns!Bail, Turns!GiveUp

LEMMA StallInv == ASSUME TurnsInv, NEW h \in Turns!Handlers, Turns!Stall(h) PROVE TurnsInv'
<1>1. hand[h].pc = "stream" /\ hand' = [hand EXCEPT ![h].pc = "stalled"]
  BY DEF Turns!Stall
<1>2. hand'[h].pc = "stalled"
  BY <1>1, PcGoes DEF HandPCs, TurnsInv
<1>3. (Tuned(h)' => Tuned(h)) /\ ~Unsent(h)' /\ (Turns!Active(h)' => Turns!Active(h)) /\ pending' \in BOOLEAN
  BY <1>1, <1>2 DEF Tuned, Unsent, Turns!Active, Turns!Stall, Turns!talk, TurnsInv, TurnTypes
<1> QED
  BY <1>1, <1>3, GoesOnAlone DEF Turns!Stall

LEMMA ApproveInv == ASSUME TurnsInv, NEW p \in Approvals, Turns!Approve(p) \/ Turns!ClearPending(p) PROVE TurnsInv'
<1>1. PICK at \in {"clear", "over", "resume"} :
        /\ p \in Turns!Handlers /\ hand[p].pc \in {"start", "clear"} /\ hand' = [hand EXCEPT ![p].pc = at]
  BY GensAre DEF Turns!Approve, Turns!ClearPending
<1>2. hand'[p].pc = at
  BY <1>1, PcGoes DEF HandPCs, TurnsInv
<1>3. ~Tuned(p)' /\ Unsent(p) /\ pending' \in BOOLEAN
  BY <1>1, <1>2 DEF Tuned, Unsent, Turns!Approve, Turns!ClearPending, Turns!talk, TurnsInv, TurnTypes
<1>4. (alone' = alone /\ Turns!Active(p)) \/ Turns!Company(p)
  BY DEF Turns!Approve, Turns!ClearPending, Turns!Active
<1> QED
  BY <1>1, <1>3, <1>4, GoesOnAlone DEF Turns!Approve, Turns!ClearPending

LEMMA NewLoopIs == Turns!NewLoop \in LoopRows /\ Turns!NoLoop \in LoopRows /\ Turns!NewLoop.queue = <<>> /\ Turns!NewLoop.stage = "idle" /\ Turns!NoLoop.queue = <<>> /\ Turns!NoLoop.stage = "idle"
<1>1. <<>> \in Seq(Turns!Handlers) /\ 0 \in 0..Turns!MaxGen
  BY GensAre
<1> QED
  BY <1>1 DEF Turns!NewLoop, Turns!NoLoop, LoopRows, Stages

LEMMA PreemptInv == ASSUME TurnsInv, NEW c \in Chats, Turns!Preempt(c) PROVE TurnsInv'
<1>1. /\ c \in Turns!Handlers /\ hand[c].pc = "start" /\ cur # 0 /\ Turns!Supersede /\ Turns!NewChannels /\ Turns!Company(c)
      /\ UNCHANGED <<cur, loopsMade, loop, ready, done, Turns!talk, aborts, crossed>>
  BY GensAre DEF Turns!Preempt
<1>2. hand' = [hand EXCEPT ![c] = [hand[c] EXCEPT !.pc = "push", !.gen = gen', !.loop = cur]]
  BY DEF Turns!Preempt
<1>3. gen' \in 0..Turns!MaxGen /\ cur \in Turns!Loops
  BY <1>1, GensAre DEF Turns!NewChannels, TurnsInv, TurnTypes
<1>4. /\ hand' \in [Turns!Handlers -> HandRows] /\ \A k \in Turns!Handlers : k # c => hand'[k] = hand[k]
      /\ hand'[c].pc = "push" /\ hand'[c].gen = gen' /\ hand'[c].loop = cur
  BY <1>1, <1>2, <1>3 DEF TurnsInv, TurnTypes, HandRows, HandPCs
<1>5. Unsent(c) /\ \A l \in Turns!Loops : Cut(l)
  BY <1>1 DEF Unsent, Cut
<1> QED
  BY <1>1, <1>3, <1>4, <1>5, GetsChannels DEF TurnsInv, TurnTypes, Turns!talk

LEMMA LaunchGoes ==
    ASSUME TurnsInv, NEW h \in Turns!Handlers, Turns!Launch(h, "begin")
    PROVE  /\ Turns!NewChannels /\ loopsMade' \in Turns!Loops /\ cur' = loopsMade'
           /\ hand' \in [Turns!Handlers -> HandRows] /\ \A k \in Turns!Handlers : k # h => hand'[k] = hand[k]
           /\ hand'[h].pc = "begin" /\ hand'[h].gen = gen' /\ hand'[h].loop = loopsMade'
<1>1. Turns!NewChannels /\ loopsMade < MaxLoops /\ loopsMade' = loopsMade + 1 /\ cur' = loopsMade'
  BY DEF Turns!Launch
<1>2. hand' = [hand EXCEPT ![h] = [hand[h] EXCEPT !.pc = "begin", !.gen = gen', !.loop = loopsMade']]
  BY DEF Turns!Launch
<1>3. gen' \in 0..Turns!MaxGen /\ loopsMade' \in Turns!Loops /\ loopsMade' \in 0..MaxLoops
  BY <1>1, GensAre DEF Turns!NewChannels, TurnsInv, TurnTypes
<1>4. /\ hand' \in [Turns!Handlers -> HandRows] /\ \A k \in Turns!Handlers : k # h => hand'[k] = hand[k]
      /\ hand'[h].pc = "begin" /\ hand'[h].gen = gen' /\ hand'[h].loop = loopsMade'
  BY <1>2, <1>3 DEF TurnsInv, TurnTypes, HandRows, HandPCs
<1> QED
  BY <1>1, <1>3, <1>4

LEMMA OpenInv == ASSUME TurnsInv, NEW h \in Chats, Turns!Open(h) \/ Turns!Replace(h) PROVE TurnsInv'
<1>1. h \in Turns!Handlers /\ Turns!Launch(h, "begin") /\ Unsent(h)
  BY GensAre DEF Turns!Open, Turns!Replace, Unsent
<1>2. /\ Turns!NewChannels /\ loopsMade' \in Turns!Loops /\ cur' = loopsMade'
      /\ hand' \in [Turns!Handlers -> HandRows] /\ \A k \in Turns!Handlers : k # h => hand'[k] = hand[k]
      /\ hand'[h].pc = "begin" /\ hand'[h].gen = gen' /\ hand'[h].loop = loopsMade'
  BY <1>1, LaunchGoes
<1>3. loop' \in [Turns!Loops -> LoopRows] /\ \A l \in Turns!Loops : loop'[l] = loop[l] \/ loop'[l] = Turns!NewLoop
  BY <1>2, NewLoopIs DEF Turns!Open, Turns!Replace, TurnsInv, TurnTypes
<1>4. \A l \in Turns!Loops : Cut(l)
  BY <1>3, NewLoopIs DEF Cut
<1>5. UNCHANGED <<closes, ready, done, crossed, pending>> /\ ((alone' = alone /\ Turns!Active(h)) \/ Turns!Company(h))
  BY DEF Turns!Open, Turns!Replace, Turns!Active, Turns!talk
<1>6. cur' \in 0..MaxLoops /\ loopsMade' \in 0..MaxLoops
  BY <1>2, GensAre
<1> QED
  BY <1>1, <1>2, <1>3, <1>4, <1>5, <1>6, GetsChannels

LEMMA StoppedIs ==
    ASSUME TurnTypes, NEW l \in Turns!Loops
    PROVE  /\ Turns!Stopped(l) \in [Turns!Loops -> LoopRows] /\ \A m \in Turns!Loops : m # l => Turns!Stopped(l)[m] = loop[m]
           /\ Turns!Stopped(l)[l].queue = loop[l].queue /\ Turns!Stopped(l)[l].turn = loop[l].turn /\ Turns!Stopped(l)[l].stage = loop[l].stage
           /\ Turns!Stopped(l)[l].gen = loop[l].gen /\ Turns!Stopped(l)[l].state = "dead"
BY ZenonT(60) DEF Turns!Stopped, TurnTypes, LoopRows

LEMMA ResumeInv == ASSUME TurnsInv, NEW p \in Approvals, Turns!Resume(p) PROVE TurnsInv'
<1>1. p \in Turns!Handlers /\ Turns!Launch(p, "begin") /\ Unsent(p) /\ Turns!Active(p)
  BY GensAre DEF Turns!Resume, Unsent, Turns!Active
<1>2. /\ Turns!NewChannels /\ loopsMade' \in Turns!Loops /\ cur' = loopsMade'
      /\ hand' \in [Turns!Handlers -> HandRows] /\ \A k \in Turns!Handlers : k # p => hand'[k] = hand[k]
      /\ hand'[p].pc = "begin" /\ hand'[p].gen = gen' /\ hand'[p].loop = loopsMade'
  BY <1>1, LaunchGoes
<1>3. PICK base : base = (IF cur = 0 THEN loop ELSE Turns!Stopped(cur))
  OBVIOUS
<1>4. /\ base \in [Turns!Loops -> LoopRows]
      /\ \A l \in Turns!Loops : /\ base[l].queue = loop[l].queue /\ base[l].turn = loop[l].turn /\ base[l].stage = loop[l].stage
                                /\ base[l].gen = loop[l].gen /\ base[l].state \in {loop[l].state, "dead"}
  <2>1. CASE cur = 0
    BY <1>3, <2>1 DEF TurnsInv, TurnTypes
  <2>2. CASE cur # 0
    <3>1. cur \in Turns!Loops
      BY <2>2, GensAre DEF TurnsInv, TurnTypes
    <3> QED
      BY <1>3, <2>2, <3>1, StoppedIs DEF TurnsInv
  <2> QED
    BY <2>1, <2>2
<1>5. loop' = [base EXCEPT ![loopsMade'] = Turns!NewLoop]
  BY <1>3 DEF Turns!Resume
<1>6. loop' \in [Turns!Loops -> LoopRows] /\ \A l \in Turns!Loops : loop'[l] = base[l] \/ loop'[l] = Turns!NewLoop
  BY <1>2, <1>4, <1>5, NewLoopIs
<1>7. \A l \in Turns!Loops : Cut(l)
  BY <1>4, <1>6, NewLoopIs DEF Cut
<1>8. Turns!Supersede /\ UNCHANGED <<ready, done, crossed, pending>> /\ alone' = alone
  BY DEF Turns!Resume, Turns!talk
<1>9. cur' \in 0..MaxLoops /\ loopsMade' \in 0..MaxLoops
  BY <1>2, GensAre
<1> QED
  BY <1>1, <1>2, <1>6, <1>7, <1>8, <1>9, GetsChannels

LEMMA AbortInv == ASSUME TurnsInv, Turns!Abort PROVE TurnsInv'
<1>1. cur \in Turns!Loops /\ loop' = Turns!Stopped(cur) /\ UNCHANGED <<loopsMade, Turns!bridge, hand, Turns!talk, alone, crossed>> /\ cur' = 0
  BY GensAre DEF Turns!Abort, TurnsInv, TurnTypes
<1>2. /\ loop' \in [Turns!Loops -> LoopRows] /\ \A m \in Turns!Loops : m # cur => loop'[m] = loop[m]
      /\ loop'[cur].queue = loop[cur].queue /\ loop'[cur].turn = loop[cur].turn /\ loop'[cur].stage = loop[cur].stage
      /\ loop'[cur].gen = loop[cur].gen /\ loop'[cur].state = "dead"
  BY <1>1, StoppedIs DEF TurnsInv
<1>3. \A l \in Turns!Loops : /\ loop'[l].queue = loop[l].queue /\ loop'[l].turn = loop[l].turn /\ loop'[l].stage = loop[l].stage
                             /\ loop'[l].gen = loop[l].gen /\ loop'[l].state \in {loop[l].state, "dead"}
  BY <1>2
<1>4. TurnTypes'
  BY <1>1, <1>2, GensAre DEF TurnsInv, TurnTypes, Turns!bridge, Turns!talk
<1>5. ChannelsInv'
  BY <1>1, <1>3 DEF TurnsInv, ChannelsInv, Turns!bridge, Tuned
<1>6. UnsentInv'
  BY <1>1, <1>3 DEF TurnsInv, UnsentInv, Unsent, Queued, AtWork
<1>7. Turns!Engaged' \subseteq Turns!Engaged
  BY <1>1, <1>3 DEF Turns!Engaged, Turns!Active
<1>8. AloneInv'
  BY <1>1, <1>3, <1>7, AloneStays DEF TurnsInv, AloneInv, Turns!bridge
<1> QED
  BY <1>4, <1>5, <1>6, <1>8 DEF TurnsInv

\* A message reaches the queue of a loop, or that of none that still serves.
LEMMA QueuedInv ==
    ASSUME TurnsInv, NEW h \in Turns!Handlers, NEW l \in Turns!Loops, hand[h].pc \in {"push", "begin"}, hand' = [hand EXCEPT ![h].pc = "wait"],
           loop' \in [Turns!Loops -> LoopRows], \A m \in Turns!Loops : m # l => loop'[m] = loop[m],
           loop'[l].queue = Append(loop[l].queue, h),
           loop'[l].turn = loop[l].turn, loop'[l].stage = loop[l].stage, loop'[l].gen = loop[l].gen,
           loop'[l].state = "dead" <=> loop[l].state = "dead",
           UNCHANGED <<cur, loopsMade, Turns!bridge, Turns!talk, alone, crossed>>
    PROVE  TurnsInv'
<1>1. /\ hand' \in [Turns!Handlers -> HandRows] /\ \A k \in Turns!Handlers : k # h => hand'[k] = hand[k]
      /\ hand'[h].pc = "wait" /\ hand'[h].gen = hand[h].gen /\ hand'[h].loop = hand[h].loop /\ hand'[h].of = hand[h].of
  BY PcGoes DEF HandPCs, TurnsInv
<1>2. Turns!ToSet(loop'[l].queue) = Turns!ToSet(loop[l].queue) \cup {h}
  BY AppendAdds DEF TurnsInv, TurnTypes, LoopRows
<1>3. \A k \in Turns!Handlers, m \in Turns!Loops : /\ AtWork(k, m)' <=> AtWork(k, m)
                                                   /\ Queued(k, m)' => Queued(k, m) \/ k = h
                                                   /\ loop'[m].stage = loop[m].stage /\ loop'[m].gen = loop[m].gen /\ loop'[m].turn = loop[m].turn
                                                   /\ (loop'[m].state = "dead" <=> loop[m].state = "dead")
  BY <1>2 DEF AtWork, Queued
<1>4. TurnTypes'
  BY <1>1 DEF TurnsInv, TurnTypes, Turns!bridge, Turns!talk
<1>5. ChannelsInv'
  <2>1. \A k \in Turns!Handlers : (Tuned(k)' <=> Tuned(k)) /\ hand'[k].gen = hand[k].gen /\ hand'[k].loop = hand[k].loop
    BY <1>1 DEF Tuned
  <2>2. gen # 0
    BY GensAre DEF TurnsInv, TurnTypes, ChannelsInv, Tuned
  <2>3. \A m \in Turns!Loops : loop'[m].stage = loop[m].stage /\ loop'[m].gen = loop[m].gen /\ loop'[m].turn = loop[m].turn
    OBVIOUS
  <2>4. \A k \in Turns!Handlers : hand'[k].pc \in {"stream", "stalled"} => hand[k].pc \in {"stream", "stalled"} /\ hand'[k].of = hand[k].of
    BY <1>1
  <2> QED
    BY <2>1, <2>2, <2>3, <2>4 DEF TurnsInv, ChannelsInv, Turns!bridge
<1>6. UnsentInv'
  <2>1. \A k \in Turns!Handlers : Unsent(k)' => Unsent(k) /\ k # h
    BY <1>1 DEF Unsent
  <2>2. \A k \in Turns!Handlers : hand'[k].pc = "start" => hand[k].pc = "start"
    BY <1>1
  <2> QED
    BY <1>3, <2>1, <2>2 DEF TurnsInv, UnsentInv
<1>7. Turns!Engaged' \subseteq Turns!Engaged
  <2>1. h \in Turns!Engaged
    BY WhoIsEngaged DEF Turns!Active
  <2>2. \A k \in Turns!Handlers : Turns!Active(k)' => Turns!Active(k)
    BY <1>1 DEF Turns!Active
  <2> QED
    BY <1>3, <2>1, <2>2, WhoIsEngaged, EngagedStays
<1>8. AloneInv'
  BY <1>1, <1>3, <1>7, AloneStays DEF TurnsInv, AloneInv, Turns!bridge
<1> QED
  BY <1>4, <1>5, <1>6, <1>8 DEF TurnsInv

LEMMA PushInv == ASSUME TurnsInv, NEW c \in Chats, Turns!Push(c) PROVE TurnsInv'
<1>0. c \in Turns!Handlers /\ hand[c].pc = "push" /\ UNCHANGED <<cur, loopsMade, Turns!bridge, Turns!talk, aborts, alone, crossed>>
  BY GensAre DEF Turns!Push
<1>1. PICK l \in Turns!Loops : l = hand[c].loop
  BY <1>0 DEF TurnsInv, ChannelsInv, Tuned
<1>2. CASE loop[l].state = "dead"
  <2>1. loop' = loop /\ hand' = [hand EXCEPT ![c].pc = "dead"]
    BY <1>1, <1>2 DEF Turns!Push
  <2>2. hand'[c].pc = "dead"
    BY <1>0, <2>1, PcGoes DEF HandPCs, TurnsInv
  <2>3. (Tuned(c)' => Tuned(c)) /\ (Unsent(c)' => Unsent(c)) /\ (Turns!Active(c)' => Turns!Active(c)) /\ pending' \in BOOLEAN
    BY <1>0 DEF Tuned, Unsent, Turns!Active, Turns!talk, TurnsInv, TurnTypes
  <2> QED
    BY <1>0, <2>1, <2>3, GoesOnAlone
<1>3. CASE loop[l].state # "dead"
  <2>1. PICK cancelled : cancelled = (loop[l].cancelled \/ loop[l].stage # "idle")
    OBVIOUS
  <2>2. cancelled \in BOOLEAN
    BY <2>1
  <2>3. PICK queue : queue = Append(loop[l].queue, c)
    OBVIOUS
  <2>4. queue \in Seq(Turns!Handlers)
    BY <1>0, <2>3, AppendAdds DEF TurnsInv, TurnTypes, LoopRows
  <2>5. loop' = [loop EXCEPT ![l].queue = queue, ![l].cancelled = cancelled] /\ hand' = [hand EXCEPT ![c].pc = "wait"]
    BY <1>1, <1>3, <2>1, <2>3 DEF Turns!Push
  <2>6. /\ loop' \in [Turns!Loops -> LoopRows] /\ \A m \in Turns!Loops : m # l => loop'[m] = loop[m]
        /\ loop'[l].queue = queue /\ loop'[l].turn = loop[l].turn /\ loop'[l].stage = loop[l].stage /\ loop'[l].gen = loop[l].gen
        /\ loop'[l].state = loop[l].state
    <3>1. PICK row : row = [loop[l] EXCEPT !.queue = queue, !.cancelled = cancelled]
      OBVIOUS
    <3>2. loop' = [loop EXCEPT ![l] = row]
      BY <2>5, <3>1
    <3>3. /\ row \in LoopRows /\ row.queue = queue /\ row.turn = loop[l].turn /\ row.stage = loop[l].stage /\ row.gen = loop[l].gen
          /\ row.state = loop[l].state
      BY <2>2, <2>4, <3>1 DEF TurnsInv, TurnTypes, LoopRows
    <3> QED
      BY <3>2, <3>3 DEF TurnsInv, TurnTypes
  <2> QED
    BY <1>0, <2>3, <2>5, <2>6, QueuedInv
<1> QED
  BY <1>2, <1>3

LEMMA BeginInv == ASSUME TurnsInv, NEW h \in Turns!Handlers, Turns!Begin(h) PROVE TurnsInv'
<1>0. /\ hand[h].pc = "begin" /\ hand' = [hand EXCEPT ![h].pc = "wait"]
      /\ UNCHANGED <<cur, loopsMade, Turns!bridge, Turns!talk, aborts, alone, crossed>>
  BY DEF Turns!Begin
<1>1. PICK l \in Turns!Loops : l = hand[h].loop
  BY <1>0 DEF TurnsInv, ChannelsInv, Tuned
<1>2. PICK queue : queue = Append(loop[l].queue, h)
  OBVIOUS
<1>3. queue \in Seq(Turns!Handlers)
  BY <1>2, AppendAdds DEF TurnsInv, TurnTypes, LoopRows
<1>4. loop' = [loop EXCEPT ![l].queue = queue, ![l].state = IF loop[l].state = "made" THEN "live" ELSE loop[l].state]
  BY <1>1, <1>2 DEF Turns!Begin
<1>5. /\ loop' \in [Turns!Loops -> LoopRows] /\ \A m \in Turns!Loops : m # l => loop'[m] = loop[m]
      /\ loop'[l].queue = queue /\ loop'[l].turn = loop[l].turn /\ loop'[l].stage = loop[l].stage /\ loop'[l].gen = loop[l].gen
      /\ (loop'[l].state = "dead" <=> loop[l].state = "dead")
  BY ZenonT(60), <1>3, <1>4 DEF TurnsInv, TurnTypes, LoopRows
<1> QED
  BY <1>0, <1>2, <1>5, QueuedInv

LEMMA TakeEventsInv == ASSUME TurnsInv, NEW h \in Turns!Handlers, Turns!TakeEvents(h) PROVE TurnsInv'
<1>0. /\ hand[h].pc = "wait" /\ ready[hand[h].gen] # Turns!None
      /\ UNCHANGED <<cur, gen, loopsMade, loop, done, closes, Turns!talk, aborts, alone, crossed>>
  BY DEF Turns!TakeEvents
<1>1. PICK g \in Turns!Gens : g = hand[h].gen /\ g \in 1..gen /\ Tuned(h)
  BY <1>0, GensAre DEF TurnsInv, TurnTypes, ChannelsInv, Tuned
<1>2. PICK of \in Turns!Handlers : of = ready[g]
  BY <1>0, <1>1 DEF TurnsInv, TurnTypes
<1>3. hand' = [hand EXCEPT ![h].pc = "stream", ![h].of = of] /\ ready' = [ready EXCEPT ![g] = Turns!None]
  BY <1>1, <1>2 DEF Turns!TakeEvents
<1>4. /\ hand' \in [Turns!Handlers -> HandRows] /\ \A k \in Turns!Handlers : k # h => hand'[k] = hand[k]
      /\ hand'[h].pc = "stream" /\ hand'[h].gen = hand[h].gen /\ hand'[h].loop = hand[h].loop /\ hand'[h].of = of
  BY <1>2, <1>3 DEF TurnsInv, TurnTypes, HandRows, HandPCs
<1>5. ready' \in [Turns!Gens -> Turns!Handlers \cup {Turns!None}] /\ ready'[g] = Turns!None /\ \A k \in Turns!Gens : k # g => ready'[k] = ready[k]
  BY <1>3 DEF TurnsInv, TurnTypes
<1>6. TurnTypes'
  BY <1>0, <1>4, <1>5 DEF TurnsInv, TurnTypes, Turns!talk
<1>7. ChannelsInv'
  <2>1. \A k \in Turns!Handlers : (Tuned(k)' <=> Tuned(k)) /\ hand'[k].gen = hand[k].gen /\ hand'[k].loop = hand[k].loop
    BY <1>0, <1>4 DEF Tuned
  <2>2. \A k \in Turns!Handlers : hand'[k].pc \in {"stream", "stalled"} => hand'[k].of \in Turns!Handlers
    BY <1>4 DEF TurnsInv, ChannelsInv
  <2> QED
    BY <1>0, <1>5, <2>1, <2>2 DEF TurnsInv, ChannelsInv
<1>8. UnsentInv'
  BY <1>0, <1>4 DEF TurnsInv, UnsentInv, Unsent, Queued, AtWork
<1>9. Turns!Engaged' = Turns!Engaged /\ h \in Turns!Engaged
  BY <1>0, <1>4, WhoIsEngaged DEF Turns!Engaged, Turns!Active
<1>10. ASSUME NEW c \in alone', c \in Turns!Engaged'
       PROVE  /\ Turns!Engaged' = {c} /\ hand'[c].gen = gen /\ ready'[gen] \in {Turns!None, c}
              /\ (hand'[c].pc \in {"stream", "stalled"} => hand'[c].of = c)
  <2>1. c = h /\ Turns!Engaged' = {c} /\ hand[c].gen = gen /\ ready[gen] \in {Turns!None, c}
    BY <1>0, <1>9, <1>10 DEF TurnsInv, AloneInv
  <2> QED
    BY <1>0, <1>1, <1>2, <1>4, <1>5, <2>1
<1>11. AloneInv'
  BY <1>0, <1>9, <1>10 DEF TurnsInv, AloneInv
<1> QED
  BY <1>6, <1>7, <1>8, <1>11 DEF TurnsInv

LEMMA ReportInv == ASSUME TurnsInv, NEW h \in Turns!Handlers, Turns!Report(h) PROVE TurnsInv'
<1>0. /\ hand[h].pc \in {"stream", "stalled"} /\ hand' = [hand EXCEPT ![h].pc = "over"]
      /\ UNCHANGED <<cur, gen, loopsMade, loop, ready, closes, Turns!talk, aborts, alone, crossed>>
  BY DEF Turns!Report, Turns!Streams
<1>1. PICK g \in Turns!Gens : g = hand[h].gen /\ g \in 1..gen /\ Tuned(h)
  BY <1>0, GensAre DEF TurnsInv, TurnTypes, ChannelsInv, Tuned
<1>2. PICK how \in {"answer", "interrupt", "error"} : done' = [done EXCEPT ![g] = [of |-> hand[h].of, how |-> how]]
  BY <1>1 DEF Turns!Report
<1>3. /\ hand' \in [Turns!Handlers -> HandRows] /\ \A k \in Turns!Handlers : k # h => hand'[k] = hand[k]
      /\ hand'[h].pc = "over" /\ hand'[h].gen = hand[h].gen /\ hand'[h].loop = hand[h].loop /\ hand'[h].of = hand[h].of
  BY <1>0, PcGoes DEF HandPCs, TurnsInv
<1>4. /\ hand[h].of \in Turns!Handlers => done' \in [Turns!Gens -> Turns!Results \cup {Turns!Empty}]
      /\ done'[g].of = hand[h].of /\ \A k \in Turns!Gens : k # g => done'[k] = done[k]
  BY <1>2 DEF TurnsInv, TurnTypes, Turns!Results
<1>5. hand[h].of \in Turns!Handlers
  BY <1>0 DEF TurnsInv, ChannelsInv
<1>6. TurnTypes'
  BY <1>0, <1>3, <1>4, <1>5 DEF TurnsInv, TurnTypes, Turns!talk
<1>7. ChannelsInv'
  <2>1. \A k \in Turns!Handlers : (Tuned(k)' => Tuned(k) /\ k # h) /\ hand'[k].gen = hand[k].gen /\ hand'[k].loop = hand[k].loop
    BY <1>3 DEF Tuned
  <2>2. \A k \in Turns!Handlers : Tuned(k)' => hand[k].gen # g /\ hand[k].gen \in 1..gen
    BY <1>1, <2>1 DEF TurnsInv, ChannelsInv
  <2>3. 1..gen \subseteq Turns!Gens /\ gen \in Nat
    BY GensAre DEF TurnsInv, TurnTypes
  <2>4. \A k \in Turns!Handlers : Tuned(k)' => done'[hand'[k].gen] = Turns!Empty
    BY <1>4, <2>1, <2>2, <2>3 DEF TurnsInv, ChannelsInv
  <2>5. \A k \in Turns!Gens : k > gen => done'[k] = Turns!Empty
    BY <1>1, <1>4, <2>3 DEF TurnsInv, ChannelsInv
  <2>6. \A k \in Turns!Handlers : hand'[k].pc \in {"stream", "stalled"} => hand'[k].of \in Turns!Handlers
    BY <1>3 DEF TurnsInv, ChannelsInv
  <2> QED
    BY <1>0, <2>1, <2>4, <2>5, <2>6 DEF TurnsInv, ChannelsInv
<1>8. UnsentInv'
  BY <1>0, <1>3 DEF TurnsInv, UnsentInv, Unsent, Queued, AtWork
<1>9. Turns!Engaged' \subseteq Turns!Engaged /\ h \in Turns!Engaged
  BY <1>0, <1>3, WhoIsEngaged DEF Turns!Engaged, Turns!Active
<1>10. ASSUME NEW c \in alone', c \in Turns!Engaged'
       PROVE  Turns!Engaged' = {c} /\ hand'[c].gen = gen /\ done'[gen].of = c /\ hand'[c].pc \notin {"stream", "stalled"}
  <2>1. c = h /\ Turns!Engaged' = {c} /\ hand[c].gen = gen /\ hand[c].of = c
    BY <1>0, <1>9, <1>10, AloneStays DEF TurnsInv, AloneInv
  <2> QED
    BY <1>1, <1>3, <1>4, <2>1
<1>11. AloneInv'
  BY <1>0, <1>9, <1>10 DEF TurnsInv, AloneInv
<1> QED
  BY <1>6, <1>7, <1>8, <1>11 DEF TurnsInv

\* What a step of a loop may do to its row: nobody new is queued or at work.
Serves(l) ==
    /\ loop' \in [Turns!Loops -> LoopRows] /\ \A m \in Turns!Loops : m # l => loop'[m] = loop[m]
    /\ \A h \in Turns!Handlers : Queued(h, l)' => Queued(h, l)
    /\ \A h \in Turns!Handlers : AtWork(h, l)' => AtWork(h, l) \/ (Queued(h, l) /\ loop[l].state # "dead")
    /\ loop'[l].state = loop[l].state \/ loop'[l].state = "dead"
    /\ loop[l].queue = <<>> /\ loop[l].stage = "idle" => loop'[l].queue = <<>> /\ loop'[l].stage = "idle"
    /\ loop'[l].stage # "idle" => loop'[l].turn \in Turns!Handlers

LEMMA ServesTells ==
    ASSUME TurnsInv, NEW l \in Turns!Loops, Serves(l), hand' = hand
    PROVE  /\ Turns!Engaged' \subseteq Turns!Engaged
           /\ (\A h \in Turns!Handlers : h \in crossed' => h \in crossed \/ ~Unsent(h)) => UnsentInv'
           /\ gen = 0 => \A m \in Turns!Loops : loop'[m].stage = "idle" /\ loop'[m].queue = <<>>
           /\ \A m \in Turns!Loops : loop'[m].stage # "idle" => loop'[m].turn \in Turns!Handlers
<1>1. \A m \in Turns!Loops : m # l => \A h \in Turns!Handlers : (Queued(h, m)' <=> Queued(h, m)) /\ (AtWork(h, m)' <=> AtWork(h, m)) /\ loop'[m] = loop[m]
  BY DEF Serves, Queued, AtWork
<1>2. \A m \in Turns!Loops, h \in Turns!Handlers : (Queued(h, m)' => Queued(h, m)) /\ (AtWork(h, m)' => AtWork(h, m) \/ (Queued(h, m) /\ loop[m].state # "dead"))
                                                   /\ (loop'[m].state # "dead" => loop[m].state # "dead")
  BY <1>1 DEF Serves
<1>3. Turns!Engaged' \subseteq Turns!Engaged
  BY <1>2, WhoIsEngaged, EngagedStays DEF Turns!Active
<1>4. ASSUME \A h \in Turns!Handlers : h \in crossed' => h \in crossed \/ ~Unsent(h) PROVE UnsentInv'
  <2>1. \A h \in Turns!Handlers : Unsent(h)' => Unsent(h)
    BY DEF Unsent
  <2>2. \A h \in Turns!Handlers : hand'[h].pc = "start" => h \notin crossed'
    BY <1>4 DEF TurnsInv, UnsentInv, Unsent
  <2>3. \A h \in Turns!Handlers : Unsent(h)' => \A m \in Turns!Loops : ~Queued(h, m)' /\ ~AtWork(h, m)'
    BY <1>2, <2>1 DEF TurnsInv, UnsentInv
  <2> QED
    BY <2>2, <2>3 DEF UnsentInv
<1> QED
  BY <1>1, <1>3, <1>4 DEF Serves, TurnsInv, ChannelsInv

LEMMA GenInputInv == ASSUME TurnsInv, NEW l \in Turns!Loops, Turns!GenInput(l) PROVE TurnsInv'
<1>0. /\ loop[l].state = "live" /\ loop[l].stage = "idle" /\ loop[l].queue # <<>>
      /\ UNCHANGED <<cur, loopsMade, Turns!bridge, hand, pending, owed, aborts, alone, crossed>>
  BY DEF Turns!GenInput
<1>1. PICK i, rest : i = Head(loop[l].queue) /\ rest = Tail(loop[l].queue)
  OBVIOUS
<1>2. i \in Turns!Handlers /\ i \in Turns!ToSet(loop[l].queue) /\ rest \in Seq(Turns!Handlers) /\ Turns!ToSet(rest) \subseteq Turns!ToSet(loop[l].queue)
  BY <1>0, <1>1, HeadWaits DEF TurnsInv, TurnTypes, LoopRows
<1>3. PICK row : row = [loop[l] EXCEPT !.queue = rest, !.turn = i, !.stage = "run", !.cancelled = FALSE]
  OBVIOUS
<1>4. loop' = [loop EXCEPT ![l] = row]
  BY <1>1, <1>3 DEF Turns!GenInput
<1>5. row \in LoopRows /\ row.queue = rest /\ row.turn = i /\ row.stage = "run" /\ row.state = loop[l].state
  BY ZenonT(60), <1>2, <1>3 DEF TurnsInv, TurnTypes, LoopRows, Stages
<1>6. /\ loop' \in [Turns!Loops -> LoopRows] /\ \A m \in Turns!Loops : m # l => loop'[m] = loop[m]
      /\ loop'[l].queue = rest /\ loop'[l].turn = i /\ loop'[l].stage = "run" /\ loop'[l].state = loop[l].state
  BY <1>4, <1>5 DEF TurnsInv, TurnTypes
<1>7. Serves(l)
  BY <1>0, <1>2, <1>6 DEF Serves, Queued, AtWork
<1>8. /\ Turns!Engaged' \subseteq Turns!Engaged /\ UnsentInv'
      /\ gen = 0 => \A m \in Turns!Loops : loop'[m].stage = "idle" /\ loop'[m].queue = <<>>
      /\ \A m \in Turns!Loops : loop'[m].stage # "idle" => loop'[m].turn \in Turns!Handlers
  BY <1>0, <1>7, ServesTells
<1>9. TurnTypes'
  BY <1>0, <1>6 DEF TurnsInv, TurnTypes, Turns!bridge
<1>10. \A m \in Turns!Loops : loop'[m].stage \in {"offer", "wait"} => loop[m].stage \in {"offer", "wait"} /\ loop'[m].gen = loop[m].gen
  BY <1>6
<1>11. ChannelsInv'
  BY <1>0, <1>8, <1>10 DEF TurnsInv, ChannelsInv, Turns!bridge, Tuned
<1>12. AloneInv'
  BY <1>0, <1>8, <1>10, AloneStays DEF TurnsInv, AloneInv, Turns!bridge
<1> QED
  BY <1>8, <1>9, <1>11, <1>12 DEF TurnsInv

LEMMA FindChannelsInv == ASSUME TurnsInv, NEW l \in Turns!Loops, Turns!FindChannels(l) PROVE TurnsInv'
<1>0. loop[l].stage = "run" /\ UNCHANGED <<cur, loopsMade, Turns!bridge, hand, Turns!talk, aborts, alone, crossed>>
  BY DEF Turns!FindChannels
<1>1. loop' = [loop EXCEPT ![l].stage = "offer", ![l].gen = gen]
  BY DEF Turns!FindChannels
<1>2. /\ loop' \in [Turns!Loops -> LoopRows] /\ \A m \in Turns!Loops : m # l => loop'[m] = loop[m]
      /\ loop'[l].queue = loop[l].queue /\ loop'[l].turn = loop[l].turn /\ loop'[l].stage = "offer" /\ loop'[l].state = loop[l].state
      /\ loop'[l].gen = gen
  BY ZenonT(60), <1>1 DEF TurnsInv, TurnTypes, LoopRows, Stages
<1>3. Serves(l)
  BY <1>0, <1>2 DEF Serves, Queued, AtWork, TurnsInv, ChannelsInv
<1>4. /\ Turns!Engaged' \subseteq Turns!Engaged /\ UnsentInv'
      /\ gen = 0 => \A m \in Turns!Loops : loop'[m].stage = "idle" /\ loop'[m].queue = <<>>
      /\ \A m \in Turns!Loops : loop'[m].stage # "idle" => loop'[m].turn \in Turns!Handlers
  BY <1>0, <1>3, ServesTells
<1>5. TurnTypes'
  BY <1>0, <1>2 DEF TurnsInv, TurnTypes, Turns!bridge, Turns!talk
<1>6. gen \in 1..gen
  BY <1>0 DEF TurnsInv, TurnTypes, ChannelsInv
<1>7. ChannelsInv'
  BY <1>0, <1>2, <1>4, <1>6 DEF TurnsInv, ChannelsInv, Turns!bridge, Tuned
<1>8. AloneInv'
  BY <1>0, <1>2, <1>4, AloneStays DEF TurnsInv, AloneInv, Turns!bridge
<1> QED
  BY <1>4, <1>5, <1>7, <1>8 DEF TurnsInv

LEMMA OfferEventsInv == ASSUME TurnsInv, NEW l \in Turns!Loops, Turns!OfferEvents(l) PROVE TurnsInv'
<1>0. loop[l].stage = "offer" /\ UNCHANGED <<cur, gen, loopsMade, done, closes, hand, Turns!talk, aborts, alone, crossed>>
  BY DEF Turns!OfferEvents
<1>1. PICK g \in Turns!Gens : g = loop[l].gen /\ g \in 1..gen
  BY <1>0, GensAre DEF TurnsInv, TurnTypes, ChannelsInv
<1>2. PICK t \in Turns!Handlers : t = loop[l].turn
  BY <1>0 DEF TurnsInv, ChannelsInv
<1>3. ready' = [ready EXCEPT ![g] = t] /\ loop' = [loop EXCEPT ![l].stage = "wait"]
  BY <1>1, <1>2 DEF Turns!OfferEvents
<1>4. /\ loop' \in [Turns!Loops -> LoopRows] /\ \A m \in Turns!Loops : m # l => loop'[m] = loop[m]
      /\ loop'[l].queue = loop[l].queue /\ loop'[l].turn = loop[l].turn /\ loop'[l].stage = "wait" /\ loop'[l].state = loop[l].state
      /\ loop'[l].gen = loop[l].gen
  BY <1>3 DEF TurnsInv, TurnTypes, LoopRows, Stages
<1>5. ready' \in [Turns!Gens -> Turns!Handlers \cup {Turns!None}] /\ ready'[g] = t /\ \A k \in Turns!Gens : k # g => ready'[k] = ready[k]
  BY <1>3 DEF TurnsInv, TurnTypes
<1>6. Serves(l)
  BY <1>0, <1>2, <1>4 DEF Serves, Queued, AtWork
<1>7. /\ Turns!Engaged' \subseteq Turns!Engaged /\ UnsentInv'
      /\ gen = 0 => \A m \in Turns!Loops : loop'[m].stage = "idle" /\ loop'[m].queue = <<>>
      /\ \A m \in Turns!Loops : loop'[m].stage # "idle" => loop'[m].turn \in Turns!Handlers
  BY <1>0, <1>6, ServesTells
<1>8. TurnTypes'
  BY <1>0, <1>4, <1>5 DEF TurnsInv, TurnTypes, Turns!talk
<1>9. \A m \in Turns!Loops : loop'[m].stage \in {"offer", "wait"} => loop[m].stage \in {"offer", "wait"} /\ loop'[m].gen = loop[m].gen
  BY <1>0, <1>4
<1>10. \A k \in Turns!Gens : k > gen => ready'[k] = Turns!None
  <2>1. \A k \in Turns!Gens : k > gen => k # g /\ ready[k] = Turns!None
    BY <1>1, GensAre DEF TurnsInv, TurnTypes, ChannelsInv
  <2> QED
    BY <1>5, <2>1
<1>11. ChannelsInv'
  BY <1>0, <1>7, <1>9, <1>10 DEF TurnsInv, ChannelsInv, Tuned
<1>12. ASSUME NEW c \in alone', c \in Turns!Engaged' PROVE c \in alone /\ c \in Turns!Engaged /\ Turns!Engaged' = {c} /\ ready'[gen] \in {Turns!None, c}
  <2>1. c \in alone /\ Turns!Engaged = {c} /\ Turns!Engaged' = {c}
    BY <1>0, <1>7, <1>12, AloneStays
  <2>2. t \in Turns!Engaged
    BY <1>0, <1>2, WhoIsEngaged DEF AtWork
  <2> QED
    BY <1>5, <2>1, <2>2 DEF TurnsInv, AloneInv
<1>13. AloneInv'
  BY <1>0, <1>9, <1>12 DEF TurnsInv, AloneInv
<1> QED
  BY <1>7, <1>8, <1>11, <1>13 DEF TurnsInv

LEMMA TakeResultInv == ASSUME TurnsInv, NEW l \in Turns!Loops, Turns!TakeResult(l) PROVE TurnsInv'
<1>0. /\ loop[l].stage = "wait" /\ done[loop[l].gen] # Turns!Empty /\ UNCHANGED <<cur, gen, loopsMade, ready, closes, hand, aborts, alone>>
  BY DEF Turns!TakeResult
<1>1. PICK g \in Turns!Gens : g = loop[l].gen /\ g \in 1..gen
  BY <1>0, GensAre DEF TurnsInv, TurnTypes, ChannelsInv
<1>2. PICK t \in Turns!Handlers : t = loop[l].turn
  BY <1>0 DEF TurnsInv, ChannelsInv
<1>3. PICK r \in Turns!Results : r = done[g]
  BY <1>0, <1>1 DEF TurnsInv, TurnTypes
<1>4. /\ done' = [done EXCEPT ![g] = Turns!Empty] /\ pending' = (pending \/ r.how = "interrupt")
      /\ crossed' = IF r.of # t THEN crossed \cup {t} ELSE crossed
  BY <1>1, <1>2, <1>3 DEF Turns!TakeResult
<1>5. PICK state \in {loop[l].state, "dead"} : state = IF r.how = "answer" THEN loop[l].state ELSE "dead"
  OBVIOUS
<1>6. PICK row : row = [loop[l] EXCEPT !.stage = "idle", !.turn = Turns!None, !.state = state]
  OBVIOUS
<1>7. loop' = [loop EXCEPT ![l] = row]
  BY <1>1, <1>3, <1>5, <1>6 DEF Turns!TakeResult
<1>8. row \in LoopRows /\ row.queue = loop[l].queue /\ row.stage = "idle" /\ row.state = state
  BY <1>5, <1>6 DEF TurnsInv, TurnTypes, LoopRows, Stages
<1>9. /\ loop' \in [Turns!Loops -> LoopRows] /\ \A m \in Turns!Loops : m # l => loop'[m] = loop[m]
      /\ loop'[l].queue = loop[l].queue /\ loop'[l].stage = "idle" /\ loop'[l].state \in {loop[l].state, "dead"}
  BY <1>7, <1>8 DEF TurnsInv, TurnTypes
<1>10. done' \in [Turns!Gens -> Turns!Results \cup {Turns!Empty}] /\ done'[g] = Turns!Empty /\ \A k \in Turns!Gens : k # g => done'[k] = done[k]
  BY <1>4 DEF TurnsInv, TurnTypes
<1>11. Serves(l)
  BY <1>9 DEF Serves, Queued, AtWork
<1>12. /\ Turns!Engaged' \subseteq Turns!Engaged
       /\ gen = 0 => \A m \in Turns!Loops : loop'[m].stage = "idle" /\ loop'[m].queue = <<>>
       /\ \A m \in Turns!Loops : loop'[m].stage # "idle" => loop'[m].turn \in Turns!Handlers
       /\ (\A h \in Turns!Handlers : h \in crossed' => h \in crossed \/ ~Unsent(h)) => UnsentInv'
  BY <1>0, <1>11, ServesTells
<1>13. t \in Turns!Engaged /\ ~Unsent(t)
  BY <1>0, <1>2, WhoIsEngaged DEF AtWork, TurnsInv, UnsentInv
<1>14. UnsentInv'
  BY <1>4, <1>12, <1>13
<1>15. TurnTypes'
  <2>1. pending' \in BOOLEAN
    BY <1>4 DEF TurnsInv, TurnTypes
  <2> QED
    BY <1>0, <1>4, <1>9, <1>10, <2>1 DEF TurnsInv, TurnTypes
<1>16. \A m \in Turns!Loops : loop'[m].stage \in {"offer", "wait"} => loop[m].stage \in {"offer", "wait"} /\ loop'[m].gen = loop[m].gen
  BY <1>9
<1>17. ChannelsInv'
  <2>1. \A k \in Turns!Gens : done[k] = Turns!Empty => done'[k] = Turns!Empty
    BY <1>10
  <2>2. \A k \in Turns!Handlers : Tuned(k) => hand[k].gen \in Turns!Gens
    BY GensAre DEF TurnsInv, TurnTypes, ChannelsInv
  <2> QED
    BY <1>0, <1>12, <1>16, <2>1, <2>2 DEF TurnsInv, ChannelsInv, Tuned
<1>18. ASSUME NEW c \in alone' PROVE c \notin crossed'
  <2>1. CASE c \in Turns!Engaged
    <3>1. Turns!Engaged = {c} /\ g = gen /\ done[gen].of = c
      BY <1>0, <1>1, <1>18, <2>1 DEF TurnsInv, AloneInv
    <3>2. r.of = t
      BY <1>3, <1>13, <3>1
    <3> QED
      BY <1>0, <1>4, <1>18, <3>2 DEF TurnsInv, AloneInv
  <2>2. CASE c \notin Turns!Engaged
    BY <1>0, <1>4, <1>13, <1>18, <2>2 DEF TurnsInv, AloneInv
  <2> QED
    BY <2>1, <2>2
<1>19. ASSUME NEW c \in alone', c \in Turns!Engaged'
       PROVE  c \in alone /\ c \in Turns!Engaged /\ Turns!Engaged' = {c} /\ (done'[gen] = Turns!Empty \/ done'[gen].of = c)
  <2>1. c \in alone /\ Turns!Engaged = {c} /\ Turns!Engaged' = {c}
    BY <1>0, <1>12, <1>19, AloneStays
  <2> QED
    BY <1>10, <2>1 DEF TurnsInv, AloneInv
<1>20. AloneInv'
  BY <1>0, <1>16, <1>18, <1>19 DEF TurnsInv, AloneInv
<1> QED
  BY <1>14, <1>15, <1>17, <1>20 DEF TurnsInv

LEMMA LoopEndsInv == ASSUME TurnsInv, NEW l \in Turns!Loops, Turns!Cancelled(l) \/ Turns!Cleanup(l) PROVE TurnsInv'
<1>0. UNCHANGED <<loopsMade, Turns!bridge, hand, Turns!talk, alone, crossed>> /\ cur' \in {cur, 0}
  BY DEF Turns!Cancelled, Turns!Cleanup, Turns!Forget
<1>1. /\ loop' \in [Turns!Loops -> LoopRows] /\ \A m \in Turns!Loops : m # l => loop'[m] = loop[m]
      /\ loop'[l].queue = loop[l].queue /\ loop'[l].state = loop[l].state
      /\ loop'[l].stage = "idle" \/ (loop'[l].stage = loop[l].stage /\ loop'[l].turn = loop[l].turn /\ loop'[l].gen = loop[l].gen)
  <2>1. CASE Turns!Cancelled(l)
    <3>1. PICK row : row = [loop[l] EXCEPT !.stage = "idle", !.turn = Turns!None, !.cancelled = FALSE]
      OBVIOUS
    <3>2. loop' = [loop EXCEPT ![l] = row]
      BY <2>1, <3>1 DEF Turns!Cancelled
    <3>3. row \in LoopRows /\ row.queue = loop[l].queue /\ row.stage = "idle" /\ row.state = loop[l].state
      BY <3>1 DEF TurnsInv, TurnTypes, LoopRows, Stages
    <3> QED
      BY <3>2, <3>3 DEF TurnsInv, TurnTypes
  <2>2. CASE Turns!Cleanup(l)
    <3>1. loop' = [loop EXCEPT ![l].kept = FALSE]
      BY <2>2 DEF Turns!Cleanup
    <3> QED
      BY <3>1 DEF TurnsInv, TurnTypes, LoopRows
  <2> QED
    BY <2>1, <2>2
<1>2. Serves(l)
  BY <1>1 DEF Serves, Queued, AtWork, TurnsInv, ChannelsInv
<1>3. /\ Turns!Engaged' \subseteq Turns!Engaged /\ UnsentInv'
      /\ gen = 0 => \A m \in Turns!Loops : loop'[m].stage = "idle" /\ loop'[m].queue = <<>>
      /\ \A m \in Turns!Loops : loop'[m].stage # "idle" => loop'[m].turn \in Turns!Handlers
  BY <1>0, <1>2, ServesTells
<1>4. TurnTypes'
  BY <1>0, <1>1, GensAre DEF TurnsInv, TurnTypes, Turns!bridge, Turns!talk
<1>5. \A m \in Turns!Loops : loop'[m].stage \in {"offer", "wait"} => loop[m].stage \in {"offer", "wait"} /\ loop'[m].gen = loop[m].gen
  BY <1>1
<1>6. ChannelsInv'
  BY <1>0, <1>3, <1>5 DEF TurnsInv, ChannelsInv, Turns!bridge, Tuned
<1>7. AloneInv'
  BY <1>0, <1>3, <1>5, AloneStays DEF TurnsInv, AloneInv, Turns!bridge
<1> QED
  BY <1>3, <1>4, <1>6, <1>7 DEF TurnsInv

LEMMA TurnsBegin == Turns!Init => TurnsInv
<1> SUFFICES ASSUME Turns!Init PROVE TurnsInv
  OBVIOUS
<1>1. 0 \in 0..MaxLoops /\ 0 \in 0..Turns!MaxGen /\ 0 \in Nat
  BY GensAre
<1>2. loop \in [Turns!Loops -> LoopRows] /\ \A l \in Turns!Loops : loop[l].stage = "idle" /\ loop[l].queue = <<>>
  BY NewLoopIs DEF Turns!Init
<1>3. hand \in [Turns!Handlers -> HandRows] /\ \A h \in Turns!Handlers : hand[h].pc = "start"
  BY <1>1 DEF Turns!Init, Turns!Fresh, HandRows, HandPCs
<1>4. TurnTypes
  BY <1>1, <1>2, <1>3 DEF Turns!Init, TurnTypes
<1>5. ChannelsInv
  BY <1>2, <1>3 DEF Turns!Init, ChannelsInv, Tuned
<1>6. UnsentInv
  BY <1>2, NobodyWaits DEF Turns!Init, UnsentInv, Queued, AtWork
<1> QED
  BY <1>4, <1>5, <1>6 DEF TurnsInv, AloneInv, Turns!Init

LEMMA TurnsStep == TurnsInv /\ [Turns!Next]_(Turns!vars) => TurnsInv'
<1> SUFFICES ASSUME TurnsInv, [Turns!Next]_(Turns!vars) PROVE TurnsInv'
  OBVIOUS
<1>1. CASE UNCHANGED Turns!vars
  <2>1. TurnTypes'
    BY <1>1 DEF Turns!vars, Turns!bridge, Turns!talk, TurnsInv, TurnTypes
  <2>2. ChannelsInv' /\ UnsentInv'
    BY <1>1 DEF Turns!vars, Turns!bridge, Turns!talk, TurnsInv, ChannelsInv, UnsentInv, Tuned, Unsent, Queued, AtWork
  <2>3. Turns!Engaged' = Turns!Engaged
    BY <1>1 DEF Turns!vars, Turns!Engaged, Turns!Active
  <2> QED
    BY <1>1, <2>1, <2>2, <2>3 DEF Turns!vars, Turns!bridge, Turns!talk, TurnsInv, AloneInv
<1>2. ASSUME NEW c \in Chats, Turns!ChatStep(c) \/ Turns!Push(c) \/ Turns!Replace(c) PROVE TurnsInv'
  BY <1>2, RefuseInv, PreemptInv, OpenInv, PushInv DEF Turns!ChatStep
<1>3. ASSUME NEW p \in Approvals, Turns!ApproveStep(p) PROVE TurnsInv'
  BY <1>3, ApproveInv, ResumeInv DEF Turns!ApproveStep
<1>4. ASSUME NEW h \in Turns!Handlers, Turns!HandlerStep(h) \/ Turns!Stall(h) PROVE TurnsInv'
  BY <1>4, TakeEventsInv, LeaveInv, ReportInv, BeginInv, StallInv DEF Turns!HandlerStep
<1>5. ASSUME NEW l \in Turns!Loops, Turns!LoopStep(l) \/ Turns!Cancelled(l) PROVE TurnsInv'
  BY <1>5, GenInputInv, FindChannelsInv, OfferEventsInv, TakeResultInv, LoopEndsInv DEF Turns!LoopStep
<1>6. CASE Turns!Abort
  BY <1>6, AbortInv
<1> QED
  BY <1>1, <1>2, <1>3, <1>4, <1>5, <1>6 DEF Turns!Next

LEMMA TurnsInvTells == TurnsInv => Turns!TypeOK /\ Turns!AloneGetsOwn /\ Turns!ClosedOnce /\ Turns!ResultFits
<1> SUFFICES ASSUME TurnsInv PROVE Turns!TypeOK /\ Turns!AloneGetsOwn /\ Turns!ClosedOnce /\ Turns!ResultFits
  OBVIOUS
<1>1. Turns!TypeOK
  BY DEF TurnsInv, TurnTypes, Turns!TypeOK, LoopRows, HandRows, Stages, HandPCs, Turns!Empty
<1>2. ASSUME NEW c \in alone PROVE (hand[c].pc \in {"stream", "stalled"} => hand[c].of = c) /\ c \notin crossed
  <2>1. hand[c].pc \in {"stream", "stalled"} => c \in Turns!Engaged
    BY GensAre, WhoIsEngaged DEF Turns!Active, TurnsInv, TurnTypes
  <2> QED
    BY <2>1 DEF TurnsInv, AloneInv
<1>3. Turns!ClosedOnce
  BY DEF TurnsInv, ChannelsInv, Turns!ClosedOnce
<1>4. Turns!ResultFits
  BY DEF TurnsInv, ChannelsInv, Turns!ResultFits, Turns!Streams, Tuned
<1> QED
  BY <1>1, <1>2, <1>3, <1>4 DEF Turns!AloneGetsOwn, Turns!Streams

------------------------------------------------------------------------------
(* The two apart *)

PartInv ==
    /\ part = "turns" => TurnsInv
    /\ part = "client" => ClientInv

LEMMA PartSteps == PartSpec => []PartInv
<1>1. PartInit => PartInv
  BY TurnsBegin, ClientBegins DEF PartInit, PartInv
<1>2. PartInv /\ [PartNext]_allVars => PartInv'
  BY TurnsStep, ClientStep DEF PartInv, PartNext, allVars, TurnsVars, ClientVars, Client!vars, Turns!vars, Turns!bridge, Turns!talk
<1> QED
  BY <1>1, <1>2, PTL DEF PartSpec

\* However many requests, aborts and approvals cross in a conversation: a chat that meets no other
\* request is answered by its own turn, no channel is closed twice, and a handler that has streamed
\* can hand over its result at once (server/server.go).  Whatever WeCom refuses or loses: no
\* token is used that it no longer accepts, and a reply arrives at most once (wecom/client.go).
THEOREM AnswersStayApart == PartSpec => []AnswersKeepApart
<1>1. PartInv => AnswersKeepApart
  BY TurnsInvTells, ClientInvTells DEF PartInv, AnswersKeepApart
<1> QED
  BY <1>1, PartSteps, PTL

\* For any number of messages, a conversation a person has taken over is not taken back, unless the
\* deployment lets the client do so (SendKfTextMessage, kfAutoTakeover).
THEOREM PersonsKeep == PartSpec => PersonKeeps
<1>1. PartInv /\ [PartNext]_allVars => [part = "client" => Client!MayTakeAway]_allVars
  BY ClientLeavesPersons DEF PartInv, PartNext, allVars, TurnsVars, ClientVars, Client!vars, Turns!vars, Turns!bridge, Turns!talk
<1> QED
  BY <1>1, PartSteps, PTL DEF PartSpec, PersonKeeps
=============================================================================
