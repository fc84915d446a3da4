------------------------------ MODULE KfInbox ------------------------------
(***************************************************************************)
(* The durable inbox of customer messages: storage/kf_inbox.go, its worker *)
(* and its callbacks in server/kf_inbox.go, handleKfCallback and           *)
(* filterKfMsgsByWindow of server/server.go.                               *)
(*                                                                         *)
(* Messages are numbered in the order of the sync_msg stream, so a cursor  *)
(* is a number too; 0 is the empty cursor.  A thread is the poll worker or *)
(* the goroutine of a callback; one step is one call to WeCom or one SQL   *)
(* statement (SaveKfInboxBatchAndCursor: one transaction).  Claimed rows   *)
(* travel as items through the debounce, which here only promises what     *)
(* KfBatching says: HandOver takes some waiting items as one batch.        *)
(***************************************************************************)
EXTENDS Naturals, FiniteSets

CONSTANTS
    NMsgs,          \* messages the customers will write
    Text,           \* those that are customer texts (origin 3, msgtype text)
    Callbacks,      \* goroutines of handleKfCallback
    Worker,         \* the goroutine of runKfInboxWorker
    PageSize,       \* limit of SyncMsg
    ClaimLimit,     \* limit of ClaimKfInboxDue
    MaxAttempts,    \* KF_INBOX_MAX_ATTEMPTS
    Window,         \* kfSyncWindow, in days
    Retention,      \* of succeeded rows, in days
    MaxDays,        \* bound on the days that pass
    MaxFaults       \* bound on crashes, overrun leases, database errors and replays

Msgs == 1..NMsgs

ASSUME InboxAssumption ==
    /\ NMsgs \in Nat
    /\ Text \subseteq Msgs
    /\ Worker \notin Callbacks
    /\ PageSize \in Nat \ {0}
    /\ ClaimLimit \in Nat \ {0}
    /\ MaxAttempts \in Nat \ {0}
    /\ Window \in Nat /\ Retention \in Nat /\ Window <= Retention
    /\ MaxDays \in Nat
    /\ MaxFaults \in Nat

VARIABLES
    arrived,        \* messages in the stream
    sent,           \* the day each message was sent
    day,            \* the clock
    cursor,         \* kf_sync_state
    row,            \* kf_inbox_messages
    minted,         \* lease tokens made for each message: a token is a number
    pc,             \* what a thread does next
    page,           \* the page a callback has pulled: ]from, to]
    candidates,     \* rows a thread has selected and not yet tried to claim
    changed,        \* rows written since, with times later than the now of its claim
    held,           \* items a thread has claimed and not yet passed on
    waiting,        \* items in the debounce
    runs,           \* batches at the agent, or being marked
    late,           \* items whose lease ran out while they were alive
    faults

stream == <<arrived, sent, day>>
table  == <<cursor, row, minted>>
claims == <<pc, page, candidates, changed, held>>
flight == <<waiting, runs>>
vars   == <<stream, table, claims, flight, late, faults>>

Threads == Callbacks \cup {Worker}
Items == [msg : Msgs, token : Nat, attempts : Nat]
Statuses == {"absent", "deleted", "pending", "processing", "retry", "succeeded", "dead_letter"}

\* "deleted" is no row, after there was one.
Stored(m) == row[m].status \notin {"absent", "deleted"}

Alive == (UNION {held[t] : t \in Threads}) \cup waiting \cup (UNION {r.todo : r \in runs})

NoPage == [from |-> 0, to |-> 0]
NoRow == [status |-> "absent", attempts |-> 0, due |-> FALSE, token |-> 0, done |-> 0]

Init ==
    /\ arrived = 0
    /\ sent = [m \in Msgs |-> 0]
    /\ day = 0
    /\ cursor = 0
    /\ row = [m \in Msgs |-> NoRow]
    /\ minted = [m \in Msgs |-> 0]
    /\ pc = [t \in Threads |-> "idle"]
    /\ page = [t \in Threads |-> NoPage]
    /\ candidates = [t \in Threads |-> {}]
    /\ changed = [t \in Threads |-> {}]
    /\ held = [t \in Threads |-> {}]
    /\ waiting = {} /\ runs = {} /\ late = {}
    /\ faults = 0

Goto(t, label) == pc' = [pc EXCEPT ![t] = label]
Fault == faults < MaxFaults /\ faults' = faults + 1

------------------------------------------------------------------------------
(* The stream and the clock *)

Arrive ==
    /\ arrived < NMsgs
    /\ arrived' = arrived + 1
    /\ sent' = [sent EXCEPT ![arrived + 1] = day]
    /\ UNCHANGED <<day, table, claims, flight, late, faults>>

NextDay ==
    /\ day < MaxDays
    /\ day' = day + 1
    /\ UNCHANGED <<arrived, sent, table, claims, flight, late, faults>>

------------------------------------------------------------------------------
(* handleKfCallback *)

ReadCursor(t) ==
    /\ t \in Callbacks /\ pc[t] = "idle"
    /\ \/ page' = [page EXCEPT ![t].from = cursor] /\ UNCHANGED faults
       \/ page' = [page EXCEPT ![t].from = 0] /\ Fault   \* the read fails: empty cursor
    /\ Goto(t, "pull")
    /\ UNCHANGED <<stream, table, candidates, changed, held, flight, late>>

\* has_more is not looked at: what a page leaves over waits for the next callback.
Pull(t) ==
    /\ pc[t] = "pull"
    /\ \/ /\ page' = [page EXCEPT ![t].to =
                        IF page[t].from + PageSize < arrived THEN page[t].from + PageSize
                        ELSE arrived]
          /\ Goto(t, "save")
       \/ Goto(t, "idle") /\ page' = [page EXCEPT ![t] = NoPage]
    /\ UNCHANGED <<stream, table, candidates, changed, held, flight, late, faults>>

\* filterKfMsgsByWindow.  The window is measured in the step that saves: a
\* callback stalled for days between the two is left out.
Kept(m) == m \in Text /\ day <= sent[m] + Window

PendingRow == [NoRow EXCEPT !.status = "pending", !.due = TRUE]

\* A row that exists is left alone (ON CONFLICT DO NOTHING).
Save(t) ==
    /\ pc[t] = "save"
    /\ row' = [m \in Msgs |->
                 IF page[t].from < m /\ m <= page[t].to /\ Kept(m) /\ ~Stored(m)
                 THEN PendingRow ELSE row[m]]
    /\ cursor' = IF page[t].to = 0 THEN cursor ELSE page[t].to
    /\ Goto(t, "select") /\ page' = [page EXCEPT ![t] = NoPage]
    /\ UNCHANGED <<stream, minted, candidates, changed, held, flight, late, faults>>

\* Mutant: the cursor is stored in a statement of its own.
SaveFails_CursorStored(t) ==
    /\ pc[t] = "save"
    /\ Fault
    /\ Goto(t, "idle") /\ page' = [page EXCEPT ![t] = NoPage]
    /\ cursor' = page[t].to
    /\ UNCHANGED <<stream, row, minted, candidates, changed, held, flight, late>>

SaveFails(t) ==
    /\ pc[t] = "save"
    /\ Fault
    /\ Goto(t, "idle") /\ page' = [page EXCEPT ![t] = NoPage]
    /\ UNCHANGED <<stream, table, candidates, changed, held, flight, late>>

------------------------------------------------------------------------------
(* ClaimKfInboxDue *)

\* Mutant: leases that ran out are not looked for.
Due_NoExpiredLease(m) == row[m].status \in {"pending", "retry"} /\ row[m].due

\* due: next_retry_at, or for a row being processed lease_until, has passed.
Due(m) == row[m].status \in {"pending", "retry", "processing"} /\ row[m].due

SelectDue(t) ==
    /\ pc[t] = IF t = Worker THEN "idle" ELSE "select"
    /\ candidates' = [candidates EXCEPT ![t] =
         {[msg |-> m, attempts |-> row[m].attempts] :
            m \in {n \in Msgs : Due(n) /\ Cardinality({k \in Msgs : k < n /\ Due(k)}) < ClaimLimit}}]
    /\ changed' = [changed EXCEPT ![t] = {}]
    /\ Goto(t, "claim")
    /\ UNCHANGED <<stream, table, page, held, flight, late, faults>>

SelectFails(t) ==
    /\ pc[t] = "select"
    /\ Fault
    /\ Goto(t, "idle")
    /\ UNCHANGED <<stream, table, page, candidates, changed, held, flight, late>>

\* The claims under way that have selected message m.
Claiming(m) == {t \in Threads : \E c \in candidates[t] : c.msg = m}

\* A claim or a mark gives the row times later than the now of the claims under
\* way: a lease or a backoff of a minute lies between.
Touch(m) ==
    changed' = [t \in Threads |-> IF t \in Claiming(m) THEN changed[t] \cup {m} ELSE changed[t]]

\* Mutant: the update names the message only.
Matches_ByIdOnly(t, m) == row[m].status # "deleted"

\* The WHERE of the update repeats the selection, at the same now.
Matches(t, m) == m \notin changed[t]

ClaimedRow(m) ==
    [row[m] EXCEPT !.status = "processing", !.attempts = @ + 1, !.due = FALSE,
                   !.token = minted[m] + 1]

Claim(t) ==
    /\ pc[t] = "claim"
    /\ \E c \in candidates[t] :
         LET m == c.msg
             item == [msg |-> m, token |-> minted[m] + 1, attempts |-> c.attempts + 1]
         IN  /\ \A d \in candidates[t] : m <= d.msg
             /\ candidates' = [candidates EXCEPT ![t] = @ \ {c}]
             /\ IF Matches(t, m)
                   THEN /\ row' = [row EXCEPT ![m] = ClaimedRow(m)]
                        /\ minted' = [minted EXCEPT ![m] = @ + 1]
                        /\ held' = [held EXCEPT ![t] = @ \cup {item}]
                        /\ Touch(m)
                   ELSE UNCHANGED <<row, minted, held, changed>>
    /\ UNCHANGED <<stream, cursor, pc, page, flight, late, faults>>

\* An update that fails returns no rows: those claimed before it keep their
\* leases and have nobody to work on them.
ClaimFails(t) ==
    /\ pc[t] = "claim" /\ candidates[t] # {}
    /\ Fault
    /\ candidates' = [candidates EXCEPT ![t] = {}]
    /\ changed' = [changed EXCEPT ![t] = {}]
    /\ held' = [held EXCEPT ![t] = {}]
    /\ Goto(t, "idle")
    /\ UNCHANGED <<stream, table, page, flight, late>>

------------------------------------------------------------------------------
(* MarkKfInboxSucceeded and MarkKfInboxFailed *)

Holds(i) == row[i.msg].status = "processing" /\ row[i.msg].token = i.token

SucceededRow(m) ==
    [row[m] EXCEPT !.status = "succeeded", !.due = FALSE, !.token = 0, !.done = day]

\* Mutant: the lease stays on the failed row.
FailedRow_KeepToken(m, attempts) ==
    [row[m] EXCEPT !.status = IF attempts >= MaxAttempts THEN "dead_letter" ELSE "retry",
                   !.due = FALSE]

\* attempts are those the item was claimed with.
FailedRow(m, attempts) ==
    [row[m] EXCEPT !.status = IF attempts >= MaxAttempts THEN "dead_letter" ELSE "retry",
                   !.due = FALSE, !.token = 0]

\* A mark without the lease changes nothing and is logged.
Mark(i, new) ==
    IF Holds(i) THEN row' = [row EXCEPT ![i.msg] = new] /\ Touch(i.msg)
                ELSE UNCHANGED <<row, changed>>

------------------------------------------------------------------------------
(* enqueueKfInboxRows, drainKfInbox *)

Enqueue(t, i) ==
    /\ pc[t] = "claim" /\ candidates[t] = {} /\ i \in held[t]
    /\ held' = [held EXCEPT ![t] = @ \ {i}]
    /\ waiting' = waiting \cup {i}
    /\ UNCHANGED <<stream, table, pc, page, candidates, changed, runs, late, faults>>

\* The shop of the message has no client any more.
NoRoute(i) ==
    /\ pc[Worker] = "claim" /\ candidates[Worker] = {} /\ i \in held[Worker]
    /\ held' = [held EXCEPT ![Worker] = @ \ {i}]
    /\ Mark(i, FailedRow(i.msg, i.attempts))
    /\ UNCHANGED <<stream, cursor, minted, pc, page, candidates, flight, late, faults>>

Return(t) ==
    /\ pc[t] = "claim" /\ candidates[t] = {} /\ held[t] = {}
    /\ Goto(t, "idle") /\ changed' = [changed EXCEPT ![t] = {}]
    /\ UNCHANGED <<stream, table, page, candidates, held, flight, late, faults>>

------------------------------------------------------------------------------
(* processKfInboxBatch *)

HandOver(batch) ==
    /\ batch # {} /\ batch \subseteq waiting
    /\ waiting' = waiting \ batch
    /\ runs' = runs \cup {[todo |-> batch, result |-> "none"]}
    /\ UNCHANGED <<stream, table, claims, late, faults>>

\* The agent and the reply: an error, a panic included, fails the whole batch.
AgentReturns(r) ==
    /\ r \in runs /\ r.result = "none"
    /\ \E result \in {"ok", "error"} :
         runs' = (runs \ {r}) \cup {[r EXCEPT !.result = result]}
    /\ UNCHANGED <<stream, table, claims, waiting, late, faults>>

\* The run with item i marked.
Marked(r, i) ==
    runs' = (runs \ {r}) \cup
            (IF r.todo = {i} THEN {} ELSE {[r EXCEPT !.todo = @ \ {i}]})

MarkItem(r, i) ==
    /\ r \in runs /\ r.result # "none" /\ i \in r.todo
    /\ Mark(i, IF r.result = "ok" THEN SucceededRow(i.msg) ELSE FailedRow(i.msg, i.attempts))
    /\ Marked(r, i)
    /\ UNCHANGED <<stream, cursor, minted, pc, page, candidates, held, waiting, late, faults>>

\* The statement fails: the row keeps its lease until it runs out.
MarkFails(r, i) ==
    /\ r \in runs /\ r.result # "none" /\ i \in r.todo
    /\ Fault
    /\ Marked(r, i)
    /\ UNCHANGED <<stream, table, claims, waiting, late>>

------------------------------------------------------------------------------
(* Time, the administrator, the cleanup, the process *)

SetDue(m) == row' = [row EXCEPT ![m].due = TRUE]

Leased(m) == row[m].status = "processing" /\ ~row[m].due
Bearers(m) == {i \in Alive : i.msg = m /\ i.token = row[m].token}

\* kfInboxBackoff has passed.
RetryDue(m) ==
    /\ row[m].status = "retry" /\ ~row[m].due
    /\ SetDue(m)
    /\ UNCHANGED <<stream, cursor, minted, claims, flight, late, faults>>

\* Nobody works under the lease any more.
LeaseRunsOut(m) ==
    /\ Leased(m) /\ Bearers(m) = {}
    /\ SetDue(m)
    /\ UNCHANGED <<stream, cursor, minted, claims, flight, late, faults>>

\* The turn of the agent, or the queue for the rate-limited reply, outlasts the lease.
Overrun(m) ==
    /\ Leased(m) /\ Bearers(m) # {}
    /\ Fault
    /\ SetDue(m)
    /\ late' = late \cup Bearers(m)
    /\ UNCHANGED <<stream, cursor, minted, claims, flight>>

\* ReplayKfInboxMessage.  The row is due from the now the request took before its
\* update: a claim whose own now is later still finds the row it has selected.
Replay(m) ==
    /\ row[m].status \in {"retry", "dead_letter"}
    /\ Fault
    /\ row' = [row EXCEPT ![m].status = "pending", ![m].attempts = 0,
                          ![m].due = TRUE, ![m].token = 0]
    /\ \E later \in SUBSET Claiming(m) :
         changed' = [t \in Threads |-> IF t \in later THEN changed[t] \ {m}
                                      ELSE IF t \in Claiming(m) THEN changed[t] \cup {m}
                                      ELSE changed[t]]
    /\ UNCHANGED <<stream, cursor, minted, pc, page, candidates, held, flight, late>>

\* Mutant: one day is enough.
Purgeable_AfterADay(m) == row[m].status = "succeeded" /\ row[m].done < day

Purgeable(m) == row[m].status = "succeeded" /\ row[m].done + Retention < day

\* CleanupSucceededKfInbox
Cleanup ==
    /\ \E m \in Msgs : Purgeable(m)
    /\ row' = [m \in Msgs |-> IF Purgeable(m) THEN [NoRow EXCEPT !.status = "deleted"]
                              ELSE row[m]]
    /\ UNCHANGED <<stream, cursor, minted, claims, flight, late, faults>>

\* The process dies and is started again.
Crash ==
    /\ Fault
    /\ pc' = [t \in Threads |-> "idle"]
    /\ candidates' = [t \in Threads |-> {}]
    /\ held' = [t \in Threads |-> {}]
    /\ page' = [t \in Threads |-> NoPage]
    /\ changed' = [t \in Threads |-> {}]
    /\ waiting' = {} /\ runs' = {} /\ late' = {}
    /\ UNCHANGED <<stream, table>>

------------------------------------------------------------------------------
ThreadStep(t) ==
    \/ Pull(t) \/ Save(t) \/ SelectDue(t) \/ Claim(t) \/ Return(t)
    \/ \E i \in held[t] : Enqueue(t, i)

AgentStep(r) == AgentReturns(r) \/ \E i \in r.todo : MarkItem(r, i)

Next ==
    \/ Arrive \/ NextDay \/ Cleanup \/ Crash
    \/ \E t \in Threads : ReadCursor(t) \/ ThreadStep(t) \/ SaveFails(t) \/ SelectFails(t)
                          \/ ClaimFails(t)
    \/ \E i \in held[Worker] : NoRoute(i)
    \/ \E batch \in SUBSET waiting : HandOver(batch)
    \/ \E r \in runs : AgentStep(r) \/ \E i \in r.todo : MarkFails(r, i)
    \/ \E m \in Msgs : RetryDue(m) \/ LeaseRunsOut(m) \/ Overrun(m) \/ Replay(m)

Spec == Init /\ [][Next]_vars

\* Goroutines go on, the worker polls, the debounce hands over, agents return
\* (their turn has a deadline), time passes.  Customers and faults owe nothing.
Fairness ==
    /\ \A t \in Threads : WF_vars(ThreadStep(t))
    /\ WF_vars(\E batch \in SUBSET waiting : HandOver(batch))
    /\ WF_vars(\E r \in runs : AgentStep(r))
    /\ \A m \in Msgs : WF_vars(RetryDue(m) \/ LeaseRunsOut(m))

FairSpec == Spec /\ Fairness

------------------------------------------------------------------------------
(* Properties *)

Rows == [status : Statuses, attempts : Nat, due : BOOLEAN, token : Nat, done : Nat]

TypeOK ==
    /\ arrived \in 0..NMsgs /\ day \in Nat /\ sent \in [Msgs -> Nat]
    /\ cursor \in 0..arrived
    /\ row \in [Msgs -> Rows] /\ minted \in [Msgs -> Nat]
    /\ \A m \in Msgs : (row[m].token # 0) <=> (row[m].status = "processing")
    /\ pc \in [Threads -> {"idle", "pull", "save", "select", "claim"}]
    /\ page \in [Threads -> [from : Nat, to : Nat]]
    /\ candidates \in [Threads -> SUBSET [msg : Msgs, attempts : Nat]]
    /\ changed \in [Threads -> SUBSET Msgs]
    /\ held \in [Threads -> SUBSET Items]
    /\ waiting \subseteq Items
    /\ runs \subseteq [todo : SUBSET Items, result : {"none", "ok", "error"}]
    /\ late \subseteq Items
    /\ faults \in Nat

\* No customer text is lost: what the cursor has passed is in the inbox, was there
\* until it had succeeded, or is older than the window
\* (SaveKfInboxBatchAndCursor, one transaction for rows and cursor).
NothingLost ==
    \A m \in Text : m <= cursor => row[m].status # "absent" \/ ~Kept(m)

\* Whoever works on a message within its lease owns its row: no callback, worker,
\* replay, cleanup or older run takes it away, so a message is worked on once at a
\* time (the conditional updates of ClaimKfInboxDue and of the two marks).  It knows
\* the count of attempts it will report, or the administrator set the row back to none
\* while the claim was between its SELECT and its UPDATE.
HolderKeepsRow ==
    \A i \in Alive \ late :
        /\ Leased(i.msg)
        /\ row[i.msg].token = i.token
        /\ row[i.msg].attempts \in {i.attempts, 1}

\* A message answered with success is never taken up again, although its row is
\* deleted and the stream may be read again from the start.
DoneStaysDone ==
    [][\A m \in Msgs : row[m].status \in {"succeeded", "deleted"} =>
           row'[m].status \in {"succeeded", "deleted"}]_vars

\* What is in the inbox is answered or ends in the dead letters, through crashes,
\* leases that run out and failed statements.
Settles ==
    \A m \in Msgs : Stored(m) ~> row[m].status \in {"succeeded", "deleted", "dead_letter"}
=============================================================================
