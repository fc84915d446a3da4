---------------------------- MODULE MessageProofs ----------------------------
(***************************************************************************)
(* Theorems about the way of a message into the server.                    *)
(*                                                                         *)
(* The inbox, for any number of messages, callbacks and faults: a lease    *)
(* protects its holder, and nothing the cursor has passed is lost.         *)
(*                                                                         *)
(* The gates before a turn, for any limits, words and models: the rate     *)
(* limiter keeps its window (LimiterInv), the chain of models tries each   *)
(* in turn (ChainInv) and the screen judges every message by what was said *)
(* in the turn (ScreenInv).  HistoryProofs adds the turn and its history.  *)
(***************************************************************************)
EXTENDS KfInbox, MCServer, SequenceTheorems, FiniteSetTheorems, WellFoundedInduction, TLAPS

LEMMA AliveItems ==
    ASSUME NEW i
    PROVE  i \in Alive <=> \/ \E t \in Threads : i \in held[t]
                           \/ i \in waiting
                           \/ \E r \in runs : i \in r.todo
BY DEF Alive

LEMMA AliveItemsNext ==
    ASSUME NEW i
    PROVE  i \in Alive' <=> \/ \E t \in Threads : i \in held'[t]
                            \/ i \in waiting'
                            \/ \E r \in runs' : i \in r.todo
BY DEF Alive

------------------------------------------------------------------------------
(* Types *)

LEMMA InitType == Init => TypeOK
BY InboxAssumption DEF Init, TypeOK, NoRow, NoPage, Rows, Statuses, Msgs

RowOK(x) == x \in Rows /\ ((x.token # 0) <=> (x.status = "processing"))

RowsOK == row \in [Msgs -> Rows] /\ \A m \in Msgs : RowOK(row[m])

\* The parts of TypeOK that are not about rows.
ThreadsOK ==
    /\ pc \in [Threads -> {"idle", "pull", "save", "select", "claim"}]
    /\ page \in [Threads -> [from : Nat, to : Nat]]
    /\ candidates \in [Threads -> SUBSET [msg : Msgs, attempts : Nat]]
    /\ changed \in [Threads -> SUBSET Msgs]

StreamOK ==
    /\ arrived \in 0..NMsgs /\ day \in Nat /\ sent \in [Msgs -> Nat]
    /\ faults \in Nat

ItemsOK ==
    /\ minted \in [Msgs -> Nat]
    /\ held \in [Threads -> SUBSET Items]
    /\ waiting \subseteq Items
    /\ runs \subseteq [todo : SUBSET Items, result : {"none", "ok", "error"}]
    /\ late \subseteq Items

LEMMA TypeParts ==
    TypeOK <=> RowsOK /\ ThreadsOK /\ StreamOK /\ ItemsOK /\ cursor \in 0..arrived
BY DEF TypeOK, RowsOK, RowOK, ThreadsOK, StreamOK, ItemsOK

\* The rows that are written.
LEMMA SucceededType ==
    ASSUME StreamOK, NEW m \in Msgs, row[m] \in Rows
    PROVE  RowOK(SucceededRow(m)) /\ SucceededRow(m).status = "succeeded"
           /\ SucceededRow(m).done = day
BY DEF StreamOK, Rows, Statuses, SucceededRow, RowOK

LEMMA FailedType ==
    ASSUME NEW m \in Msgs, row[m] \in Rows, NEW n \in Nat
    PROVE  RowOK(FailedRow(m, n)) /\ FailedRow(m, n).status \in {"retry", "dead_letter"}
BY DEF Rows, Statuses, FailedRow, RowOK

LEMMA ClaimedType ==
    ASSUME ItemsOK, NEW m \in Msgs, row[m] \in Rows
    PROVE  /\ RowOK(ClaimedRow(m)) /\ ClaimedRow(m).status = "processing"
           /\ ClaimedRow(m).token = minted[m] + 1 /\ ~ClaimedRow(m).due
           /\ ClaimedRow(m).attempts = row[m].attempts + 1
<1>1. minted[m] + 1 \in Nat /\ minted[m] + 1 # 0 /\ row[m].attempts + 1 \in Nat
  BY DEF ItemsOK, Rows
<1> DEFINE New(k, l) == [row[m] EXCEPT !.status = "processing", !.attempts = k, !.due = FALSE,
                                       !.token = l]
<1>2. ASSUME NEW k \in Nat, NEW l \in Nat
      PROVE  /\ New(k, l) \in Rows /\ New(k, l).status = "processing" /\ New(k, l).token = l
             /\ ~New(k, l).due /\ New(k, l).attempts = k
  BY DEF Rows, Statuses
<1>3. ClaimedRow(m) = New(row[m].attempts + 1, minted[m] + 1)
  BY Zenon DEF ClaimedRow
<1> HIDE DEF New
<1> QED
  BY <1>1, <1>2, <1>3 DEF RowOK

LEMMA NewRowsType ==
    /\ RowOK(PendingRow) /\ PendingRow.status = "pending"
    /\ RowOK([NoRow EXCEPT !.status = "deleted"])
    /\ [NoRow EXCEPT !.status = "deleted"].status = "deleted"
BY DEF Rows, Statuses, PendingRow, NoRow, RowOK

LEMMA DueType ==
    ASSUME NEW m \in Msgs, RowsOK, SetDue(m)
    PROVE  RowsOK' /\ \A n \in Msgs : /\ row'[n].status = row[n].status
                                      /\ row'[n].token = row[n].token
                                      /\ row'[n].attempts = row[n].attempts
                                      /\ row'[n].done = row[n].done
                                      /\ n # m => row'[n] = row[n]
BY DEF RowsOK, RowOK, Rows, SetDue

LEMMA OneRow ==
    ASSUME RowsOK, NEW m \in Msgs, NEW x, RowOK(x), row' = [row EXCEPT ![m] = x]
    PROVE  RowsOK' /\ row'[m] = x /\ \A n \in Msgs : n # m => row'[n] = row[n]
BY DEF RowsOK, RowOK

\* A claim or a mark changes what claims under way have seen.
LEMMA TouchType ==
    ASSUME ThreadsOK, NEW m \in Msgs, Touch(m)
    PROVE  changed' \in [Threads -> SUBSET Msgs]
BY DEF ThreadsOK, Touch

LEMMA ReplayType ==
    ASSUME ThreadsOK, NEW m \in Msgs, Replay(m)
    PROVE  changed' \in [Threads -> SUBSET Msgs]
BY DEF ThreadsOK, Replay

\* A mark writes the row of the item that holds it, or nothing.
LEMMA MarkType ==
    ASSUME RowsOK, ThreadsOK, NEW i \in Items, NEW x, RowOK(x), Mark(i, x)
    PROVE  /\ RowsOK' /\ changed' \in [Threads -> SUBSET Msgs]
           /\ \/ row' = row /\ changed' = changed /\ ~Holds(i)
              \/ /\ Holds(i) /\ Touch(i.msg) /\ row'[i.msg] = x
                 /\ \A n \in Msgs : n # i.msg => row'[n] = row[n]
<1>1. i.msg \in Msgs
  BY DEF Items
<1>2. CASE Holds(i)
  BY <1>1, <1>2, OneRow, TouchType DEF Mark
<1>3. CASE ~Holds(i)
  BY <1>3 DEF Mark, RowsOK, RowOK, ThreadsOK
<1> QED
  BY <1>2, <1>3

PagesOK == \A t \in Threads : page[t].from <= arrived /\ page[t].to <= arrived

TypeInv == RowsOK /\ ThreadsOK /\ StreamOK /\ ItemsOK /\ PagesOK /\ cursor \in 0..arrived

LEMMA InitTypeInv == Init => TypeInv
<1> SUFFICES ASSUME Init PROVE TypeInv
  OBVIOUS
<1>1. TypeOK
  BY InitType
<1>2. PagesOK
  BY InboxAssumption DEF Init, PagesOK, NoPage
<1> QED
  BY <1>1, <1>2, TypeParts DEF TypeInv

\* The items that steps speak of are items.
LEMMA ItemFacts ==
    ASSUME ItemsOK
    PROVE  /\ \A t \in Threads : \A i \in held[t] : i \in Items
           /\ \A r \in runs : r.todo \subseteq Items
           /\ \A i \in Items : i.msg \in Msgs /\ i.attempts \in Nat /\ i.token \in Nat
BY DEF ItemsOK, Items

LEMMA StreamStep == ASSUME TypeInv, Next PROVE StreamOK'
<1> USE DEF TypeInv, StreamOK, Fault
<1>1. CASE Arrive
  BY <1>1, InboxAssumption DEF Arrive, Msgs
<1>2. CASE NextDay \/ Cleanup \/ Crash
  BY <1>2 DEF NextDay, Cleanup, Crash, stream
<1>3. ASSUME NEW t \in Threads, ReadCursor(t) \/ ThreadStep(t) \/ SaveFails(t) \/ SelectFails(t)
                                \/ ClaimFails(t)
      PROVE  StreamOK'
  BY <1>3 DEF ReadCursor, ThreadStep, SaveFails, SelectFails, ClaimFails, Pull, Save, SelectDue,
              Claim, Return, Enqueue, stream
<1>4. ASSUME NEW i, NoRoute(i) PROVE StreamOK'
  BY <1>4 DEF NoRoute, stream
<1>5. ASSUME NEW batch, HandOver(batch) PROVE StreamOK'
  BY <1>5 DEF HandOver, stream
<1>6. ASSUME NEW r, AgentStep(r) \/ \E i \in r.todo : MarkFails(r, i) PROVE StreamOK'
  BY <1>6 DEF AgentStep, AgentReturns, MarkItem, MarkFails, stream
<1>7. ASSUME NEW m, RetryDue(m) \/ LeaseRunsOut(m) \/ Overrun(m) \/ Replay(m) PROVE StreamOK'
  BY <1>7 DEF RetryDue, LeaseRunsOut, Overrun, Replay, stream
<1> QED
  BY <1>1, <1>2, <1>3, <1>4, <1>5, <1>6, <1>7 DEF Next

LEMMA CursorStep == ASSUME TypeInv, Next PROVE PagesOK' /\ (cursor \in 0..arrived)'
<1> USE DEF TypeInv, PagesOK
<1>1. CASE Arrive
  BY <1>1 DEF Arrive, StreamOK, ThreadsOK, claims, table
<1>2. CASE NextDay \/ Cleanup
  BY <1>2 DEF NextDay, Cleanup, stream, claims, table
<1>3. CASE Crash
  BY <1>3 DEF Crash, StreamOK, NoPage, stream, table
<1>4. ASSUME NEW t \in Threads, ReadCursor(t) \/ Pull(t) \/ Save(t) \/ SaveFails(t)
      PROVE  PagesOK' /\ (cursor \in 0..arrived)'
  <2>1. NoPage.from = 0 /\ NoPage.to = 0 /\ arrived \in Nat
    BY DEF NoPage, StreamOK
  <2>2. page[t].from \in Nat /\ page[t].to \in Nat
    BY DEF ThreadsOK
  <2>3. CASE ReadCursor(t)
    BY <2>1, <2>2, <2>3 DEF ReadCursor, ThreadsOK, stream, table
  <2>4. CASE Pull(t)
    BY <2>1, <2>2, <2>4, InboxAssumption DEF Pull, ThreadsOK, stream, table
  <2>5. CASE Save(t) \/ SaveFails(t)
    BY <2>1, <2>2, <2>5 DEF Save, SaveFails, ThreadsOK, stream, table
  <2> QED
    BY <1>4, <2>3, <2>4, <2>5
<1>5. ASSUME NEW t \in Threads, SelectDue(t) \/ Claim(t) \/ Return(t) \/ SelectFails(t)
                                \/ ClaimFails(t) \/ \E i \in held[t] : Enqueue(t, i)
      PROVE  PagesOK' /\ (cursor \in 0..arrived)'
  BY <1>5 DEF SelectDue, Claim, Return, SelectFails, ClaimFails, Enqueue, stream, table
<1>6. ASSUME NEW i, NoRoute(i) PROVE PagesOK' /\ (cursor \in 0..arrived)'
  BY <1>6 DEF NoRoute, stream
<1>7. ASSUME NEW batch, HandOver(batch) PROVE PagesOK' /\ (cursor \in 0..arrived)'
  BY <1>7 DEF HandOver, stream, claims, table
<1>8. ASSUME NEW r, AgentStep(r) \/ \E i \in r.todo : MarkFails(r, i)
      PROVE  PagesOK' /\ (cursor \in 0..arrived)'
  BY <1>8 DEF AgentStep, AgentReturns, MarkItem, MarkFails, stream, claims, table
<1>9. ASSUME NEW m, RetryDue(m) \/ LeaseRunsOut(m) \/ Overrun(m) \/ Replay(m)
      PROVE  PagesOK' /\ (cursor \in 0..arrived)'
  BY <1>9 DEF RetryDue, LeaseRunsOut, Overrun, Replay, stream, claims
<1> QED
  BY <1>1, <1>2, <1>3, <1>4, <1>5, <1>6, <1>7, <1>8, <1>9 DEF Next, ThreadStep

LEMMA ItemsStep == ASSUME TypeInv, Next PROVE ItemsOK'
<1> USE DEF TypeInv
<1>1. CASE Arrive \/ NextDay \/ Cleanup
  BY <1>1 DEF Arrive, NextDay, Cleanup, ItemsOK, table, claims, flight
<1>2. CASE Crash
  BY <1>2 DEF Crash, ItemsOK, table
<1>3. ASSUME NEW t \in Threads, Claim(t) PROVE ItemsOK'
  <2>1. PICK c \in candidates[t] :
          LET item == [msg |-> c.msg, token |-> minted[c.msg] + 1, attempts |-> c.attempts + 1]
          IN  \/ /\ minted' = [minted EXCEPT ![c.msg] = @ + 1]
                 /\ held' = [held EXCEPT ![t] = @ \cup {item}]
              \/ minted' = minted /\ held' = held
    BY <1>3 DEF Claim
  <2>2. c.msg \in Msgs /\ c.attempts \in Nat /\ minted[c.msg] \in Nat
    BY DEF ThreadsOK, ItemsOK
  <2>3. [msg |-> c.msg, token |-> minted[c.msg] + 1, attempts |-> c.attempts + 1] \in Items
    BY <2>2 DEF Items
  <2>4. waiting' = waiting /\ runs' = runs /\ late' = late
    BY <1>3 DEF Claim, flight
  <2> QED
    BY <2>1, <2>2, <2>3, <2>4 DEF ItemsOK
<1>4. ASSUME NEW t \in Threads, ReadCursor(t) \/ Pull(t) \/ Save(t) \/ SaveFails(t)
                                \/ SelectDue(t) \/ Return(t) \/ SelectFails(t)
      PROVE  ItemsOK'
  BY <1>4 DEF ReadCursor, Pull, Save, SaveFails, SelectDue, Return, SelectFails, ItemsOK, table,
              flight
<1>5. ASSUME NEW t \in Threads, ClaimFails(t) \/ \E i \in held[t] : Enqueue(t, i) PROVE ItemsOK'
  BY <1>5 DEF ClaimFails, Enqueue, ItemsOK, table, flight
<1>6. ASSUME NEW i \in held[Worker], NoRoute(i) PROVE ItemsOK'
  BY <1>6 DEF NoRoute, ItemsOK, flight
<1>7. ASSUME NEW batch \in SUBSET waiting, HandOver(batch) PROVE ItemsOK'
  BY <1>7 DEF HandOver, ItemsOK, table, claims
<1>8. ASSUME NEW r \in runs, AgentReturns(r) PROVE ItemsOK'
  BY <1>8 DEF AgentReturns, ItemsOK, table, claims
<1>9. ASSUME NEW r \in runs, NEW i \in r.todo, MarkItem(r, i) \/ MarkFails(r, i) PROVE ItemsOK'
  <2>1. runs' \subseteq [todo : SUBSET Items, result : {"none", "ok", "error"}]
    BY <1>9 DEF MarkItem, MarkFails, Marked, ItemsOK
  <2> QED
    BY <1>9, <2>1 DEF MarkItem, MarkFails, ItemsOK, table, claims
<1>10. ASSUME NEW m \in Msgs, RetryDue(m) \/ LeaseRunsOut(m) \/ Replay(m) PROVE ItemsOK'
  BY <1>10 DEF RetryDue, LeaseRunsOut, Replay, ItemsOK, claims, flight
<1>11. ASSUME NEW m \in Msgs, Overrun(m) PROVE ItemsOK'
  <2>1. Bearers(m) \subseteq Items
    BY AliveItems, ItemFacts DEF Bearers, ItemsOK
  <2> QED
    BY <1>11, <2>1 DEF Overrun, ItemsOK, claims, flight
<1> QED
  BY <1>1, <1>2, <1>3, <1>4, <1>5, <1>6, <1>7, <1>8, <1>9, <1>10, <1>11
  DEF Next, ThreadStep, AgentStep

LEMMA ThreadsStep == ASSUME TypeInv, Next PROVE ThreadsOK'
<1> USE DEF TypeInv, Goto
<1>1. CASE Arrive \/ NextDay \/ Cleanup
  BY <1>1 DEF Arrive, NextDay, Cleanup, ThreadsOK, claims
<1>2. CASE Crash
  BY <1>2 DEF Crash, ThreadsOK, NoPage
<1>3. ASSUME NEW t \in Threads, Claim(t) PROVE ThreadsOK'
  <2>1. PICK c \in candidates[t] : /\ candidates' = [candidates EXCEPT ![t] = @ \ {c}]
                                   /\ Touch(c.msg) \/ changed' = changed
    BY <1>3 DEF Claim
  <2>2. c.msg \in Msgs
    BY DEF ThreadsOK
  <2>3. changed' \in [Threads -> SUBSET Msgs]
    BY <2>1, <2>2, TouchType DEF ThreadsOK
  <2> QED
    BY <1>3, <2>1, <2>3 DEF Claim, ThreadsOK
<1>4. ASSUME NEW t \in Threads, ReadCursor(t) \/ Pull(t) \/ Save(t) \/ SaveFails(t)
      PROVE  ThreadsOK'
  <2>1. NoPage \in [from : Nat, to : Nat] /\ cursor \in Nat /\ arrived \in Nat
        /\ page[t].from + PageSize \in Nat
    BY InboxAssumption DEF NoPage, StreamOK, ThreadsOK
  <2>2. page' \in [Threads -> [from : Nat, to : Nat]]
    <3>1. ASSUME NEW n \in Nat
          PROVE  /\ [page EXCEPT ![t].from = n] \in [Threads -> [from : Nat, to : Nat]]
                 /\ [page EXCEPT ![t].to = n] \in [Threads -> [from : Nat, to : Nat]]
      BY DEF ThreadsOK
    <3>2. [page EXCEPT ![t] = NoPage] \in [Threads -> [from : Nat, to : Nat]]
      BY <2>1 DEF ThreadsOK
    <3>3. CASE Pull(t)
      <4>1. PICK n \in Nat : page' = [page EXCEPT ![t].to = n] \/ page' = [page EXCEPT ![t] = NoPage]
        BY <2>1, <3>3 DEF Pull
      <4> QED
        BY ZenonT(60), <3>1, <3>2, <4>1
    <3>4. CASE ReadCursor(t)
      <4>1. PICK n \in Nat : page' = [page EXCEPT ![t].from = n]
        BY <2>1, <3>4, 0 \in Nat DEF ReadCursor
      <4> QED
        BY <3>1, <4>1
    <3>5. CASE Save(t) \/ SaveFails(t)
      BY <3>2, <3>5 DEF Save, SaveFails
    <3> QED
      BY <1>4, <3>3, <3>4, <3>5
  <2>3. pc' \in [Threads -> {"idle", "pull", "save", "select", "claim"}]
    BY <1>4 DEF ReadCursor, Pull, Save, SaveFails, ThreadsOK
  <2>4. candidates' = candidates /\ changed' = changed
    BY <1>4 DEF ReadCursor, Pull, Save, SaveFails
  <2> QED
    BY <2>2, <2>3, <2>4 DEF ThreadsOK
<1>5. ASSUME NEW t \in Threads, SelectDue(t) PROVE ThreadsOK'
  <2>1. {[msg |-> m, attempts |-> row[m].attempts] :
            m \in {n \in Msgs : Due(n) /\ Cardinality({k \in Msgs : k < n /\ Due(k)}) < ClaimLimit}}
           \subseteq [msg : Msgs, attempts : Nat]
    <3>1. \A m \in Msgs : row[m].attempts \in Nat
      BY DEF RowsOK, RowOK, Rows
    <3>2. ASSUME NEW S \in SUBSET Msgs
          PROVE  {[msg |-> m, attempts |-> row[m].attempts] : m \in S}
                   \subseteq [msg : Msgs, attempts : Nat]
      BY <3>1
    <3> QED
      BY <3>2
  <2> QED
    BY <1>5, <2>1 DEF SelectDue, ThreadsOK
<1>6. ASSUME NEW t \in Threads, Return(t) \/ SelectFails(t) \/ ClaimFails(t) PROVE ThreadsOK'
  BY <1>6 DEF Return, SelectFails, ClaimFails, ThreadsOK
<1>7. ASSUME NEW t \in Threads, NEW i \in held[t], Enqueue(t, i) PROVE ThreadsOK'
  BY <1>7 DEF Enqueue, ThreadsOK
<1>8. ASSUME NEW i \in held[Worker], NoRoute(i) PROVE ThreadsOK'
  <2>1. i \in Items /\ i.msg \in Msgs /\ i.attempts \in Nat /\ row[i.msg] \in Rows
    BY ItemFacts DEF Threads, RowsOK
  <2>2. changed' \in [Threads -> SUBSET Msgs]
    BY <1>8, <2>1, FailedType, MarkType DEF NoRoute
  <2> QED
    BY <1>8, <2>2 DEF NoRoute, ThreadsOK
<1>9. ASSUME NEW batch \in SUBSET waiting, HandOver(batch) PROVE ThreadsOK'
  BY <1>9 DEF HandOver, ThreadsOK, claims
<1>10. ASSUME NEW r \in runs, NEW i \in r.todo, MarkItem(r, i) PROVE ThreadsOK'
  <2>1. i \in Items /\ i.msg \in Msgs /\ i.attempts \in Nat /\ row[i.msg] \in Rows
    BY ItemFacts DEF RowsOK
  <2>2. changed' \in [Threads -> SUBSET Msgs]
    BY <1>10, <2>1, FailedType, SucceededType, MarkType DEF MarkItem
  <2> QED
    BY <1>10, <2>2 DEF MarkItem, ThreadsOK
<1>11. ASSUME NEW r \in runs, AgentReturns(r) \/ \E i \in r.todo : MarkFails(r, i) PROVE ThreadsOK'
  BY <1>11 DEF AgentReturns, MarkFails, ThreadsOK, claims
<1>12. ASSUME NEW m \in Msgs, RetryDue(m) \/ LeaseRunsOut(m) \/ Overrun(m) PROVE ThreadsOK'
  BY <1>12 DEF RetryDue, LeaseRunsOut, Overrun, ThreadsOK, claims
<1>13. ASSUME NEW m \in Msgs, Replay(m) PROVE ThreadsOK'
  <2>1. changed' \in [Threads -> SUBSET Msgs]
    BY <1>13, ReplayType
  <2> QED
    BY <1>13, <2>1 DEF Replay, ThreadsOK
<1> QED
  BY <1>1, <1>2, <1>3, <1>4, <1>5, <1>6, <1>7, <1>8, <1>9, <1>10, <1>11, <1>12, <1>13
  DEF Next, ThreadStep, AgentStep

------------------------------------------------------------------------------
(* What a step does to a row *)

Open(status) == status \in {"pending", "processing", "retry", "dead_letter"}

RowFate(m) ==
    \/ row'[m] = row[m]
    \/ ~Stored(m) /\ Kept(m) /\ m <= arrived /\ row'[m].status = "pending"
    \/ Open(row[m].status) /\ Open(row'[m].status)
    \/ Open(row[m].status) /\ row'[m].status = "succeeded" /\ row'[m].done = day
    \/ Purgeable(m) /\ row'[m].status = "deleted"

\* What a claim under way has selected is still so, unless the row has been written.
SnapshotsOK ==
    \A t \in Threads : \A c \in candidates[t] :
        c.msg \notin changed[t] => Due(c.msg) /\ row[c.msg].attempts \in {c.attempts, 0}

LEMMA ClaimEffect ==
    ASSUME NEW t \in Threads, Claim(t)
    PROVE  \E c \in candidates[t] :
             /\ candidates' = [candidates EXCEPT ![t] = @ \ {c}]
             /\ \/ /\ Matches(t, c.msg)
                   /\ row' = [row EXCEPT ![c.msg] = ClaimedRow(c.msg)]
                   /\ minted' = [minted EXCEPT ![c.msg] = @ + 1]
                   /\ held' = [held EXCEPT ![t] = @ \cup
                                  {[msg |-> c.msg, token |-> minted[c.msg] + 1,
                                    attempts |-> c.attempts + 1]}]
                   /\ Touch(c.msg)
                \/ row' = row /\ minted' = minted /\ held' = held /\ changed' = changed
BY Zenon DEF Claim

LEMMA RowStep == ASSUME TypeInv, SnapshotsOK, Next PROVE RowsOK' /\ \A m \in Msgs : RowFate(m)
<1> DEFINE Goal == RowsOK' /\ \A m \in Msgs : RowFate(m)
<1> USE DEF TypeInv
<1>0. ASSUME row' = row PROVE Goal
  BY <1>0 DEF RowsOK, RowOK, RowFate
<1>1. CASE Arrive \/ NextDay \/ Crash
  BY <1>0, <1>1 DEF Arrive, NextDay, Crash, table
<1>2. CASE Cleanup
  <2>1. \A m \in Msgs : row'[m] = IF Purgeable(m) THEN [NoRow EXCEPT !.status = "deleted"]
                                  ELSE row[m]
    BY <1>2 DEF Cleanup
  <2>2. RowsOK'
    BY <1>2, <2>1, NewRowsType DEF Cleanup, RowsOK, RowOK
  <2> QED
    BY <2>1, <2>2, NewRowsType DEF RowFate
<1>3. ASSUME NEW t \in Threads, ReadCursor(t) \/ Pull(t) \/ SaveFails(t) \/ SelectDue(t)
                                \/ Return(t) \/ SelectFails(t) \/ ClaimFails(t)
                                \/ \E i \in held[t] : Enqueue(t, i)
      PROVE  Goal
  BY <1>0, <1>3 DEF ReadCursor, Pull, SaveFails, SelectDue, Return, SelectFails, ClaimFails,
                    Enqueue, table
<1>4. ASSUME NEW t \in Threads, Save(t) PROVE Goal
  <2>1. \A m \in Msgs :
           row'[m] = IF page[t].from < m /\ m <= page[t].to /\ Kept(m) /\ ~Stored(m)
                     THEN PendingRow ELSE row[m]
    BY <1>4 DEF Save
  <2>2. RowsOK'
    BY <1>4, <2>1, NewRowsType DEF Save, RowsOK, RowOK
  <2>3. ASSUME NEW m \in Msgs, m <= page[t].to PROVE m <= arrived
    BY <2>3 DEF PagesOK, ThreadsOK, StreamOK, Msgs
  <2> QED
    BY <2>1, <2>2, <2>3, NewRowsType DEF RowFate
<1>5. ASSUME NEW t \in Threads, Claim(t) PROVE Goal
  <2>1. PICK c \in candidates[t] :
          \/ row' = row
          \/ row' = [row EXCEPT ![c.msg] = ClaimedRow(c.msg)] /\ Matches(t, c.msg)
    BY <1>5, ClaimEffect
  <2>2. c.msg \in Msgs /\ row[c.msg] \in Rows
    BY DEF ThreadsOK, RowsOK
  <2>3. CASE row' = [row EXCEPT ![c.msg] = ClaimedRow(c.msg)] /\ Matches(t, c.msg)
    <3>1. Open(row[c.msg].status)
      BY <2>3 DEF Matches, SnapshotsOK, Due, Open
    <3>2. RowOK(ClaimedRow(c.msg)) /\ ClaimedRow(c.msg).status = "processing"
      BY <2>2, ClaimedType
    <3>3. RowsOK' /\ row'[c.msg] = ClaimedRow(c.msg)
          /\ \A n \in Msgs : n # c.msg => row'[n] = row[n]
      BY <2>2, <2>3, <3>2, OneRow
    <3> QED
      BY <3>1, <3>2, <3>3 DEF RowFate, Open
  <2> QED
    BY <1>0, <2>1, <2>3
<1>6. ASSUME NEW i \in held[Worker], NoRoute(i) PROVE Goal
  <2>1. i \in Items /\ i.msg \in Msgs /\ i.attempts \in Nat /\ row[i.msg] \in Rows
    BY ItemFacts DEF Threads, RowsOK, RowOK
  <2> QED
    BY <1>6, <2>1, FailedType, MarkType DEF NoRoute, RowFate, Holds, Open
<1>7. ASSUME NEW batch \in SUBSET waiting, HandOver(batch) PROVE Goal
  BY <1>0, <1>7 DEF HandOver, table
<1>8. ASSUME NEW r \in runs, AgentReturns(r) \/ \E i \in r.todo : MarkFails(r, i) PROVE Goal
  BY <1>0, <1>8 DEF AgentReturns, MarkFails, table
<1>9. ASSUME NEW r \in runs, NEW i \in r.todo, MarkItem(r, i) PROVE Goal
  <2>1. i \in Items /\ i.msg \in Msgs /\ i.attempts \in Nat /\ row[i.msg] \in Rows
    BY ItemFacts DEF RowsOK, RowOK
  <2>2. PICK x : /\ RowOK(x) /\ Mark(i, x)
                 /\ \/ x.status \in {"retry", "dead_letter"}
                    \/ x.status = "succeeded" /\ x.done = day
    BY <1>9, <2>1, FailedType, SucceededType DEF MarkItem
  <2> QED
    BY <2>1, <2>2, MarkType DEF RowFate, Holds, Open
<1>10. ASSUME NEW m \in Msgs, RetryDue(m) \/ LeaseRunsOut(m) \/ Overrun(m) PROVE Goal
  <2>1. SetDue(m) /\ Open(row[m].status)
    BY <1>10 DEF RetryDue, LeaseRunsOut, Overrun, Leased, Open
  <2> QED
    BY <2>1, DueType DEF RowFate
<1>11. ASSUME NEW m \in Msgs, Replay(m) PROVE Goal
  <2> DEFINE x == [row[m] EXCEPT !.status = "pending", !.attempts = 0, !.due = TRUE, !.token = 0]
  <2>1. row' = [row EXCEPT ![m] = x] /\ row[m].status \in {"retry", "dead_letter"}
    BY <1>11 DEF Replay
  <2>2. RowOK(x) /\ x.status = "pending"
    BY DEF RowsOK, RowOK, Rows, Statuses
  <2> QED
    BY <2>1, <2>2, OneRow DEF RowFate, Open
<1> QED
  BY <1>1, <1>2, <1>3, <1>4, <1>5, <1>6, <1>7, <1>8, <1>9, <1>10, <1>11
  DEF Next, ThreadStep, AgentStep

LEMMA UntouchedSnapshots ==
    ASSUME ThreadsOK, SnapshotsOK,
           \A t \in Threads : \/ candidates'[t] = {}
                              \/ candidates'[t] \subseteq candidates[t] /\ changed'[t] = changed[t],
           \A m \in Msgs : Due(m) => row'[m] = row[m]
    PROVE  SnapshotsOK'
BY DEF SnapshotsOK, ThreadsOK, Due

LEMMA TouchedSnapshots ==
    ASSUME ThreadsOK, SnapshotsOK, NEW m \in Msgs, Touch(m),
           \A t \in Threads : candidates'[t] \subseteq candidates[t],
           \A n \in Msgs : n # m => row'[n] = row[n]
    PROVE  SnapshotsOK'
<1> SUFFICES ASSUME NEW t \in Threads, NEW c \in candidates'[t], c.msg \notin changed'[t]
             PROVE  Due(c.msg)' /\ row'[c.msg].attempts \in {c.attempts, 0}
  BY DEF SnapshotsOK, Due
<1>1. c \in candidates[t] /\ c.msg \in Msgs
  BY DEF ThreadsOK
<1>2. c.msg # m /\ c.msg \notin changed[t]
  BY <1>1 DEF Touch, Claiming
<1> QED
  BY <1>1, <1>2 DEF SnapshotsOK, Due

LEMMA SnapshotStep == ASSUME TypeInv, SnapshotsOK, Next PROVE SnapshotsOK'
<1> USE DEF TypeInv
<1>1. CASE Arrive \/ NextDay \/ Cleanup
  BY <1>1, UntouchedSnapshots DEF Arrive, NextDay, Cleanup, Purgeable, Due, table, claims
<1>2. CASE Crash
  BY <1>2 DEF Crash, SnapshotsOK
<1>3. ASSUME NEW t \in Threads, ReadCursor(t) \/ Pull(t) \/ SaveFails(t) \/ SelectFails(t)
                                \/ \E i \in held[t] : Enqueue(t, i)
      PROVE  SnapshotsOK'
  BY <1>3, UntouchedSnapshots DEF ReadCursor, Pull, SaveFails, SelectFails, Enqueue, table
<1>4. ASSUME NEW t \in Threads, Return(t) \/ ClaimFails(t) PROVE SnapshotsOK'
  <2>1. \A u \in Threads : \/ candidates'[u] = {}
                           \/ candidates'[u] \subseteq candidates[u] /\ changed'[u] = changed[u]
    <3> TAKE u \in Threads
    <3>1. CASE u = t
      <4>1. candidates'[t] = {}
        BY <1>4 DEF Return, ClaimFails, ThreadsOK
      <4> QED
        BY <3>1, <4>1
    <3>2. CASE u # t
      BY <1>4, <3>2 DEF Return, ClaimFails, ThreadsOK
    <3> QED
      BY <3>1, <3>2
  <2> QED
    BY <1>4, <2>1, UntouchedSnapshots DEF Return, ClaimFails, table
<1>5. ASSUME NEW t \in Threads, Save(t) PROVE SnapshotsOK'
  <2>1. \A m \in Msgs : Due(m) => row'[m] = row[m]
    BY <1>5 DEF Save, Due, Stored
  <2> QED
    BY <1>5, <2>1, UntouchedSnapshots DEF Save
<1>6. ASSUME NEW t \in Threads, SelectDue(t) PROVE SnapshotsOK'
  <2>1. \A c \in candidates'[t] : Due(c.msg) /\ row[c.msg].attempts \in {c.attempts, 0}
    <3> DEFINE S == {n \in Msgs : Due(n) /\ Cardinality({k \in Msgs : k < n /\ Due(k)}) < ClaimLimit}
    <3>1. candidates'[t] = {[msg |-> m, attempts |-> row[m].attempts] : m \in S}
      BY <1>6 DEF SelectDue, ThreadsOK
    <3>2. \A m \in S : Due(m)
      OBVIOUS
    <3> HIDE DEF S
    <3> QED
      BY <3>1, <3>2
  <2>2. \A u \in Threads : u # t => candidates'[u] = candidates[u] /\ changed'[u] = changed[u]
    BY <1>6 DEF SelectDue, ThreadsOK
  <2> QED
    BY <1>6, <2>1, <2>2 DEF SelectDue, SnapshotsOK, Due, table
<1>7. ASSUME NEW t \in Threads, Claim(t) PROVE SnapshotsOK'
  <2>1. PICK c \in candidates[t] :
          /\ candidates' = [candidates EXCEPT ![t] = @ \ {c}]
          /\ \/ row' = [row EXCEPT ![c.msg] = ClaimedRow(c.msg)] /\ Touch(c.msg)
             \/ row' = row /\ changed' = changed
    BY <1>7, ClaimEffect
  <2>2. c.msg \in Msgs /\ \A u \in Threads : candidates'[u] \subseteq candidates[u]
    BY <2>1 DEF ThreadsOK
  <2> QED
    BY <2>1, <2>2, UntouchedSnapshots, TouchedSnapshots DEF RowsOK
<1>8. ASSUME NEW i \in Items, NEW x, RowOK(x), Mark(i, x), candidates' = candidates
      PROVE  SnapshotsOK'
  <2>1. i.msg \in Msgs
    BY DEF Items
  <2> QED
    BY <1>8, <2>1, MarkType, UntouchedSnapshots, TouchedSnapshots
<1>9. ASSUME NEW i \in held[Worker], NoRoute(i) PROVE SnapshotsOK'
  <2>1. i \in Items /\ i.msg \in Msgs /\ i.attempts \in Nat /\ row[i.msg] \in Rows
    BY ItemFacts DEF Threads, RowsOK, RowOK
  <2> QED
    BY <1>8, <1>9, <2>1, FailedType DEF NoRoute
<1>10. ASSUME NEW batch \in SUBSET waiting, HandOver(batch) PROVE SnapshotsOK'
  BY <1>10, UntouchedSnapshots DEF HandOver, table, claims
<1>11. ASSUME NEW r \in runs, AgentReturns(r) \/ \E i \in r.todo : MarkFails(r, i) PROVE SnapshotsOK'
  BY <1>11, UntouchedSnapshots DEF AgentReturns, MarkFails, table, claims
<1>12. ASSUME NEW r \in runs, NEW i \in r.todo, MarkItem(r, i) PROVE SnapshotsOK'
  <2>1. i \in Items /\ i.msg \in Msgs /\ i.attempts \in Nat /\ row[i.msg] \in Rows
    BY ItemFacts DEF RowsOK, RowOK
  <2> QED
    BY <1>8, <1>12, <2>1, FailedType, SucceededType DEF MarkItem
<1>13. ASSUME NEW m \in Msgs, RetryDue(m) \/ LeaseRunsOut(m) \/ Overrun(m) PROVE SnapshotsOK'
  <2>1. \A n \in Msgs : Due(n) => row'[n] = row[n]
    BY <1>13, DueType DEF RetryDue, LeaseRunsOut, Overrun, Leased, Due
  <2> QED
    BY <1>13, <2>1, UntouchedSnapshots DEF RetryDue, LeaseRunsOut, Overrun, claims
\* A claim whose now is later finds the row again, at no attempts.
<1>14. ASSUME NEW m \in Msgs, Replay(m) PROVE SnapshotsOK'
  <2> SUFFICES ASSUME NEW t \in Threads, NEW c \in candidates[t], c.msg \notin changed'[t]
               PROVE  Due(c.msg)' /\ row'[c.msg].attempts \in {c.attempts, 0}
    BY <1>14 DEF SnapshotsOK, Due, Replay
  <2>1. c.msg \in Msgs
    BY DEF ThreadsOK
  <2>2. CASE c.msg = m
    BY <1>14, <2>2 DEF Replay, RowsOK, RowOK, Rows, Due
  <2>3. CASE c.msg # m
    <3>1. row'[c.msg] = row[c.msg] /\ c.msg \notin changed[t]
      BY <1>14, <2>1, <2>3 DEF Replay, RowsOK
    <3> QED
      BY <3>1 DEF SnapshotsOK, Due
  <2> QED
    BY <2>2, <2>3
<1> QED
  BY <1>1, <1>2, <1>3, <1>4, <1>5, <1>6, <1>7, <1>9, <1>10, <1>11, <1>12, <1>13, <1>14
  DEF Next, ThreadStep, AgentStep

Sound == TypeInv /\ SnapshotsOK

LEMMA SoundInit == Init => Sound
BY InitTypeInv DEF Sound, SnapshotsOK, Init

LEMMA SoundStep == ASSUME Sound, [Next]_vars PROVE Sound'
<1>1. CASE Next
  BY <1>1, RowStep, ThreadsStep, StreamStep, ItemsStep, CursorStep, SnapshotStep
  DEF Sound, TypeInv
<1>2. CASE UNCHANGED vars
  BY <1>2 DEF vars, stream, table, claims, flight, Sound, TypeInv, RowsOK, RowOK, ThreadsOK,
              StreamOK, ItemsOK, PagesOK, SnapshotsOK, Due
<1> QED
  BY <1>1, <1>2

LEMMA AlwaysSound == Spec => []Sound
BY SoundInit, SoundStep, PTL DEF Spec

\* Every reachable state is well typed; a row carries a lease token exactly while
\* it is being processed.
THEOREM InboxTypes == Spec => []TypeOK
<1>1. Sound => TypeOK
  BY TypeParts DEF Sound, TypeInv
<1> QED
  BY <1>1, AlwaysSound, PTL

------------------------------------------------------------------------------
(* Nothing is lost *)

Covered(n) == \A m \in Text : m <= n => row[m].status # "absent" \/ ~Kept(m)

\* A page starts where a cursor has been.
CoverInv ==
    /\ Covered(cursor)
    /\ \A t \in Threads : pc[t] \in {"pull", "save"} => Covered(page[t].from)

LEMMA CoverInit == Init => CoverInv
BY InboxAssumption DEF Init, CoverInv, Covered, Msgs

LEMMA ClockStep ==
    ASSUME TypeInv, Next
    PROVE  /\ day' \in Nat /\ day <= day' /\ arrived <= arrived'
           /\ \A m \in Msgs : m <= arrived => sent'[m] = sent[m]
<1> USE DEF TypeInv, StreamOK
<1>1. CASE Arrive
  BY <1>1 DEF Arrive, Msgs
<1>2. CASE NextDay
  BY <1>2 DEF NextDay
<1>3. CASE UNCHANGED stream
  BY <1>3 DEF stream
<1>4. CASE Cleanup \/ Crash
  BY <1>3, <1>4 DEF Cleanup, Crash
<1>5. ASSUME NEW t \in Threads, ReadCursor(t) \/ ThreadStep(t) \/ SaveFails(t) \/ SelectFails(t)
                                \/ ClaimFails(t)
      PROVE  UNCHANGED stream
  BY <1>5 DEF ReadCursor, ThreadStep, SaveFails, SelectFails, ClaimFails, Pull, Save, SelectDue,
              Claim, Return, Enqueue
<1>6. ASSUME NEW i, NoRoute(i) PROVE UNCHANGED stream
  BY <1>6 DEF NoRoute
<1>7. ASSUME NEW batch, HandOver(batch) PROVE UNCHANGED stream
  BY <1>7 DEF HandOver
<1>8. ASSUME NEW r, AgentStep(r) \/ \E i \in r.todo : MarkFails(r, i) PROVE UNCHANGED stream
  BY <1>8 DEF AgentStep, AgentReturns, MarkItem, MarkFails
<1>9. ASSUME NEW m, RetryDue(m) \/ LeaseRunsOut(m) \/ Overrun(m) \/ Replay(m)
      PROVE  UNCHANGED stream
  BY <1>9 DEF RetryDue, LeaseRunsOut, Overrun, Replay
<1> QED
  BY <1>1, <1>2, <1>3, <1>4, <1>5, <1>6, <1>7, <1>8, <1>9 DEF Next

\* What is covered stays covered.
LEMMA CoverStays ==
    ASSUME Sound, Next, NEW n \in 0..arrived, Covered(n) PROVE Covered(n)'
<1> SUFFICES ASSUME NEW m \in Text, m <= n
             PROVE  row'[m].status # "absent" \/ ~Kept(m)'
  BY DEF Covered, Kept
<1>1. m \in Msgs /\ m <= arrived /\ m \in Nat
  BY InboxAssumption DEF Sound, TypeInv, StreamOK, Msgs
<1>2. row[m].status # "absent" => row'[m].status # "absent"
  BY <1>1, RowStep DEF Sound, RowFate, Open
<1>3. ~Kept(m) => ~Kept(m)'
  <2>1. sent'[m] = sent[m] /\ sent[m] \in Nat /\ day \in Nat /\ day' \in Nat /\ day <= day'
    BY <1>1, ClockStep DEF Sound, TypeInv, StreamOK
  <2> QED
    BY <1>1, <2>1, InboxAssumption DEF Kept
<1> QED
  BY <1>1, <1>2, <1>3 DEF Covered

LEMMA CoverStep == ASSUME Sound, CoverInv, Next PROVE CoverInv'
<1> USE DEF Sound, TypeInv
<1>1. ASSUME NEW t \in Threads, Save(t) PROVE Covered(cursor)'
  <2>1. Covered(page[t].from)
    BY <1>1 DEF Save, CoverInv
  <2>2. page[t].to \in Nat /\ page[t].from \in Nat /\ arrived' = arrived
    BY <1>1 DEF ThreadsOK, Save, stream
  <2>3. CASE page[t].to = 0
    BY <1>1, <2>3, CoverStays DEF Save, CoverInv
  <2>4. CASE page[t].to # 0
    <3> SUFFICES ASSUME NEW m \in Text, m <= page[t].to
                 PROVE  row'[m].status # "absent" \/ ~Kept(m)'
      BY <1>1, <2>4 DEF Save, Covered, Kept
    <3>1. m \in Msgs /\ m \in Nat
      BY InboxAssumption DEF Msgs, StreamOK
    <3>2. row'[m] = IF page[t].from < m /\ Kept(m) /\ ~Stored(m) THEN PendingRow ELSE row[m]
      BY <1>1, <3>1 DEF Save
    <3>3. Kept(m)' = Kept(m)
      BY <1>1 DEF Save, stream, Kept
    <3>4. PendingRow.status # "absent"
      BY NewRowsType
    <3>5. CASE m <= page[t].from
      BY <2>1, <3>2, <3>3, <3>4, <3>5 DEF Covered
    <3>6. CASE page[t].from < m
      BY <3>2, <3>3, <3>4, <3>6 DEF Stored
    <3> QED
      BY <2>2, <3>1, <3>5, <3>6
  <2> QED
    BY <2>3, <2>4
<1>2. Covered(cursor)' \/ cursor' = cursor
  <2>1. ASSUME NEW t \in Threads, ReadCursor(t) \/ ThreadStep(t) \/ SaveFails(t)
                                  \/ SelectFails(t) \/ ClaimFails(t)
        PROVE  Covered(cursor)' \/ cursor' = cursor
    BY <1>1, <2>1 DEF ReadCursor, ThreadStep, SaveFails, SelectFails, ClaimFails, Pull, SelectDue,
                      Claim, Return, Enqueue, table
  <2>2. CASE Arrive \/ NextDay \/ Cleanup \/ Crash
    BY <2>2 DEF Arrive, NextDay, Cleanup, Crash, table
  <2>3. CASE \/ \E i \in held[Worker] : NoRoute(i)
             \/ \E batch \in SUBSET waiting : HandOver(batch)
             \/ \E r \in runs : AgentStep(r) \/ \E i \in r.todo : MarkFails(r, i)
             \/ \E m \in Msgs : RetryDue(m) \/ LeaseRunsOut(m) \/ Overrun(m) \/ Replay(m)
    BY <2>3 DEF NoRoute, HandOver, AgentStep, AgentReturns, MarkItem, MarkFails, RetryDue,
                LeaseRunsOut, Overrun, Replay, table
  <2> QED
    BY <2>1, <2>2, <2>3 DEF Next
<1>3. Covered(cursor)'
  <2>1. CASE cursor' = cursor
    <3>1. \A n \in 0..arrived : Covered(n) => Covered(n)'
      BY CoverStays
    <3> QED
      BY <2>1, <3>1 DEF CoverInv, Covered
  <2> QED
    BY <1>2, <2>1
<1>4. ASSUME NEW u \in Threads, pc'[u] \in {"pull", "save"} PROVE Covered(page[u].from)'
  <2> DEFINE From(n) == page'[u].from = n
             Kin == pc[u] \in {"pull", "save"} /\ From(page[u].from)
  <2> USE <1>4 DEF Goto
  <2>1. ASSUME NEW t \in Threads, ReadCursor(t) PROVE Kin \/ From(cursor) \/ From(0)
    BY <2>1 DEF ReadCursor, ThreadsOK
  <2>2. ASSUME NEW t \in Threads, Pull(t) PROVE Kin
    BY <2>2 DEF Pull, ThreadsOK
  <2>3. ASSUME NEW t \in Threads, Save(t) \/ SaveFails(t) PROVE Kin
    BY <2>3 DEF Save, SaveFails, ThreadsOK
  <2>4. ASSUME NEW t \in Threads, SelectDue(t) \/ Claim(t) \/ Return(t) \/ SelectFails(t)
                                  \/ ClaimFails(t) \/ \E i \in held[t] : Enqueue(t, i)
        PROVE  Kin
    BY <2>4 DEF SelectDue, Claim, Return, SelectFails, ClaimFails, Enqueue, ThreadsOK
  <2>5. ASSUME pc' = pc, page' = page PROVE Kin
    BY <2>5
  <2>6. ASSUME NEW t \in Threads, ReadCursor(t) \/ ThreadStep(t) \/ SaveFails(t)
                                  \/ SelectFails(t) \/ ClaimFails(t)
        PROVE  Kin \/ From(cursor) \/ From(0)
    <3> HIDE DEF Kin, From
    <3> QED
      BY <2>1, <2>2, <2>3, <2>4, <2>6 DEF ThreadStep
  <2>7. Kin \/ From(cursor) \/ From(0)
    <3>1. CASE Crash
      BY <1>4, <3>1 DEF Crash
    <3>2. CASE Arrive \/ NextDay \/ Cleanup
      BY <2>5, <3>2 DEF Arrive, NextDay, Cleanup, claims
    <3>3. ASSUME NEW i, NoRoute(i) PROVE Kin
      BY <2>5, <3>3 DEF NoRoute
    <3>4. ASSUME NEW batch, HandOver(batch) PROVE Kin
      BY <2>5, <3>4 DEF HandOver, claims
    <3>5. ASSUME NEW x, AgentStep(x) \/ \E i \in x.todo : MarkFails(x, i) PROVE Kin
      BY <2>5, <3>5 DEF AgentStep, AgentReturns, MarkItem, MarkFails, claims
    <3>6. ASSUME NEW m, RetryDue(m) \/ LeaseRunsOut(m) \/ Overrun(m) \/ Replay(m) PROVE Kin
      BY <2>5, <3>6 DEF RetryDue, LeaseRunsOut, Overrun, Replay, claims
    <3> HIDE DEF Kin, From
    <3> QED
      BY <2>6, <3>1, <3>2, <3>3, <3>4, <3>5, <3>6 DEF Next
  <2>8. PICK n \in 0..arrived : page'[u].from = n /\ Covered(n)
    <3>1. cursor \in 0..arrived /\ page[u].from \in 0..arrived /\ 0 \in 0..arrived
      BY DEF PagesOK, ThreadsOK, StreamOK
    <3>2. Covered(0)
      BY InboxAssumption DEF Covered, Msgs
    <3> QED
      BY <2>7, <3>1, <3>2 DEF CoverInv
  <2>9. Covered(n)'
    BY <2>8, CoverStays
  <2> QED
    BY <2>8, <2>9 DEF Covered
<1> QED
  BY <1>3, <1>4 DEF CoverInv

\* Whatever fails or crashes, and however callbacks overtake each other: a customer
\* text the cursor has passed is in the inbox, or was older than the window.
THEOREM NothingIsLost == Spec => []NothingLost
<1>1. Sound /\ CoverInv /\ [Next]_vars => CoverInv'
  <2>1. Sound /\ CoverInv /\ UNCHANGED vars => CoverInv'
    BY DEF vars, stream, table, claims, CoverInv, Covered, Kept
  <2> QED
    BY <2>1, CoverStep
<1>2. CoverInv => NothingLost
  BY DEF CoverInv, Covered, NothingLost
<1> QED
  BY <1>1, <1>2, CoverInit, AlwaysSound, PTL DEF Spec

------------------------------------------------------------------------------
(* What is done stays done *)

\* A succeeded message was sent before it was done; a deleted one is out of the
\* window for good.
DoneInv ==
    \A m \in Msgs :
        /\ Stored(m) => m <= arrived
        /\ m <= arrived => sent[m] <= day
        /\ row[m].status = "succeeded" => sent[m] <= row[m].done
        /\ row[m].status = "deleted" => m <= arrived /\ sent[m] + Retention < day

LEMMA DoneInit == Init => DoneInv
BY DEF Init, DoneInv, Stored, NoRow, Msgs

LEMMA DoneStep == ASSUME Sound, DoneInv, Next PROVE DoneInv'
<1> USE DEF Sound, TypeInv
<1> SUFFICES ASSUME NEW m \in Msgs
             PROVE  /\ Stored(m)' => m <= arrived'
                    /\ m <= arrived' => sent'[m] <= day'
                    /\ row'[m].status = "succeeded" => sent'[m] <= row'[m].done
                    /\ row'[m].status = "deleted" => m <= arrived' /\ sent'[m] + Retention < day'
  BY DEF DoneInv, Stored
<1>1. /\ m \in Nat /\ arrived \in Nat /\ arrived' \in Nat /\ day \in Nat /\ day' \in Nat
      /\ sent[m] \in Nat /\ sent'[m] \in Nat /\ day <= day' /\ arrived <= arrived'
      /\ row[m].done \in Nat /\ Retention \in Nat
      /\ m <= arrived => sent'[m] = sent[m]
  <2>1. m \in Nat /\ Retention \in Nat
    BY InboxAssumption DEF Msgs
  <2>2. sent[m] \in Nat /\ sent'[m] \in Nat /\ arrived \in Nat /\ arrived' \in Nat
    BY StreamStep, InboxAssumption DEF StreamOK
  <2>3. row[m].done \in Nat
    BY DEF RowsOK, RowOK, Rows
  <2> QED
    BY <2>1, <2>2, <2>3, ClockStep DEF StreamOK
<1>2. RowFate(m)
  BY RowStep
<1>3. m <= arrived' /\ ~(m <= arrived) => sent'[m] <= day'
  <2>1. CASE Arrive
    BY <1>1, <2>1 DEF Arrive, StreamOK
  <2>2. CASE ~Arrive
    <3>1. arrived' = arrived
      BY <2>2 DEF Next, NextDay, Cleanup, Crash, ReadCursor, ThreadStep, SaveFails, SelectFails,
                  ClaimFails, Pull, Save, SelectDue, Claim, Return, Enqueue, NoRoute, HandOver,
                  AgentStep, AgentReturns, MarkItem, MarkFails, RetryDue, LeaseRunsOut, Overrun,
                  Replay, stream
    <3> QED
      BY <3>1
  <2> QED
    BY <2>1, <2>2
<1>4. /\ Stored(m) => m <= arrived
      /\ m <= arrived => sent[m] <= day
      /\ row[m].status = "succeeded" => sent[m] <= row[m].done
      /\ row[m].status = "deleted" => m <= arrived /\ sent[m] + Retention < day
  BY DEF DoneInv
<1>5. m <= arrived' => sent'[m] <= day'
  BY <1>1, <1>3, <1>4
<1>6. CASE row'[m] = row[m]
  BY <1>1, <1>4, <1>5, <1>6 DEF Stored
<1>7. CASE row'[m] # row[m]
  <2>1. CASE row'[m].status = "pending" \/ Open(row'[m].status)
    BY <1>1, <1>2, <1>4, <1>5, <1>7, <2>1 DEF RowFate, Open, Stored, Purgeable
  <2>2. CASE row'[m].status = "succeeded"
    BY <1>1, <1>2, <1>4, <1>5, <1>7, <2>2 DEF RowFate, Open, Stored, Purgeable
  <2>3. CASE row'[m].status = "deleted"
    BY <1>1, <1>2, <1>4, <1>5, <1>7, <2>3 DEF RowFate, Open, Stored, Purgeable
  <2> QED
    BY <1>2, <1>7, <2>1, <2>2, <2>3 DEF RowFate
<1> QED
  BY <1>6, <1>7

\* No re-reading of the stream, expired lease, replay or late mark takes up a
\* message that has been answered with success, because rows are kept longer than
\* the window of the stream (Window <= Retention).
THEOREM DoneIsFinal == Spec => DoneStaysDone
<1> DEFINE Step == \A m \in Msgs : row[m].status \in {"succeeded", "deleted"} =>
                       row'[m].status \in {"succeeded", "deleted"}
<1>1. Sound /\ DoneInv /\ [Next]_vars => DoneInv'
  <2>1. DoneInv /\ UNCHANGED vars => DoneInv'
    BY DEF vars, stream, table, DoneInv, Stored
  <2> QED
    BY <2>1, DoneStep
<1>2. Sound /\ DoneInv /\ [Next]_vars => [Step]_vars
  <2> SUFFICES ASSUME Sound, DoneInv, Next, NEW m \in Msgs,
                      row[m].status \in {"succeeded", "deleted"}
               PROVE  row'[m].status \in {"succeeded", "deleted"}
    OBVIOUS
  <2>1. RowFate(m)
    BY RowStep DEF Sound
  <2>2. row[m].status = "deleted" => ~Kept(m)
    BY InboxAssumption DEF DoneInv, Kept, Sound, TypeInv, StreamOK
  <2> QED
    BY <2>1, <2>2 DEF RowFate, Open, Stored
<1> QED
  BY <1>1, <1>2, DoneInit, AlwaysSound, PTL DEF Spec, DoneStaysDone

------------------------------------------------------------------------------
(* A lease protects its holder *)

\* An item is in one place.
OnePlace ==
    /\ \A t \in Threads : \A i \in held[t] :
          /\ i \notin waiting
          /\ \A u \in Threads : i \in held[u] => u = t
          /\ \A r \in runs : i \notin r.todo
    /\ \A i \in waiting : \A r \in runs : i \notin r.todo
    /\ \A r, s \in runs : \A i \in r.todo : i \in s.todo => r = s

\* A token is minted once, for one item.
OneItem ==
    /\ \A i \in Alive : i.token <= minted[i.msg]
    /\ \A i, j \in Alive : i.msg = j.msg /\ i.token = j.token => i = j

HolderInv == OnePlace /\ OneItem /\ HolderKeepsRow

LEMMA HolderInit == Init => HolderInv
<1> SUFFICES ASSUME Init PROVE HolderInv
  OBVIOUS
<1>1. \A i : i \notin Alive
  BY AliveItems DEF Init
<1> QED
  BY <1>1 DEF Init, HolderInv, OnePlace, OneItem, HolderKeepsRow

\* The item a successful claim makes.
NewItem(c) == [msg |-> c.msg, token |-> minted[c.msg] + 1, attempts |-> c.attempts + 1]

LEMMA ClaimPlaces ==
    ASSUME Sound, OnePlace, OneItem, NEW t \in Threads, Claim(t)
    PROVE  /\ OnePlace' /\ OneItem'
           /\ \/ Alive' = Alive /\ row' = row
              \/ \E c \in candidates[t] : /\ Alive' = Alive \cup {NewItem(c)}
                                          /\ Matches(t, c.msg)
                                          /\ row' = [row EXCEPT ![c.msg] = ClaimedRow(c.msg)]
<1> USE DEF Sound, TypeInv
<1>1. PICK c \in candidates[t] :
        \/ /\ Matches(t, c.msg)
           /\ row' = [row EXCEPT ![c.msg] = ClaimedRow(c.msg)]
           /\ minted' = [minted EXCEPT ![c.msg] = @ + 1]
           /\ held' = [held EXCEPT ![t] = @ \cup {NewItem(c)}]
        \/ row' = row /\ minted' = minted /\ held' = held
  BY ClaimEffect DEF NewItem
<1>2. waiting' = waiting /\ runs' = runs
  BY DEF Claim, flight
<1>3. CASE row' = row /\ minted' = minted /\ held' = held
  <2>1. Alive' = Alive
    BY <1>2, <1>3 DEF Alive
  <2> QED
    BY <1>2, <1>3, <2>1 DEF OnePlace, OneItem
<1>4. CASE /\ Matches(t, c.msg)
           /\ row' = [row EXCEPT ![c.msg] = ClaimedRow(c.msg)]
           /\ minted' = [minted EXCEPT ![c.msg] = @ + 1]
           /\ held' = [held EXCEPT ![t] = @ \cup {NewItem(c)}]
  <2> DEFINE new == NewItem(c)
  <2>1. /\ c.msg \in Msgs /\ minted[c.msg] \in Nat
        /\ new.msg = c.msg /\ new.token = minted[c.msg] + 1
        /\ minted'[c.msg] = minted[c.msg] + 1
        /\ \A m \in Msgs : m # c.msg => minted'[m] = minted[m]
    BY <1>4 DEF NewItem, ThreadsOK, ItemsOK
  <2>2. held'[t] = held[t] \cup {new} /\ \A u \in Threads : u # t => held'[u] = held[u]
    BY <1>4 DEF ItemsOK
  <2>3. \A i : i \in Alive' <=> i \in Alive \/ i = new
    BY <1>2, <2>2, AliveItems, AliveItemsNext
  <2>4. \A i \in Alive : i.msg \in Msgs /\ i.token \in Nat /\ i.token <= minted[i.msg]
    BY AliveItems, ItemFacts DEF OneItem, ItemsOK
  <2>5. new \notin Alive
    BY <2>1, <2>4
  <2> HIDE DEF new
  <2>6. OnePlace'
    <3>1. (\A u \in Threads : new \notin held[u]) /\ new \notin waiting /\ \A r \in runs : new \notin r.todo
      BY <2>5, AliveItems
    <3> QED
      BY <1>2, <2>2, <3>1 DEF OnePlace
  <2>7. OneItem'
    <3>1. ASSUME NEW i \in Alive PROVE i.token <= minted'[i.msg]
      <4>1. i.msg \in Msgs /\ i.token \in Nat /\ i.token <= minted[i.msg]
        BY <2>4
      <4> QED
        BY <2>1, <4>1
    <3>2. ASSUME NEW i \in Alive, i.msg = new.msg PROVE i.token # new.token
      BY <2>1, <2>4, <3>2
    <3> QED
      BY <2>1, <2>3, <3>1, <3>2 DEF OneItem
  <2>8. Alive' = Alive \cup {new}
    BY <2>3
  <2> QED
    BY <1>4, <2>6, <2>7, <2>8 DEF new
<1> QED
  BY <1>1, <1>3, <1>4

\* Every other step moves items or drops them.
LEMMA MovePlaces ==
    ASSUME Sound, OnePlace, OneItem, Next, \A t \in Threads : ~Claim(t)
    PROVE  OnePlace' /\ Alive' \subseteq Alive /\ minted' = minted
<1> USE DEF Sound, TypeInv
<1>1. ASSUME held' = held, waiting' = waiting, runs' = runs
      PROVE  OnePlace' /\ Alive' \subseteq Alive
  BY <1>1 DEF OnePlace, Alive
<1>2. CASE Arrive \/ NextDay \/ Cleanup
  BY <1>1, <1>2 DEF Arrive, NextDay, Cleanup, table, claims, flight
<1>3. CASE Crash
  <2>1. \A i : i \notin Alive'
    BY <1>3, AliveItemsNext DEF Crash
  <2> QED
    BY <1>3, <2>1 DEF Crash, OnePlace, table
<1>4. ASSUME NEW t \in Threads, ReadCursor(t) \/ Pull(t) \/ Save(t) \/ SaveFails(t)
                                \/ SelectDue(t) \/ Return(t) \/ SelectFails(t)
      PROVE  OnePlace' /\ Alive' \subseteq Alive /\ minted' = minted
  BY <1>1, <1>4 DEF ReadCursor, Pull, Save, SaveFails, SelectDue, Return, SelectFails, table, flight
<1>5. ASSUME NEW t \in Threads, ClaimFails(t)
      PROVE  OnePlace' /\ Alive' \subseteq Alive /\ minted' = minted
  <2>1. held'[t] = {} /\ \A u \in Threads : u # t => held'[u] = held[u]
    BY <1>5 DEF ClaimFails, ItemsOK
  <2>2. waiting' = waiting /\ runs' = runs /\ minted' = minted
    BY <1>5 DEF ClaimFails, table, flight
  <2>3. \A i : i \in Alive' => i \in Alive
    BY <2>1, <2>2, AliveItems, AliveItemsNext
  <2> QED
    BY <2>1, <2>2, <2>3 DEF OnePlace
<1>6. ASSUME NEW t \in Threads, NEW i \in held[t], Enqueue(t, i)
      PROVE  OnePlace' /\ Alive' \subseteq Alive /\ minted' = minted
  <2>1. held'[t] = held[t] \ {i} /\ \A u \in Threads : u # t => held'[u] = held[u]
    BY <1>6 DEF Enqueue, ItemsOK
  <2>2. waiting' = waiting \cup {i} /\ runs' = runs /\ minted' = minted
    BY <1>6 DEF Enqueue, table
  <2>3. \A j : j \in Alive' => j \in Alive
    BY <2>1, <2>2, AliveItems, AliveItemsNext
  <2> QED
    BY <2>1, <2>2, <2>3 DEF OnePlace
<1>7. ASSUME NEW i \in held[Worker], NoRoute(i)
      PROVE  OnePlace' /\ Alive' \subseteq Alive /\ minted' = minted
  <2>1. held'[Worker] = held[Worker] \ {i} /\ \A u \in Threads : u # Worker => held'[u] = held[u]
    BY <1>7 DEF NoRoute, ItemsOK, Threads
  <2>2. waiting' = waiting /\ runs' = runs /\ minted' = minted
    BY <1>7 DEF NoRoute, flight
  <2>3. \A j : j \in Alive' => j \in Alive
    BY <2>1, <2>2, AliveItems, AliveItemsNext
  <2> QED
    BY <2>1, <2>2, <2>3 DEF OnePlace, Threads
<1>8. ASSUME NEW b \in SUBSET waiting, HandOver(b)
      PROVE  OnePlace' /\ Alive' \subseteq Alive /\ minted' = minted
  <2> DEFINE run == [todo |-> b, result |-> "none"]
  <2>1. waiting' = waiting \ b /\ runs' = runs \cup {run} /\ run.todo = b
        /\ held' = held /\ minted' = minted
    BY <1>8 DEF HandOver, table, claims
  <2> HIDE DEF run
  <2>2. \A j : j \in Alive' => j \in Alive
    BY <2>1, AliveItems, AliveItemsNext
  <2>3. \A r \in runs : r.todo \cap b = {}
    BY DEF OnePlace
  <2> QED
    BY <2>1, <2>2, <2>3 DEF OnePlace
<1>9. ASSUME NEW r \in runs, NEW q, q.todo \subseteq r.todo,
             runs' = (runs \ {r}) \cup {q} \/ runs' = runs \ {r},
             held' = held, waiting' = waiting
      PROVE  OnePlace' /\ Alive' \subseteq Alive
  <2>1. \A j : j \in Alive' => j \in Alive
    BY <1>9, AliveItems, AliveItemsNext
  <2>2. \A s \in runs : s # r => s.todo \cap q.todo = {}
    BY <1>9 DEF OnePlace
  <2> QED
    BY <1>9, <2>1, <2>2 DEF OnePlace
<1>10. ASSUME NEW r \in runs, AgentReturns(r)
       PROVE  OnePlace' /\ Alive' \subseteq Alive /\ minted' = minted
  <2>1. PICK result \in {"ok", "error"} :
          runs' = (runs \ {r}) \cup {[r EXCEPT !.result = result]}
    BY <1>10 DEF AgentReturns
  <2>2. [r EXCEPT !.result = result].todo = r.todo
    BY DEF ItemsOK
  <2>3. held' = held /\ waiting' = waiting /\ minted' = minted
    BY <1>10 DEF AgentReturns, table, claims
  <2> QED
    BY <1>9, <2>1, <2>2, <2>3
<1>11. ASSUME NEW r \in runs, NEW i \in r.todo, MarkItem(r, i) \/ MarkFails(r, i)
       PROVE  OnePlace' /\ Alive' \subseteq Alive /\ minted' = minted
  <2> DEFINE q == [r EXCEPT !.todo = @ \ {i}]
  <2>1. runs' = (runs \ {r}) \cup {q} \/ runs' = runs \ {r}
    BY <1>11 DEF MarkItem, MarkFails, Marked
  <2>2. q.todo \subseteq r.todo
    BY DEF ItemsOK
  <2>3. held' = held /\ waiting' = waiting /\ minted' = minted
    BY <1>11 DEF MarkItem, MarkFails, table, claims
  <2> HIDE DEF q
  <2> QED
    BY <1>9, <2>1, <2>2, <2>3
<1>12. ASSUME NEW m, RetryDue(m) \/ LeaseRunsOut(m) \/ Overrun(m) \/ Replay(m)
       PROVE  OnePlace' /\ Alive' \subseteq Alive /\ minted' = minted
  BY <1>1, <1>12 DEF RetryDue, LeaseRunsOut, Overrun, Replay, claims, flight
<1> QED
  BY <1>2, <1>3, <1>4, <1>5, <1>6, <1>7, <1>8, <1>10, <1>11, <1>12 DEF Next, ThreadStep, AgentStep

\* The marked item is the only one that holds its row, and it is gone.
LEMMA MarkHolder ==
    ASSUME Sound, HolderInv, NEW i \in Alive, NEW x, RowOK(x), Mark(i, x),
           Alive' \subseteq Alive, i \notin Alive', late' = late
    PROVE  HolderKeepsRow'
<1> USE DEF HolderInv
<1>1. i \in Items /\ i.msg \in Msgs
  BY AliveItems, ItemFacts DEF Sound, TypeInv, ItemsOK
<1>2. SUFFICES ASSUME NEW j \in Alive', j \notin late
               PROVE  row'[j.msg] = row[j.msg]
  BY DEF HolderKeepsRow, Leased
<1>3. j \in Alive /\ j.msg \in Msgs /\ row[j.msg].token = j.token
  BY <1>2, AliveItems, ItemFacts DEF Sound, TypeInv, ItemsOK, HolderKeepsRow
<1>4. Holds(i) => j.msg # i.msg
  <2> SUFFICES ASSUME Holds(i), j.msg = i.msg PROVE FALSE
    OBVIOUS
  <2>1. j.token = i.token
    BY <1>3 DEF Holds
  <2> QED
    BY <1>2, <1>3, <2>1 DEF OneItem
<1> QED
  BY <1>1, <1>3, <1>4, MarkType DEF Sound, TypeInv

LEMMA HolderStep == ASSUME Sound, HolderInv, Next PROVE HolderKeepsRow'
<1> USE DEF HolderInv
<1>1. ASSUME Alive' \subseteq Alive, late' = late,
             \A m \in Msgs : row[m].status = "processing" => row'[m] = row[m]
      PROVE  HolderKeepsRow'
  <2> SUFFICES ASSUME NEW i \in Alive', i \notin late PROVE row'[i.msg] = row[i.msg]
    BY <1>1 DEF HolderKeepsRow, Leased
  <2>1. i \in Alive /\ i.msg \in Msgs
    BY <1>1, AliveItems, ItemFacts DEF Sound, TypeInv, ItemsOK
  <2> QED
    BY <1>1, <2>1 DEF HolderKeepsRow, Leased
<1>2. ASSUME NEW t \in Threads, Claim(t) PROVE HolderKeepsRow'
  <2>1. late' = late
    BY <1>2 DEF Claim
  <2>2. CASE Alive' = Alive /\ row' = row
    BY <2>1, <2>2 DEF HolderKeepsRow, Leased
  <2>3. ASSUME NEW c \in candidates[t], Alive' = Alive \cup {NewItem(c)}, Matches(t, c.msg),
               row' = [row EXCEPT ![c.msg] = ClaimedRow(c.msg)]
        PROVE  HolderKeepsRow'
    <3>1. /\ c.msg \in Msgs /\ row[c.msg] \in Rows
          /\ Due(c.msg) /\ row[c.msg].attempts \in {c.attempts, 0}
      BY <2>3 DEF Sound, TypeInv, ThreadsOK, RowsOK, SnapshotsOK, Matches
    <3>2. /\ row'[c.msg] = ClaimedRow(c.msg)
          /\ \A n \in Msgs : n # c.msg => row'[n] = row[n]
      BY <2>3, <3>1 DEF Sound, TypeInv, RowsOK
    <3>3. /\ NewItem(c).msg = c.msg /\ NewItem(c).token = minted[c.msg] + 1
          /\ row[c.msg].attempts + 1 \in {NewItem(c).attempts, 1}
      BY <3>1 DEF NewItem
    <3>4. Leased(c.msg)' /\ row'[c.msg].token = NewItem(c).token
          /\ row'[c.msg].attempts \in {NewItem(c).attempts, 1}
      BY <3>1, <3>2, <3>3, ClaimedType DEF Leased, Sound, TypeInv
    <3>5. ASSUME NEW i \in Alive, i \notin late PROVE row'[i.msg] = row[i.msg]
      <4>1. i.msg \in Msgs /\ Leased(i.msg)
        BY <3>5, AliveItems, ItemFacts DEF Sound, TypeInv, ItemsOK, HolderKeepsRow
      <4> QED
        BY <3>1, <3>2, <4>1 DEF Leased, Due
    <3> QED
      BY <2>1, <2>3, <3>3, <3>4, <3>5 DEF HolderKeepsRow, Leased
  <2> QED
    BY <1>2, <2>2, <2>3, ClaimPlaces
<1>3. CASE Crash
  <2>1. \A i : i \notin Alive'
    BY <1>3, AliveItemsNext DEF Crash
  <2> QED
    BY <2>1 DEF HolderKeepsRow
<1>4. CASE Arrive \/ NextDay \/ Cleanup
  <2>1. Alive' = Alive /\ late' = late
    BY <1>4 DEF Arrive, NextDay, Cleanup, Alive, claims, flight
  <2>2. \A m \in Msgs : row[m].status = "processing" => row'[m] = row[m]
    BY <1>4 DEF Arrive, NextDay, Cleanup, Purgeable, table
  <2> QED
    BY <1>1, <2>1, <2>2
<1>5. SUFFICES ASSUME \A t \in Threads : ~Claim(t) PROVE HolderKeepsRow'
  BY <1>2
<1>6. Alive' \subseteq Alive
  BY <1>5, MovePlaces
<1>7. ASSUME NEW t \in Threads,
             \/ ReadCursor(t) \/ Pull(t) \/ Save(t) \/ SaveFails(t) \/ SelectDue(t) \/ Return(t)
             \/ SelectFails(t) \/ ClaimFails(t) \/ \E i \in held[t] : Enqueue(t, i)
      PROVE  HolderKeepsRow'
  <2>1. late' = late
    BY <1>7 DEF ReadCursor, Pull, Save, SaveFails, SelectDue, Return, SelectFails, ClaimFails,
                Enqueue
  <2>2. \A m \in Msgs : row[m].status = "processing" => row'[m] = row[m]
    BY <1>7 DEF ReadCursor, Pull, Save, SaveFails, SelectDue, Return, SelectFails, ClaimFails,
                Enqueue, Stored, table
  <2> QED
    BY <1>1, <1>6, <2>1, <2>2
<1>8. ASSUME NEW i \in held[Worker], NoRoute(i) PROVE HolderKeepsRow'
  <2>1. i \in Alive /\ i \in Items /\ i.msg \in Msgs /\ i.attempts \in Nat /\ row[i.msg] \in Rows
    BY AliveItems, ItemFacts DEF Threads, Sound, TypeInv, RowsOK
  <2>2. i \notin Alive'
    <3>1. \A t \in Threads : i \notin held'[t]
      BY <1>8 DEF NoRoute, OnePlace, Sound, TypeInv, ItemsOK, Threads
    <3>2. i \notin waiting' /\ \A r \in runs' : i \notin r.todo
      BY <1>8 DEF NoRoute, OnePlace, flight, Threads
    <3> QED
      BY <3>1, <3>2, AliveItemsNext
  <2>3. RowOK(FailedRow(i.msg, i.attempts))
    BY <2>1, FailedType
  <2> QED
    BY <1>6, <1>8, <2>1, <2>2, <2>3, MarkHolder DEF NoRoute
<1>9. ASSUME NEW batch, HandOver(batch) PROVE HolderKeepsRow'
  BY <1>1, <1>6, <1>9 DEF HandOver, table
<1>10. ASSUME NEW r, AgentReturns(r) \/ \E i \in r.todo : MarkFails(r, i) PROVE HolderKeepsRow'
  BY <1>1, <1>6, <1>10 DEF AgentReturns, MarkFails, table
<1>11. ASSUME NEW r \in runs, NEW i \in r.todo, MarkItem(r, i) PROVE HolderKeepsRow'
  <2>1. i \in Alive /\ i \in Items /\ i.msg \in Msgs /\ i.attempts \in Nat /\ row[i.msg] \in Rows
    BY AliveItems, ItemFacts DEF Sound, TypeInv, RowsOK
  <2>2. i \notin Alive'
    <3>1. \A t \in Threads : i \notin held'[t]
      BY <1>11 DEF MarkItem, OnePlace
    <3>2. i \notin waiting'
      BY <1>11 DEF MarkItem, OnePlace
    <3>3. \A s \in runs' : i \notin s.todo
      <4>1. [r EXCEPT !.todo = @ \ {i}].todo = r.todo \ {i}
        BY DEF Sound, TypeInv, ItemsOK
      <4>2. \A s \in runs : s # r => i \notin s.todo
        BY DEF OnePlace
      <4> QED
        BY <1>11, <4>1, <4>2 DEF MarkItem, Marked
    <3> QED
      BY <3>1, <3>2, <3>3, AliveItemsNext
  <2>3. PICK x : RowOK(x) /\ Mark(i, x)
    BY <1>11, <2>1, FailedType, SucceededType DEF MarkItem, Sound, TypeInv
  <2>4. late' = late
    BY <1>11 DEF MarkItem
  <2> QED
    BY <1>6, <2>1, <2>2, <2>3, <2>4, MarkHolder
<1>12. ASSUME NEW m \in Msgs, RetryDue(m) \/ Replay(m) PROVE HolderKeepsRow'
  <2>1. late' = late
    BY <1>12 DEF RetryDue, Replay
  <2>2. \A n \in Msgs : row[n].status = "processing" => row'[n] = row[n]
    BY <1>12 DEF RetryDue, Replay, SetDue, Sound, TypeInv, RowsOK
  <2> QED
    BY <1>1, <1>6, <2>1, <2>2
\* A lease that runs out has no bearer, or its bearers become late.
<1>13. ASSUME NEW m \in Msgs, LeaseRunsOut(m) \/ Overrun(m) PROVE HolderKeepsRow'
  <2> SUFFICES ASSUME NEW i \in Alive', i \notin late' PROVE row'[i.msg] = row[i.msg] /\ i \notin late
    BY <1>6 DEF HolderKeepsRow, Leased
  <2>1. i \in Alive /\ i.msg \in Msgs /\ i \notin late
    BY <1>6, <1>13, AliveItems, ItemFacts DEF LeaseRunsOut, Overrun, Sound, TypeInv, ItemsOK
  <2>2. i.msg # m
    <3>1. i.msg = m => i \in Bearers(m)
      BY <2>1 DEF Bearers, HolderKeepsRow
    <3> QED
      BY <1>13, <3>1 DEF LeaseRunsOut, Overrun
  <2> QED
    BY <1>13, <2>1, <2>2 DEF LeaseRunsOut, Overrun, SetDue, Sound, TypeInv, RowsOK
<1> QED
  BY <1>3, <1>4, <1>5, <1>7, <1>8, <1>9, <1>10, <1>11, <1>12, <1>13 DEF Next, ThreadStep, AgentStep

LEMMA ItemStep == ASSUME Sound, HolderInv, Next PROVE OnePlace' /\ OneItem'
<1> USE DEF HolderInv
<1>1. ASSUME NEW t \in Threads, Claim(t) PROVE OnePlace' /\ OneItem'
  BY <1>1, ClaimPlaces
<1>2. CASE \A t \in Threads : ~Claim(t)
  BY <1>2, MovePlaces DEF OneItem
<1> QED
  BY <1>1, <1>2

\* Leases work, for any number of messages, callbacks, crashes and replays: a
\* goroutine within its lease owns the row of its message, so that no two of them
\* ever work on one message.  It knows the count of attempts, or the message was
\* replayed while it was being claimed.
THEOREM HoldersKeepTheirRows == Spec => []HolderKeepsRow
<1>1. Sound /\ HolderInv /\ [Next]_vars => HolderInv'
  <2>1. HolderInv /\ UNCHANGED vars => HolderInv'
    BY DEF vars, table, claims, flight, HolderInv, OnePlace, OneItem, HolderKeepsRow, Alive, Leased
  <2>2. Sound /\ HolderInv /\ Next => HolderInv'
    BY HolderStep, ItemStep DEF HolderInv
  <2> QED
    BY <2>1, <2>2
<1>2. HolderInv => HolderKeepsRow
  BY DEF HolderInv
<1> QED
  BY <1>1, <1>2, HolderInit, AlwaysSound, PTL DEF Spec

------------------------------------------------------------------------------
(* Lists *)

Members(q) == {q[i] : i \in 1..Len(q)}
Distinct(q) == \A i, j \in 1..Len(q) : q[i] = q[j] => i = j

\* The words of the standard modules mean the same in the instances.
LEMMA LimitSame ==
    /\ \A q : q \in Seq(Members(q)) => Limit!ToSet(q) = Members(q)
    /\ \A S : (Limit!IsFiniteSet(S) <=> IsFiniteSet(S)) /\ Limit!Cardinality(S) = Cardinality(S)
<1>1. \A q : q \in Seq(Members(q)) => Limit!ToSet(q) = Members(q)
  BY DEF Limit!ToSet, Members
<1>2. \A S : Limit!IsFiniteSet(S) <=> IsFiniteSet(S)
  BY DEF Limit!IsFiniteSet, IsFiniteSet
<1>3. \A S : Limit!Cardinality(S) = Cardinality(S)
  BY DEF Limit!Cardinality, Cardinality
<1> QED
  BY <1>1, <1>2, <1>3

LEMMA InMembers ==
    ASSUME NEW S, NEW q \in Seq(S)
    PROVE  /\ Limit!ToSet(q) = Members(q) /\ Members(q) \subseteq S /\ q \in Seq(Members(q))
           /\ Len(q) \in Nat /\ \A i \in 1..Len(q) : q[i] \in Members(q)
<1>1. \A i \in 1..Len(q) : q[i] \in S
  BY ElementOfSeq
<1>2. DOMAIN q = 1..Len(q) /\ Len(q) \in Nat
  BY LenProperties
<1>3. Limit!ToSet(q) = Members(q) /\ Members(q) \subseteq S
  BY <1>1, <1>2 DEF Limit!ToSet, Members
<1>4. \A i \in 1..Len(q) : q[i] \in Members(q)
  BY DEF Members
<1>5. q \in Seq(Members(q))
  BY <1>2, <1>4
<1> QED
  BY <1>2, <1>3, <1>4, <1>5

\* An element that is put in front.
LEMMA PutInFront ==
    ASSUME NEW S, NEW q \in Seq(S), NEW x \in S
    PROVE  /\ <<x>> \o q \in Seq(S) /\ Len(<<x>> \o q) = Len(q) + 1 /\ (<<x>> \o q)[1] = x
           /\ \A i \in 1..Len(q) + 1 : (<<x>> \o q)[i] = IF i = 1 THEN x ELSE q[i - 1]
           /\ Members(<<x>> \o q) = Members(q) \cup {x}
           /\ Distinct(q) /\ x \notin Members(q) => Distinct(<<x>> \o q)
<1> DEFINE r == <<x>> \o q
<1>1. r \in Seq(S) /\ Len(r) = Len(q) + 1 /\ Len(q) \in Nat
  BY ConcatProperties
<1>2. \A i \in 1..Len(q) + 1 : r[i] = IF i = 1 THEN x ELSE q[i - 1]
  BY <1>1, ConcatProperties
<1> HIDE DEF r
<1>3. Members(r) = Members(q) \cup {x}
  <2>1. ASSUME NEW y \in Members(r) PROVE y \in Members(q) \cup {x}
    BY <1>1, <1>2 DEF Members
  <2>2. ASSUME NEW i \in 1..Len(q) PROVE q[i] \in Members(r)
    <3>1. i + 1 \in 1..Len(r) /\ r[i + 1] = q[i]
      BY <1>1, <1>2
    <3> QED
      BY <3>1 DEF Members
  <2>3. x \in Members(r)
    BY <1>1, <1>2 DEF Members
  <2> QED
    BY <2>1, <2>2, <2>3 DEF Members
<1>4. ASSUME Distinct(q), x \notin Members(q) PROVE Distinct(r)
  <2> SUFFICES ASSUME NEW i \in 1..Len(r), NEW j \in 1..Len(r), r[i] = r[j] PROVE i = j
    BY DEF Distinct
  <2>1. ASSUME NEW k \in 1..Len(r), k # 1 PROVE k - 1 \in 1..Len(q) /\ r[k] = q[k - 1] /\ r[k] # x
    <3>1. k - 1 \in 1..Len(q) /\ r[k] = q[k - 1]
      BY <1>1, <1>2, <2>1
    <3>2. q[k - 1] \in Members(q)
      BY <3>1 DEF Members
    <3> QED
      BY <1>4, <3>1, <3>2
  <2>2. r[1] = x
    BY <1>1, <1>2
  <2>3. CASE i = 1
    BY <2>1, <2>2, <2>3
  <2>4. CASE j = 1
    BY <2>1, <2>2, <2>4
  <2>5. CASE i # 1 /\ j # 1
    <3>1. i - 1 \in 1..Len(q) /\ j - 1 \in 1..Len(q) /\ q[i - 1] = q[j - 1]
      BY <2>1, <2>5
    <3>2. i - 1 = j - 1
      BY <1>4, <3>1 DEF Distinct
    <3> QED
      BY <1>1, <3>2
  <2> QED
    BY <2>3, <2>4, <2>5
<1> QED
  BY <1>1, <1>2, <1>3, <1>4 DEF r

\* An element that is put behind.
LEMMA PutBehind ==
    ASSUME NEW S, NEW q \in Seq(S), NEW x \in S
    PROVE  /\ Append(q, x) \in Seq(S) /\ Len(Append(q, x)) = Len(q) + 1 /\ Len(q) \in Nat
           /\ \A i \in 1..Len(q) + 1 : Append(q, x)[i] = IF i = Len(q) + 1 THEN x ELSE q[i]
           /\ Members(Append(q, x)) = Members(q) \cup {x}
<1> DEFINE r == Append(q, x)
<1>1. r \in Seq(S) /\ Len(r) = Len(q) + 1 /\ Len(q) \in Nat
  BY AppendProperties
<1>2. \A i \in 1..Len(q) + 1 : r[i] = IF i = Len(q) + 1 THEN x ELSE q[i]
  BY <1>1, AppendProperties
<1> HIDE DEF r
<1>3. Members(r) = Members(q) \cup {x}
  <2>1. ASSUME NEW y \in Members(r) PROVE y \in Members(q) \cup {x}
    BY <1>1, <1>2 DEF Members
  <2>2. ASSUME NEW i \in 1..Len(q) PROVE q[i] \in Members(r)
    <3>1. i \in 1..Len(r) /\ r[i] = q[i]
      BY <1>1, <1>2
    <3> QED
      BY <3>1 DEF Members
  <2>3. x \in Members(r)
    BY <1>1, <1>2 DEF Members
  <2> QED
    BY <2>1, <2>2, <2>3 DEF Members
<1> QED
  BY <1>1, <1>2, <1>3 DEF r

\* A list without its last element.
LEMMA FrontIs ==
    ASSUME NEW S, NEW q \in Seq(S), Len(q) > 0
    PROVE  /\ Limit!Front(q) \in Seq(S) /\ Len(Limit!Front(q)) = Len(q) - 1
           /\ \A i \in 1..Len(q) - 1 : Limit!Front(q)[i] = q[i]
           /\ Members(Limit!Front(q)) \subseteq Members(q) /\ Members(q) \subseteq Members(Limit!Front(q)) \cup {q[Len(q)]}
           /\ Distinct(q) => Distinct(Limit!Front(q)) /\ Members(Limit!Front(q)) = Members(q) \ {q[Len(q)]}
<1> DEFINE r == Limit!Front(q)
<1>1. Len(q) \in Nat
  OBVIOUS
<1>2. r \in Seq(S) /\ Len(r) = Len(q) - 1 /\ \A i \in 1..Len(q) - 1 : r[i] = q[i]
  <2>1. r = SubSeq(q, 1, Len(q) - 1)
    BY DEF Limit!Front
  <2> DEFINE n == Len(q) - 1
  <2>2. n \in Nat /\ \A i \in 1..n : q[i] \in S
    BY <1>1, ElementOfSeq
  <2> HIDE DEF n
  <2>4. /\ SubSeq(q, 1, n) \in Seq(S) /\ Len(SubSeq(q, 1, n)) = (IF 1 <= n THEN n - 1 + 1 ELSE 0)
        /\ \A i \in 1..n - 1 + 1 : SubSeq(q, 1, n)[i] = q[1 + i - 1]
    BY <2>2, SubSeqProperties
  <2>5. n - 1 + 1 = n /\ (IF 1 <= n THEN n ELSE 0) = n
    BY <2>2
  <2>6. SubSeq(q, 1, n) \in Seq(S) /\ Len(SubSeq(q, 1, n)) = n
    BY <2>4, <2>5
  <2>7. ASSUME NEW i \in 1..n PROVE SubSeq(q, 1, n)[i] = q[i]
    <3>1. 1 + i - 1 = i /\ i \in 1..n - 1 + 1
      BY <2>2
    <3> QED
      BY <3>1, <2>4
  <2>3. /\ SubSeq(q, 1, Len(q) - 1) \in Seq(S) /\ Len(SubSeq(q, 1, Len(q) - 1)) = Len(q) - 1
        /\ \A i \in 1..Len(q) - 1 : SubSeq(q, 1, Len(q) - 1)[i] = q[i]
    BY <2>6, <2>7 DEF n
  <2> QED
    BY <2>1, <2>3
<1> HIDE DEF r
<1>3. Members(r) \subseteq Members(q) /\ Members(q) \subseteq Members(r) \cup {q[Len(q)]}
  <2>1. ASSUME NEW i \in 1..Len(r) PROVE r[i] \in Members(q)
    <3>1. i \in 1..Len(q) /\ r[i] = q[i]
      BY <1>1, <1>2
    <3> QED
      BY <3>1 DEF Members
  <2>2. ASSUME NEW i \in 1..Len(q), i # Len(q) PROVE q[i] \in Members(r)
    <3>1. i \in 1..Len(r) /\ r[i] = q[i]
      BY <1>1, <1>2, <2>2
    <3> QED
      BY <3>1 DEF Members
  <2> QED
    BY <2>1, <2>2 DEF Members
<1>4. ASSUME Distinct(q) PROVE Distinct(r) /\ Members(r) = Members(q) \ {q[Len(q)]}
  <2>1. Distinct(r)
    BY <1>1, <1>2, <1>4 DEF Distinct
  <2>2. q[Len(q)] \notin Members(r)
    BY <1>1, <1>2, <1>4 DEF Distinct, Members
  <2> QED
    BY <1>3, <2>1, <2>2
<1> QED
  BY <1>2, <1>3, <1>4 DEF r

\* A list from which an element was taken.
LEMMA Removed ==
    ASSUME NEW S, NEW q \in Seq(S), NEW x, Distinct(q)
    PROVE  /\ Limit!RemoveFirst(q, x) \in Seq(S) /\ Distinct(Limit!RemoveFirst(q, x))
           /\ Members(Limit!RemoveFirst(q, x)) = Members(q) \ {x}
           /\ Len(Limit!RemoveFirst(q, x)) = IF x \in Members(q) THEN Len(q) - 1 ELSE Len(q)
<1> DEFINE r == Limit!RemoveFirst(q, x)
<1>1. Len(q) \in Nat
  OBVIOUS
<1>2. CASE x \notin Members(q)
  BY <1>2 DEF Limit!RemoveFirst, Members
<1>3. ASSUME NEW k \in 1..Len(q), q[k] = x PROVE
         r \in Seq(S) /\ Len(r) = Len(q) - 1 /\ Distinct(r) /\ Members(r) = Members(q) \ {x}
  <2>1. {i \in 1..Len(q) : q[i] = x} = {k}
    BY <1>3 DEF Distinct
  <2>2. Limit!Min({k}) = k
    BY DEF Limit!Min
  <2>3. Limit!SelectInSeq(q, LAMBDA v : v = x) = k
    BY <2>1, <2>2 DEF Limit!SelectInSeq
  <2>4. r = SubSeq(q, 1, k - 1) \o SubSeq(q, k + 1, Len(q))
    BY <1>3, <2>3 DEF Limit!RemoveFirst, Limit!RemoveAt
  <2>5. SubSeq(q, 1, k - 1) \in Seq(S) /\ Len(SubSeq(q, 1, k - 1)) = k - 1 /\ \A i \in 1..k - 1 : SubSeq(q, 1, k - 1)[i] = q[i]
    BY <1>1, SubSeqProperties
  <2>6. /\ SubSeq(q, k + 1, Len(q)) \in Seq(S) /\ Len(SubSeq(q, k + 1, Len(q))) = Len(q) - k
        /\ \A i \in 1..Len(q) - k : SubSeq(q, k + 1, Len(q))[i] = q[k + i]
    BY <1>1, SubSeqProperties
  <2>7. /\ r \in Seq(S) /\ Len(r) = Len(q) - 1
        /\ \A i \in 1..Len(q) - 1 : r[i] = IF i < k THEN q[i] ELSE q[i + 1]
    <3> DEFINE u == SubSeq(q, 1, k - 1)
               v == SubSeq(q, k + 1, Len(q))
    <3> HIDE DEF u, v
    <3>1. u \in Seq(S) /\ Len(u) = k - 1 /\ \A i \in 1..k - 1 : u[i] = q[i]
      BY <2>5 DEF u
    <3>2. v \in Seq(S) /\ Len(v) = Len(q) - k /\ \A i \in 1..Len(q) - k : v[i] = q[k + i]
      BY <2>6 DEF v
    <3>6. u \o v \in Seq(S) /\ Len(u \o v) = Len(u) + Len(v)
      BY <3>1, <3>2, ConcatProperties
    <3>7. (k - 1) + (Len(q) - k) = Len(q) - 1
      BY <1>1
    <3>3. u \o v \in Seq(S) /\ Len(u \o v) = Len(q) - 1
      BY <3>1, <3>2, <3>6, <3>7
    <3>4. ASSUME NEW i \in 1..Len(q) - 1, i < k PROVE (u \o v)[i] = q[i]
      BY <1>1, <3>1, <3>2, <3>4, ConcatProperties
    <3>5. ASSUME NEW i \in 1..Len(q) - 1, i >= k PROVE (u \o v)[i] = q[i + 1]
      <4>1. (u \o v)[i] = v[i - (k - 1)] /\ i - (k - 1) \in 1..Len(q) - k
        BY <1>1, <3>1, <3>2, <3>5, ConcatProperties
      <4>2. k + (i - (k - 1)) = i + 1
        BY <1>1
      <4> QED
        BY <3>2, <4>1, <4>2
    <3>8. r = u \o v
      BY <2>4 DEF u, v
    <3>9. ASSUME NEW i \in 1..Len(q) - 1 PROVE r[i] = IF i < k THEN q[i] ELSE q[i + 1]
      <4>1. CASE i < k
        BY <3>4, <3>8, <4>1
      <4>2. CASE ~(i < k)
        <5>1. i >= k
          BY <1>1, <4>2
        <5> QED
          BY <3>5, <3>8, <4>2, <5>1
      <4> QED
        BY <4>1, <4>2
    <3> QED
      BY <3>3, <3>8, <3>9
  <2> HIDE DEF r
  <2>8. Distinct(r)
    <3> SUFFICES ASSUME NEW i \in 1..Len(r), NEW j \in 1..Len(r), r[i] = r[j] PROVE i = j
      BY DEF Distinct
    <3> DEFINE at(n) == IF n < k THEN n ELSE n + 1
    <3>1. at(i) \in 1..Len(q) /\ at(j) \in 1..Len(q) /\ r[i] = q[at(i)] /\ r[j] = q[at(j)]
      BY <1>1, <2>7
    <3>2. at(i) = at(j)
      BY <3>1 DEF Distinct
    <3> QED
      BY <1>1, <3>2
  <2>9. Members(r) = Members(q) \ {x}
    <3>1. ASSUME NEW i \in 1..Len(r) PROVE r[i] \in Members(q) \ {x}
      <4> DEFINE n == IF i < k THEN i ELSE i + 1
      <4>1. n \in 1..Len(q) /\ n # k /\ r[i] = q[n]
        BY <1>1, <2>7
      <4>2. q[n] # x
        BY <1>3, <4>1 DEF Distinct
      <4> QED
        BY <4>1, <4>2 DEF Members
    <3>2. ASSUME NEW i \in 1..Len(q), i # k PROVE q[i] \in Members(r)
      <4>1. CASE i < k
        BY <1>1, <2>7, <4>1 DEF Members
      <4>2. CASE i > k
        <5>1. i - 1 \in 1..Len(r) /\ r[i - 1] = q[i]
          BY <1>1, <2>7, <4>2
        <5> QED
          BY <5>1 DEF Members
      <4> QED
        BY <3>2, <4>1, <4>2
    <3> QED
      BY <1>3, <3>1, <3>2 DEF Members
  <2> QED
    BY <2>7, <2>8, <2>9
<1>4. x \in Members(q) => \E k \in 1..Len(q) : q[k] = x
  BY DEF Members
<1> QED
  BY <1>2, <1>3, <1>4

LEMMA DistinctCounts ==
    ASSUME NEW S, NEW q \in Seq(S), Distinct(q)
    PROVE  IsFiniteSet(Members(q)) /\ Cardinality(Members(q)) = Len(q)
<1> DEFINE f == [i \in 1..Len(q) |-> q[i]]
<1>1. Len(q) \in Nat
  OBVIOUS
<1>2. f \in Bijection(1..Len(q), Members(q))
  BY DEF Bijection, Injection, Surjection, IsInjective, Members, Distinct
<1>3. ExistsBijection(1..Len(q), Members(q))
  BY <1>2 DEF ExistsBijection
<1> QED
  BY <1>1, <1>3, FS_Bijection, FS_Interval, FS_CountingElements

------------------------------------------------------------------------------
(* The rate limiter *)

KeyOf(b) == bucket[b].key
Spared == forgotten \cup torn

LimiterLists ==
    /\ Distinct(ll) /\ Distinct(evictedLL) /\ Len(ll) <= Cap /\ Len(evictedLL) <= Cap
    /\ \A b, c \in Members(ll) : KeyOf(b) = KeyOf(c) => b = c
    /\ \A b \in Members(ll) : KeyOf(b) \notin Members(evictedLL)

\* A live bucket holds no more than its customer is due, and one that is held is live.
LimiterDues ==
    /\ \A b \in Members(ll) : KeyOf(b) \notin Spared => bucket[b].tokens <= due[KeyOf(b)]
    /\ \A r \in Requests : found[r] # 0 => found[r] \in Members(ll) \/ KeyOf(found[r]) \in torn
    /\ \A k \in Keys \ (Spared \cup Members(evictedLL)) : (\A b \in Members(ll) : KeyOf(b) # k) => due[k] = burst
    /\ over \subseteq Spared

LimiterInv == Limit!TypeOK /\ LimiterLists /\ LimiterDues

Bucket == [key : Keys, tokens : 0..burst]

LEMMA LimiterFacts ==
    ASSUME Limit!TypeOK
    PROVE  /\ bucket \in Seq(Bucket) /\ Len(bucket) \in Nat /\ DOMAIN bucket = 1..Len(bucket)
           /\ \A b \in 1..Len(bucket) : bucket[b] \in Bucket /\ KeyOf(b) \in Keys /\ bucket[b].tokens \in 0..burst
           /\ ll \in Seq(1..Len(bucket)) /\ Len(ll) \in Nat /\ Limit!ToSet(ll) = Members(ll) /\ Members(ll) \subseteq 1..Len(bucket)
           /\ evictedLL \in Seq(Keys) /\ Len(evictedLL) \in Nat /\ Limit!ToSet(evictedLL) = Members(evictedLL) /\ Members(evictedLL) \subseteq Keys
           /\ Limit!Live = {KeyOf(b) : b \in Members(ll)}
           /\ Cap \in Nat \ {0} /\ burst \in Nat \ {0} /\ globalBurst \in Nat \ {0}
           /\ MaxAsks \in Nat /\ MaxTime \in Nat /\ MaxBuckets \in Nat
<1>1. /\ bucket \in Seq(Bucket) /\ ll \in Seq(DOMAIN bucket) /\ evictedLL \in Seq(Keys)
  BY DEF Limit!TypeOK, Bucket
<1>2. Len(bucket) \in Nat /\ DOMAIN bucket = 1..Len(bucket)
  BY <1>1, LenProperties
<1>3. \A b \in 1..Len(bucket) : bucket[b] \in Bucket
  BY <1>1, ElementOfSeq
<1>4. \A b \in 1..Len(bucket) : KeyOf(b) \in Keys /\ bucket[b].tokens \in 0..burst
  BY <1>3 DEF Bucket, KeyOf
<1>5. ll \in Seq(1..Len(bucket))
  BY <1>1, <1>2
<1>6. Len(ll) \in Nat /\ Limit!ToSet(ll) = Members(ll) /\ Members(ll) \subseteq 1..Len(bucket)
  BY <1>5, InMembers
<1>7. Len(evictedLL) \in Nat /\ Limit!ToSet(evictedLL) = Members(evictedLL) /\ Members(evictedLL) \subseteq Keys
  BY <1>1, InMembers
<1>8. Limit!Live = {KeyOf(b) : b \in Members(ll)}
  BY <1>6 DEF Limit!Live, KeyOf
<1>9. /\ Cap \in Nat \ {0} /\ burst \in Nat \ {0} /\ globalBurst \in Nat \ {0}
      /\ MaxAsks \in Nat /\ MaxTime \in Nat /\ MaxBuckets \in Nat
  BY LimitAssumed DEF Limit!RateLimiterAssumption
<1> QED
  BY <1>1, <1>2, <1>3, <1>4, <1>5, <1>6, <1>7, <1>8, <1>9

LEMMA LimiterStart ==
    ASSUME Limit!Init
    PROVE  LimiterInv
<1>1. Limit!TypeOK
  <2>1. <<>> \in Seq(Bucket) /\ Len(<<>>) = 0 /\ <<>> \in Seq(DOMAIN <<>>) /\ <<>> \in Seq(Keys)
    BY EmptySeq
  <2> QED
    BY <2>1, LimitAssumed DEF Limit!Init, Limit!TypeOK, Limit!RateLimiterAssumption, Bucket, Limit!None
<1>2. LimiterLists
  BY <1>1, LimiterFacts DEF Limit!Init, LimiterLists, Distinct, Members
<1>3. LimiterDues
  BY DEF Limit!Init, LimiterDues, Members, Limit!None
<1> QED
  BY <1>1, <1>2, <1>3 DEF LimiterInv

\* Lists with the same members, of buckets with the same keys.
LEMMA ListsAgain ==
    ASSUME LimiterLists, \A c \in Members(ll) : bucket'[c].key = KeyOf(c),
           Members(ll') = Members(ll), Members(evictedLL') = Members(evictedLL), Distinct(ll'), Distinct(evictedLL'),
           Len(ll') = Len(ll), Len(evictedLL') = Len(evictedLL)
    PROVE  LimiterLists'
<1>1. Len(ll') <= Cap /\ Len(evictedLL') <= Cap
  BY DEF LimiterLists
<1>2. \A b, c \in Members(ll') : bucket'[b].key = bucket'[c].key => b = c
  BY DEF LimiterLists
<1>3. \A b \in Members(ll') : bucket'[b].key \notin Members(evictedLL')
  BY DEF LimiterLists
<1> QED
  BY <1>1, <1>2, <1>3 DEF LimiterLists, KeyOf

\* A bucket whose tokens change.
LEMMA OtherTokens ==
    ASSUME NEW v \in Bucket, NEW t \in 0..burst
    PROVE  /\ [v EXCEPT !.tokens = t] \in Bucket
           /\ [v EXCEPT !.tokens = t].key = v.key /\ [v EXCEPT !.tokens = t].tokens = t
BY DEF Bucket

\* A request that finds a bucket puts it in front.
LEMMA LimiterTouch ==
    ASSUME LimiterInv, NEW r \in Requests, NEW k \in Keys, Limit!Ask(r, k), Limit!Touch(r, k)
    PROVE  LimiterInv'
<1> DEFINE b == Limit!Find(k)
           q == Limit!RemoveFirst(ll, b)
<1>1. b \in Members(ll) /\ KeyOf(b) = k
  <2>1. \E c \in Limit!ToSet(ll) : bucket[c].key = k
    BY LimiterFacts DEF LimiterInv, Limit!Touch, KeyOf
  <2> QED
    BY <2>1, LimiterFacts DEF LimiterInv, Limit!Find, KeyOf
<1>2. b \in 1..Len(bucket)
  BY <1>1, LimiterFacts DEF LimiterInv
<1>3. ll' = <<b>> \o q /\ found' = [found EXCEPT ![r] = b]
  BY DEF Limit!Touch, Limit!InFront
<1>4. /\ q \in Seq(1..Len(bucket)) /\ Distinct(q) /\ Members(q) = Members(ll) \ {b} /\ Len(q) = Len(ll) - 1
  BY <1>1, LimiterFacts, Removed DEF LimiterInv, LimiterLists
<1> HIDE DEF b, q
<1>5. /\ ll' \in Seq(1..Len(bucket)) /\ Distinct(ll') /\ Members(ll') = Members(ll) /\ Len(ll') = Len(ll)
  <2>1. b \notin Members(q)
    BY <1>4
  <2>2. Len(<<b>> \o q) = Len(q) + 1 /\ <<b>> \o q \in Seq(1..Len(bucket)) /\ Members(<<b>> \o q) = Members(q) \cup {b} /\ Distinct(<<b>> \o q)
    BY <1>2, <1>4, <2>1, PutInFront
  <2>3. Len(ll) - 1 + 1 = Len(ll)
    BY LimiterFacts DEF LimiterInv
  <2> QED
    BY <1>1, <1>3, <1>4, <2>2, <2>3
<1>6. UNCHANGED <<now, due, over, bucket, evictedLL, forgotten, torn>> /\ asks' = asks + 1 /\ asks < MaxAsks /\ global' = global - 1 /\ global > 0
  BY DEF Limit!Ask, Limit!Touch
<1>7. Limit!TypeOK'
  <2>1. ll' \in Seq(DOMAIN bucket')
    BY <1>5, <1>6, LimiterFacts DEF LimiterInv
  <2>2. found' \in [Requests -> {Limit!None} \cup DOMAIN bucket']
    BY <1>2, <1>3, <1>6, LimiterFacts DEF LimiterInv, Limit!TypeOK
  <2>3. asks' \in 0..MaxAsks /\ global' \in 0..globalBurst
    BY <1>6, LimiterFacts DEF LimiterInv, Limit!TypeOK
  <2> QED
    BY <1>6, <2>1, <2>2, <2>3 DEF LimiterInv, Limit!TypeOK
<1>8. LimiterLists'
  <2>1. \A c \in Members(ll) : bucket'[c].key = KeyOf(c)
    BY <1>6 DEF KeyOf
  <2>2. Members(ll') = Members(ll) /\ Members(evictedLL') = Members(evictedLL) /\ Distinct(ll') /\ Distinct(evictedLL') /\ Len(ll') = Len(ll) /\ Len(evictedLL') = Len(evictedLL)
    BY <1>5, <1>6 DEF LimiterInv, LimiterLists
  <2> QED
    BY <2>1, <2>2, ListsAgain DEF LimiterInv
<1>9. LimiterDues'
  <2>1. \A o \in Requests : found'[o] # 0 => found'[o] \in Members(ll) \/ KeyOf(found'[o]) \in torn
    BY <1>1, <1>3 DEF LimiterInv, LimiterDues, Limit!TypeOK
  <2>2. Members(ll') = Members(ll) /\ Members(evictedLL)' = Members(evictedLL) /\ Spared' = Spared
    BY <1>5, <1>6 DEF Spared, Members
  <2> QED
    BY <1>6, <2>1, <2>2 DEF LimiterInv, LimiterDues, KeyOf
<1> QED
  BY <1>7, <1>8, <1>9 DEF LimiterInv

\* A request that finds none makes one, in place of the last if the list is full.
LEMMA LimiterInsert ==
    ASSUME LimiterInv, NEW r \in Requests, NEW k \in Keys, Limit!Ask(r, k), Limit!Insert(r, k)
    PROVE  LimiterInv'
<1> DEFINE new == Limit!NewCustomerLimiter(k)
           n == Len(bucket) + 1
           marks == Limit!RemoveFirst(evictedLL, k)
<1>1. /\ n \in Nat /\ n \notin 1..Len(bucket) /\ new \in Bucket /\ new.key = k
      /\ new.tokens = IF k \in Members(evictedLL) THEN 0 ELSE burst
  BY LimiterFacts DEF LimiterInv, Limit!NewCustomerLimiter, Limit!Cold, Bucket
<1>2. /\ bucket' = Append(bucket, new) /\ Len(bucket) < MaxBuckets /\ found' = [found EXCEPT ![r] = n] /\ asks' = asks + 1 /\ asks < MaxAsks
      /\ global' = global - 1 /\ global > 0 /\ UNCHANGED <<now, due, over>>
      /\ \A b \in Members(ll) : KeyOf(b) # k
  BY LimiterFacts DEF LimiterInv, Limit!Ask, Limit!Insert
<1>3. /\ marks \in Seq(Keys) /\ Distinct(marks) /\ Members(marks) = Members(evictedLL) \ {k} /\ Len(marks) \in Nat /\ Len(marks) <= Cap
      /\ Limit!ToSet(marks) = Members(marks)
  <2>1. /\ marks \in Seq(Keys) /\ Distinct(marks) /\ Members(marks) = Members(evictedLL) \ {k}
        /\ Len(marks) = IF k \in Members(evictedLL) THEN Len(evictedLL) - 1 ELSE Len(evictedLL)
    BY LimiterFacts, Removed DEF LimiterInv, LimiterLists
  <2>2. Len(marks) \in Nat
    BY <2>1
  <2> QED
    BY <2>1, <2>2, LimiterFacts, InMembers DEF LimiterInv, LimiterLists
<1>4. /\ bucket' \in Seq(Bucket) /\ Len(bucket') = n /\ DOMAIN bucket' = 1..n /\ bucket'[n] = new
      /\ \A b \in 1..Len(bucket) : bucket'[b] = bucket[b]
  BY <1>1, <1>2, LimiterFacts, AppendProperties, LenProperties DEF LimiterInv
\* What the two cases have in common: which buckets are live, and whose marks remain.
<1>5. /\ ll' \in Seq(1..n) /\ Distinct(ll') /\ Len(ll') <= Cap /\ evictedLL' \in Seq(Keys) /\ Distinct(evictedLL') /\ Len(evictedLL') <= Cap
      /\ n \in Members(ll') /\ Members(ll') \subseteq Members(ll) \cup {n}
      /\ Members(evictedLL') \subseteq Keys \ {k}
      /\ \A b \in Members(ll) \cap Members(ll') : KeyOf(b) \notin Members(evictedLL')
      /\ \A b \in Members(ll) \ Members(ll') : /\ KeyOf(b) \in Members(evictedLL')
                                              /\ \A o \in Requests : found[o] = b => KeyOf(b) \in torn'
      /\ forgotten \subseteq forgotten' /\ torn \subseteq torn' /\ forgotten' \subseteq Keys /\ torn' \subseteq Keys
      /\ \A j \in Members(evictedLL) : j # k => j \in Members(evictedLL') \cup forgotten'
  <2>1. CASE ~(Len(ll) >= Cap)
    <3>1. ll' = <<n>> \o ll /\ evictedLL' = marks /\ UNCHANGED <<forgotten, torn>>
      BY <2>1 DEF Limit!Insert
    <3>2. ll \in Seq(1..n)
      BY <1>1, LimiterFacts DEF LimiterInv
    <3>3. n \in 1..n /\ n \notin Members(ll)
      BY <1>1, LimiterFacts DEF LimiterInv
    <3>4. /\ ll' \in Seq(1..n) /\ Len(ll') = Len(ll) + 1 /\ Members(ll') = Members(ll) \cup {n} /\ Distinct(ll')
      BY <3>1, <3>2, <3>3, PutInFront DEF LimiterInv, LimiterLists
    <3>5. Len(ll') <= Cap
      BY <2>1, <3>4, LimiterFacts DEF LimiterInv
    <3>6. forgotten \subseteq Keys /\ torn \subseteq Keys
      BY DEF LimiterInv, Limit!TypeOK
    <3>7. Members(evictedLL') = Members(evictedLL) \ {k} /\ Members(evictedLL) \subseteq Keys
      BY <1>3, <3>1, LimiterFacts DEF LimiterInv
    <3> HIDE DEF n, marks, new
    <3>8. \A b \in Members(ll) \cap Members(ll') : KeyOf(b) \notin Members(evictedLL')
      BY <3>7 DEF LimiterInv, LimiterLists
    <3> QED
      BY <1>3, <3>1, <3>4, <3>5, <3>6, <3>7, <3>8
  <2>2. CASE Len(ll) >= Cap
    <3> DEFINE out == ll[Len(ll)]
               gone == bucket[out].key
               u == Limit!Front(ll)
               short == Limit!Shorten(marks)
    <3>1. Limit!Last(ll) = out
      BY DEF Limit!Last
    <3>2. /\ ll' = <<n>> \o u /\ evictedLL' = Limit!RememberEvicted(marks, gone)
          /\ forgotten' = forgotten \cup (Limit!ToSet(marks) \ Limit!ToSet(evictedLL'))
          /\ torn' = IF out \in {found[o] : o \in Requests} THEN torn \cup {gone} ELSE torn
      BY <2>2, <3>1 DEF Limit!Insert
    <3>3. Len(ll) \in Nat /\ Len(ll) > 0 /\ Len(ll) <= Cap
      BY <2>2, LimiterFacts DEF LimiterInv, LimiterLists
    <3>4. out \in Members(ll) /\ out \in 1..Len(bucket) /\ gone \in Keys /\ gone = KeyOf(out) /\ gone # k
      <4>1. out \in Members(ll)
        BY <3>3 DEF Members
      <4> QED
        BY <1>2, <4>1, LimiterFacts DEF LimiterInv, KeyOf
    <3>5. /\ u \in Seq(1..Len(bucket)) /\ Len(u) = Len(ll) - 1 /\ Distinct(u) /\ Members(u) = Members(ll) \ {out}
      BY <3>3, LimiterFacts, FrontIs DEF LimiterInv, LimiterLists
    <3>6. n \in 1..n /\ n \notin Members(u) /\ u \in Seq(1..n)
      BY <1>1, <3>5, LimiterFacts DEF LimiterInv
    <3>7. gone \notin Members(marks)
      BY <1>3, <3>4 DEF LimiterInv, LimiterLists
    <3>8. /\ short \in Seq(Keys) /\ Distinct(short) /\ Len(short) + 1 <= Cap /\ Members(short) \subseteq Members(marks)
      <4>1. CASE Len(marks) >= Cap
        <5>1. short = Limit!Front(marks) /\ Len(marks) > 0
          BY <1>3, <4>1, LimiterFacts DEF LimiterInv, Limit!Shorten
        <5>2. /\ Limit!Front(marks) \in Seq(Keys) /\ Len(Limit!Front(marks)) = Len(marks) - 1 /\ Distinct(Limit!Front(marks))
              /\ Members(Limit!Front(marks)) \subseteq Members(marks)
          BY <1>3, <5>1, FrontIs
        <5> QED
          BY <1>3, <5>1, <5>2, LimiterFacts DEF LimiterInv
      <4>2. CASE ~(Len(marks) >= Cap)
        <5>1. short = marks
          BY <4>2 DEF Limit!Shorten
        <5> QED
          BY <1>3, <4>2, <5>1, LimiterFacts DEF LimiterInv
      <4> QED
        BY <4>1, <4>2
    <3>9. evictedLL' = <<gone>> \o short
      BY <1>3, <3>2, <3>7 DEF Limit!RememberEvicted
    <3> HIDE DEF n, marks, new, u, short, out
    <3>10. ll' \in Seq(1..n) /\ Distinct(ll') /\ Members(ll') = (Members(ll) \ {out}) \cup {n} /\ Len(ll') = Len(u) + 1
      BY <3>2, <3>5, <3>6, PutInFront
    <3>11. Len(ll') <= Cap
      BY <3>3, <3>5, <3>10
    <3>12. gone \notin Members(short)
      BY <3>7, <3>8
    <3>13. /\ evictedLL' \in Seq(Keys) /\ Distinct(evictedLL') /\ Members(evictedLL') = Members(short) \cup {gone} /\ Len(evictedLL') = Len(short) + 1
      BY <3>4, <3>8, <3>9, <3>12, PutInFront
    <3>14. Limit!ToSet(evictedLL') = Members(evictedLL') /\ Members(evictedLL') \subseteq Keys
      BY <3>13, InMembers
    <3>15. \A j \in Members(evictedLL) : j # k => j \in Members(evictedLL') \cup forgotten'
      BY <1>3, <3>2, <3>14
    <3>16. k \notin Members(evictedLL')
      BY <1>3, <3>4, <3>8, <3>13
    <3>17. forgotten \subseteq forgotten' /\ torn \subseteq torn' /\ forgotten' \subseteq Keys /\ torn' \subseteq Keys
      <4>1. forgotten \subseteq Keys /\ torn \subseteq Keys
        BY DEF LimiterInv, Limit!TypeOK
      <4>2. Members(marks) \subseteq Keys
        BY <1>3, LimiterFacts DEF LimiterInv
      <4> QED
        BY <1>3, <3>2, <3>4, <4>1, <4>2
    <3>18. ASSUME NEW b \in Members(ll) \cap Members(ll') PROVE KeyOf(b) \notin Members(evictedLL')
      <4>1. b # out
        <5>1. n \notin Members(ll)
          BY <1>1, LimiterFacts DEF LimiterInv, n
        <5> QED
          BY <3>10, <5>1
      <4>2. KeyOf(b) # gone
        BY <3>4, <4>1 DEF LimiterInv, LimiterLists
      <4>3. KeyOf(b) \notin Members(evictedLL)
        BY DEF LimiterInv, LimiterLists
      <4> QED
        BY <1>3, <3>8, <3>13, <4>2, <4>3
    <3>19. ASSUME NEW b \in Members(ll) \ Members(ll')
           PROVE  KeyOf(b) \in Members(evictedLL') /\ \A o \in Requests : found[o] = b => KeyOf(b) \in torn'
      <4>1. b = out
        BY <3>10
      <4> QED
        BY <3>2, <3>4, <3>13, <4>1
    <3>20. n \in Members(ll') /\ Members(ll') \subseteq Members(ll) \cup {n}
      BY <3>10
    <3>21. Len(evictedLL') <= Cap
      BY <3>8, <3>13
    <3> QED
      BY <3>10, <3>11, <3>13, <3>14, <3>15, <3>16, <3>17, <3>18, <3>19, <3>20, <3>21
  <2> QED
    BY <2>1, <2>2
<1> HIDE DEF n, new, marks
<1>6. n = Len(bucket) + 1 /\ Len(bucket) \in Nat
  BY LimiterFacts DEF LimiterInv, n
<1>7. \A b \in Members(ll) : b \in 1..Len(bucket) /\ b # n /\ bucket'[b].key = KeyOf(b) /\ bucket'[b] = bucket[b]
  BY <1>1, <1>4, LimiterFacts DEF LimiterInv, KeyOf
<1>8. bucket'[n].key = k
  BY <1>1, <1>4 DEF KeyOf
<1>9. Limit!TypeOK'
  <2>1. Len(bucket') <= MaxBuckets
    BY <1>2, <1>4, <1>6, LimiterFacts DEF LimiterInv
  <2>2. found' \in [Requests -> {Limit!None} \cup DOMAIN bucket']
    <3>1. n \in 1..n /\ 1..Len(bucket) \subseteq 1..n
      BY <1>6
    <3>2. found \in [Requests -> {Limit!None} \cup 1..Len(bucket)]
      BY LimiterFacts DEF LimiterInv, Limit!TypeOK
    <3> QED
      BY <1>2, <1>4, <3>1, <3>2
  <2>3. asks' \in 0..MaxAsks /\ global' \in 0..globalBurst
    BY <1>2, LimiterFacts DEF LimiterInv, Limit!TypeOK
  <2>4. over' \subseteq Keys /\ now' \in 0..MaxTime /\ due' \in [Keys -> 0..burst]
    BY <1>2 DEF LimiterInv, Limit!TypeOK
  <2> QED
    BY <1>4, <1>5, <2>1, <2>2, <2>3, <2>4 DEF Limit!TypeOK, Bucket
<1>10. LimiterLists'
  <2>1. ASSUME NEW b \in Members(ll'), NEW c \in Members(ll'), bucket'[b].key = bucket'[c].key PROVE b = c
    <3>1. CASE b = n /\ c = n
      BY <3>1
    <3>2. CASE b = n /\ c # n
      BY <1>2, <1>5, <1>7, <1>8, <2>1, <3>2
    <3>3. CASE b # n /\ c = n
      BY <1>2, <1>5, <1>7, <1>8, <2>1, <3>3
    <3>4. CASE b # n /\ c # n
      <4>1. b \in Members(ll) /\ c \in Members(ll) /\ KeyOf(b) = KeyOf(c)
        BY <1>5, <1>7, <2>1, <3>4
      <4> QED
        BY <4>1 DEF LimiterInv, LimiterLists
    <3> QED
      BY <3>1, <3>2, <3>3, <3>4
  <2>2. ASSUME NEW b \in Members(ll') PROVE bucket'[b].key \notin Members(evictedLL')
    BY <1>5, <1>7, <1>8
  <2> QED
    BY <1>5, <2>1, <2>2 DEF LimiterLists, Members, KeyOf
<1>11. LimiterDues'
  <2>1. ASSUME NEW b \in Members(ll'), bucket'[b].key \notin Spared' PROVE bucket'[b].tokens <= due'[bucket'[b].key]
    <3>1. CASE b = n
      <4>1. k \notin Spared /\ bucket'[b].key = k /\ bucket'[b] = new /\ due' = due
        BY <1>2, <1>4, <1>5, <1>8, <2>1, <3>1 DEF Spared
      <4>2. due[k] \in 0..burst
        BY DEF LimiterInv, Limit!TypeOK
      <4>3. CASE k \in Members(evictedLL)
        BY <1>1, <4>1, <4>2, <4>3
      <4>4. CASE k \notin Members(evictedLL)
        <5>1. due[k] = burst
          BY <1>2, <4>1, <4>4 DEF LimiterInv, LimiterDues
        <5> QED
          BY <1>1, <4>1, <4>4, <5>1, LimiterFacts DEF LimiterInv
      <4> QED
        BY <4>3, <4>4
    <3>2. CASE b # n
      <4>1. b \in Members(ll) /\ KeyOf(b) \notin Spared
        BY <1>5, <1>7, <2>1, <3>2 DEF Spared
      <4> QED
        BY <1>2, <1>7, <4>1 DEF LimiterInv, LimiterDues
    <3> QED
      BY <3>1, <3>2
  <2>2. ASSUME NEW o \in Requests, found'[o] # 0 PROVE found'[o] \in Members(ll') \/ bucket'[found'[o]].key \in torn'
    <3>1. CASE o = r
      BY <1>2, <1>5, <3>1 DEF LimiterInv, Limit!TypeOK
    <3>2. CASE o # r
      <4>1. found'[o] = found[o] /\ found[o] \in 1..Len(bucket)
        BY <1>2, <2>2, <3>2, LimiterFacts DEF LimiterInv, Limit!TypeOK, Limit!None
      <4>2. CASE found[o] \in Members(ll)
        BY <1>5, <1>7, <4>1, <4>2
      <4>3. CASE KeyOf(found[o]) \in torn
        BY <1>4, <1>5, <4>1, <4>3 DEF KeyOf
      <4> QED
        BY <2>2, <4>1, <4>2, <4>3 DEF LimiterInv, LimiterDues
    <3> QED
      BY <3>1, <3>2
  <2>3. ASSUME NEW j \in Keys \ (Spared' \cup Members(evictedLL')), \A b \in Members(ll') : bucket'[b].key # j PROVE due'[j] = burst
    <3>1. j # k
      BY <1>5, <1>8, <2>3
    <3>2. \A b \in Members(ll) : KeyOf(b) # j
      BY <1>5, <1>7, <2>3
    <3>3. j \notin Spared /\ j \notin Members(evictedLL)
      BY <1>5, <3>1 DEF Spared
    <3> QED
      BY <1>2, <3>2, <3>3 DEF LimiterInv, LimiterDues
  <2>4. over' \subseteq Spared'
    BY <1>2, <1>5 DEF LimiterInv, LimiterDues, Spared
  <2> QED
    BY <2>1, <2>2, <2>3, <2>4 DEF LimiterDues, Members, KeyOf
<1> QED
  BY <1>9, <1>10, <1>11 DEF LimiterInv

\* The token of a bucket is the customer's, unless the bucket was dropped under its hands.
LEMMA LimiterAllowed ==
    ASSUME LimiterInv, NEW r \in Requests, Limit!Allowed(r)
    PROVE  LimiterInv'
<1> DEFINE b == found[r]
           k == bucket[b].key
<1>1. b \in 1..Len(bucket) /\ k \in Keys /\ k = KeyOf(b) /\ bucket[b].tokens \in 0..burst /\ bucket[b].tokens > 0
  <2>1. b \in 1..Len(bucket)
    BY LimiterFacts DEF LimiterInv, Limit!TypeOK, Limit!Allowed, Limit!None
  <2> QED
    BY <2>1, LimiterFacts DEF LimiterInv, Limit!Allowed, KeyOf
<1>2. /\ bucket' = [bucket EXCEPT ![b].tokens = bucket[b].tokens - 1]
      /\ over' = IF due[k] = 0 THEN over \cup {k} ELSE over
      /\ due' = [due EXCEPT ![k] = IF due[k] = 0 THEN 0 ELSE due[k] - 1]
      /\ found' = [found EXCEPT ![r] = 0]
      /\ UNCHANGED <<now, asks, global, ll, evictedLL, forgotten, torn>>
  BY DEF Limit!Allowed, Limit!Take, Limit!None
<1>3. due \in [Keys -> 0..burst] /\ burst \in Nat /\ found \in [Requests -> {0} \cup 1..Len(bucket)] /\ over \subseteq Keys
  BY LimiterFacts DEF LimiterInv, Limit!TypeOK, Limit!None
<1>4. /\ bucket' \in Seq(Bucket) /\ Len(bucket') = Len(bucket) /\ DOMAIN bucket' = 1..Len(bucket)
      /\ \A c \in 1..Len(bucket) : bucket'[c].key = KeyOf(c) /\ bucket'[c].tokens = IF c = b THEN bucket[b].tokens - 1 ELSE bucket[c].tokens
  <2>1. [bucket[b] EXCEPT !.tokens = bucket[b].tokens - 1] \in Bucket
    <3>1. bucket[b] \in Bucket /\ bucket[b].tokens - 1 \in 0..burst
      BY <1>1, <1>3, LimiterFacts DEF LimiterInv
    <3> QED
      BY <3>1, OtherTokens
  <2>2. bucket' = [bucket EXCEPT ![b] = [bucket[b] EXCEPT !.tokens = bucket[b].tokens - 1]]
    BY <1>2
  <2>3. bucket' \in Seq(Bucket) /\ Len(bucket') = Len(bucket) /\ DOMAIN bucket' = 1..Len(bucket)
    BY <1>1, <2>1, <2>2, LimiterFacts, ExceptSeq, LenProperties DEF LimiterInv
  <2>4. ASSUME NEW c \in 1..Len(bucket)
        PROVE  bucket'[c].key = KeyOf(c) /\ bucket'[c].tokens = IF c = b THEN bucket[b].tokens - 1 ELSE bucket[c].tokens
    <3>1. bucket'[c] = IF c = b THEN [bucket[b] EXCEPT !.tokens = bucket[b].tokens - 1] ELSE bucket[c]
      BY <2>2, LimiterFacts DEF LimiterInv
    <3>2. bucket[b] \in Bucket
      BY <1>1, LimiterFacts DEF LimiterInv
    <3> QED
      BY <3>1, <3>2 DEF KeyOf, Bucket
  <2> QED
    BY <2>3, <2>4
<1> HIDE DEF b, k
<1>5. Limit!TypeOK'
  <2>1. due' \in [Keys -> 0..burst] /\ found' \in [Requests -> {0} \cup 1..Len(bucket)]
    <3>1. (IF due[k] = 0 THEN 0 ELSE due[k] - 1) \in 0..burst
      <4>1. due[k] \in 0..burst
        BY <1>1, <1>3
      <4> QED
        BY <1>3, <4>1
    <3> QED
      BY <1>2, <1>3, <3>1
  <2>2. over' \subseteq Keys
    BY <1>1, <1>2, <1>3
  <2> QED
    BY <1>2, <1>4, <2>1, <2>2, LimiterFacts DEF LimiterInv, Limit!TypeOK, Bucket, Limit!None
<1>6. Members(ll') = Members(ll) /\ Members(evictedLL') = Members(evictedLL) /\ Spared' = Spared /\ Members(ll) \subseteq 1..Len(bucket)
  BY <1>2, LimiterFacts DEF LimiterInv, Spared
<1>7. LimiterLists'
  <2>1. \A c \in Members(ll) : bucket'[c].key = KeyOf(c)
    BY <1>4, <1>6
  <2>2. Distinct(ll') /\ Distinct(evictedLL') /\ Len(ll') = Len(ll) /\ Len(evictedLL') = Len(evictedLL)
    BY <1>2 DEF LimiterInv, LimiterLists
  <2> QED
    BY <1>6, <2>1, <2>2, ListsAgain DEF LimiterInv
<1>8. LimiterDues'
  <2>1. ASSUME NEW c \in Members(ll), KeyOf(c) \notin Spared PROVE bucket'[c].tokens <= due'[KeyOf(c)]
    <3>1. c \in 1..Len(bucket) /\ KeyOf(c) \in Keys /\ bucket[c].tokens \in 0..burst /\ bucket[c].tokens <= due[KeyOf(c)] /\ due[KeyOf(c)] \in 0..burst
      BY <1>3, <1>6, <2>1, LimiterFacts DEF LimiterInv, LimiterDues
    <3>2. CASE c = b
      BY <1>1, <1>2, <1>3, <1>4, <3>1, <3>2
    <3>3. CASE c # b
      <4>1. KeyOf(c) # k
        <5>1. b \in Members(ll) \/ k \in torn
          BY <1>1 DEF LimiterInv, LimiterDues, b
        <5> QED
          BY <1>1, <2>1, <3>3, <5>1 DEF LimiterInv, LimiterLists, Spared
      <4> QED
        BY <1>2, <1>3, <1>4, <3>1, <3>3, <4>1
    <3> QED
      BY <3>2, <3>3
  <2>2. ASSUME NEW o \in Requests, found'[o] # 0 PROVE found'[o] \in Members(ll) \/ bucket'[found'[o]].key \in torn
    <3>1. found'[o] = found[o] /\ found[o] \in 1..Len(bucket)
      BY <1>2, <1>3, <2>2
    <3> QED
      BY <1>4, <2>2, <3>1 DEF LimiterInv, LimiterDues
  <2>3. ASSUME NEW j \in Keys \ (Spared \cup Members(evictedLL)), \A c \in Members(ll) : KeyOf(c) # j PROVE due'[j] = burst
    <3>1. j # k
      BY <1>1, <2>3 DEF LimiterInv, LimiterDues, b, Spared
    <3> QED
      BY <1>2, <1>3, <2>3, <3>1 DEF LimiterInv, LimiterDues
  <2>4. over' \subseteq Spared
    <3>1. CASE due[k] = 0
      <4>1. k \in Spared
        <5>1. SUFFICES ASSUME k \notin Spared PROVE FALSE
          OBVIOUS
        <5>2. b \in Members(ll)
          BY <1>1, <5>1 DEF LimiterInv, LimiterDues, b, Spared
        <5> QED
          BY <1>1, <3>1, <5>1, <5>2 DEF LimiterInv, LimiterDues
      <4> QED
        BY <1>2, <3>1, <4>1 DEF LimiterInv, LimiterDues
    <3>2. CASE due[k] # 0
      BY <1>2, <3>2 DEF LimiterInv, LimiterDues
    <3> QED
      BY <3>1, <3>2
  <2>5. \A c \in Members(ll) : bucket'[c].key = KeyOf(c)
    BY <1>4, <1>6
  <2>6. torn' = torn
    BY <1>2
  <2> QED
    BY <1>6, <2>1, <2>2, <2>3, <2>4, <2>5, <2>6 DEF LimiterDues, Members, KeyOf
<1> QED
  BY <1>5, <1>7, <1>8 DEF LimiterInv

LEMMA LimiterTick ==
    ASSUME LimiterInv, Limit!Tick
    PROVE  LimiterInv'
<1>1. /\ now < MaxTime /\ now' = now + 1 /\ global' = globalBurst
      /\ bucket' = [b \in DOMAIN bucket |-> [bucket[b] EXCEPT !.tokens = Limit!More(bucket[b].tokens)]]
      /\ due' = [k \in Keys |-> Limit!More(due[k])]
      /\ UNCHANGED <<asks, ll, evictedLL, found, over, forgotten, torn>>
  BY DEF Limit!Tick
<1>2. \A n \in 0..burst : Limit!More(n) \in 0..burst /\ \A m \in 0..burst : n <= m => Limit!More(n) <= Limit!More(m)
  BY LimiterFacts DEF LimiterInv, Limit!More
<1>3. \A n \in 0..burst : n = burst => Limit!More(n) = burst
  BY LimiterFacts DEF LimiterInv, Limit!More
<1>4. \A b \in 1..Len(bucket) : bucket'[b] \in Bucket /\ bucket'[b].key = KeyOf(b) /\ bucket'[b].tokens = Limit!More(bucket[b].tokens)
  BY <1>1, <1>2, LimiterFacts DEF LimiterInv, Bucket, KeyOf
<1>5. bucket' \in Seq(Bucket) /\ Len(bucket') = Len(bucket) /\ DOMAIN bucket' = 1..Len(bucket)
  <2>1. Len(bucket) \in Nat /\ DOMAIN bucket = 1..Len(bucket)
    BY LimiterFacts DEF LimiterInv
  <2>2. bucket' = [b \in 1..Len(bucket) |-> bucket'[b]] /\ DOMAIN bucket' = 1..Len(bucket)
    BY <1>1, <2>1
  <2>3. bucket' \in Seq(Bucket)
    BY <1>4, <2>1, <2>2, SeqDef
  <2> QED
    BY <2>1, <2>2, <2>3, LenProperties
<1>6. due \in [Keys -> 0..burst]
  BY DEF LimiterInv, Limit!TypeOK
<1>7. Limit!TypeOK'
  <2>1. now' \in 0..MaxTime /\ global' \in 0..globalBurst
    <3>1. now \in 0..MaxTime /\ MaxTime \in Nat /\ globalBurst \in Nat
      BY LimiterFacts DEF LimiterInv, Limit!TypeOK
    <3> QED
      BY <1>1, <3>1
  <2>2. due' \in [Keys -> 0..burst]
    BY <1>1, <1>2, <1>6
  <2> QED
    BY <1>1, <1>5, <2>1, <2>2, LimiterFacts DEF LimiterInv, Limit!TypeOK, Bucket
<1>8. Members(ll') = Members(ll) /\ Members(evictedLL') = Members(evictedLL) /\ Spared' = Spared /\ Members(ll) \subseteq 1..Len(bucket)
  BY <1>1, LimiterFacts DEF LimiterInv, Spared
<1>9. \A b \in Members(ll) : bucket'[b].key = KeyOf(b)
  BY <1>4, <1>8
<1>10. LimiterLists'
  <2>1. Distinct(ll') /\ Distinct(evictedLL') /\ Len(ll') = Len(ll) /\ Len(evictedLL') = Len(evictedLL)
    BY <1>1 DEF LimiterInv, LimiterLists
  <2> QED
    BY <1>8, <1>9, <2>1, ListsAgain DEF LimiterInv
<1>11. LimiterDues'
  <2>1. ASSUME NEW c \in Members(ll), KeyOf(c) \notin Spared PROVE bucket'[c].tokens <= due'[KeyOf(c)]
    <3>1. c \in 1..Len(bucket) /\ KeyOf(c) \in Keys /\ bucket[c].tokens \in 0..burst /\ bucket[c].tokens <= due[KeyOf(c)] /\ due[KeyOf(c)] \in 0..burst
      BY <1>6, <1>8, <2>1, LimiterFacts DEF LimiterInv, LimiterDues
    <3>2. due'[KeyOf(c)] = Limit!More(due[KeyOf(c)]) /\ bucket'[c].tokens = Limit!More(bucket[c].tokens)
      BY <1>1, <1>4, <3>1
    <3> QED
      BY <1>2, <3>1, <3>2
  <2>2. ASSUME NEW o \in Requests, found[o] # 0 PROVE found[o] \in Members(ll) \/ bucket'[found[o]].key \in torn
    <3>1. found[o] \in 1..Len(bucket)
      BY <2>2, LimiterFacts DEF LimiterInv, Limit!TypeOK, Limit!None
    <3> QED
      BY <1>4, <2>2, <3>1 DEF LimiterInv, LimiterDues
  <2>3. ASSUME NEW j \in Keys \ (Spared \cup Members(evictedLL)), \A c \in Members(ll) : KeyOf(c) # j PROVE due'[j] = burst
    <3>1. due[j] = burst /\ burst \in 0..burst
      BY <2>3, LimiterFacts DEF LimiterInv, LimiterDues
    <3> QED
      BY <1>1, <1>3, <3>1
  <2>4. over \subseteq Spared
    BY DEF LimiterInv, LimiterDues
  <2>5. \A c \in Members(ll') : bucket'[c].key \notin Spared' => bucket'[c].tokens <= due'[bucket'[c].key]
    BY <1>8, <1>9, <2>1
  <2>6. \A o \in Requests : found'[o] # 0 => found'[o] \in Members(ll') \/ bucket'[found'[o]].key \in torn'
    BY <1>1, <1>8, <2>2
  <2>7. \A j \in Keys \ (Spared' \cup Members(evictedLL')) : (\A c \in Members(ll') : bucket'[c].key # j) => due'[j] = burst
    BY <1>8, <1>9, <2>3
  <2>8. over' \subseteq Spared'
    BY <1>1, <1>8, <2>4
  <2> QED
    BY <2>5, <2>6, <2>7, <2>8 DEF LimiterDues, KeyOf
<1> QED
  BY <1>7, <1>10, <1>11 DEF LimiterInv

LEMMA LimiterStep ==
    ASSUME LimiterInv, Limit!Next
    PROVE  LimiterInv'
<1>1. ASSUME NEW r \in Requests, Limit!GlobalRefusal(r) PROVE LimiterInv'
  <2>1. /\ asks' = asks + 1 /\ asks < MaxAsks
        /\ UNCHANGED <<now, global, bucket, ll, evictedLL, found, due, over, forgotten, torn>>
    BY <1>1 DEF Limit!GlobalRefusal
  <2>2. asks' \in 0..MaxAsks
    BY <2>1, LimiterFacts DEF LimiterInv, Limit!TypeOK
  <2>3. Limit!TypeOK'
    BY <2>1, <2>2 DEF LimiterInv, Limit!TypeOK
  <2>4. LimiterLists' /\ LimiterDues'
    BY <2>1 DEF LimiterInv, LimiterLists, LimiterDues, Members, Distinct, Spared, KeyOf
  <2> QED
    BY <2>3, <2>4 DEF LimiterInv
<1>2. ASSUME NEW r \in Requests, Limit!CustomerRefusal(r) PROVE LimiterInv'
  <2>1. /\ found' = [found EXCEPT ![r] = 0]
        /\ UNCHANGED <<now, asks, global, bucket, ll, evictedLL, due, over, forgotten, torn>>
    BY <1>2 DEF Limit!CustomerRefusal, Limit!None
  <2>2. found' \in [Requests -> {0} \cup DOMAIN bucket] /\ \A o \in Requests : found'[o] # 0 => found'[o] = found[o]
    BY <2>1 DEF LimiterInv, Limit!TypeOK, Limit!None
  <2>3. Limit!TypeOK'
    BY <2>1, <2>2 DEF LimiterInv, Limit!TypeOK, Limit!None
  <2>4. LimiterLists'
    BY <2>1 DEF LimiterInv, LimiterLists, Members, Distinct, KeyOf
  <2>5. LimiterDues'
    BY <2>1, <2>2 DEF LimiterInv, LimiterDues, Members, Spared, KeyOf
  <2> QED
    BY <2>3, <2>4, <2>5 DEF LimiterInv
<1> QED
  BY <1>1, <1>2, LimiterTouch, LimiterInsert, LimiterAllowed, LimiterTick DEF Limit!Next, Limit!Ask

LEMMA LimiterKeeps ==
    ASSUME LimiterInv
    PROVE  LimitsKept
<1>1. Limit!TypeOK /\ Limit!WithinAllowance
  BY DEF LimiterInv, LimiterDues, Limit!WithinAllowance, Spared
<1>2. Limit!Cardinality(Limit!Live) = Len(ll)
  <2>1. IsFiniteSet(Members(ll)) /\ Cardinality(Members(ll)) = Len(ll)
    BY LimiterFacts, DistinctCounts DEF LimiterInv, LimiterLists
  <2> DEFINE f == [b \in Members(ll) |-> KeyOf(b)]
  <2>2. f \in Bijection(Members(ll), Limit!Live)
    BY LimiterFacts DEF LimiterInv, LimiterLists, Bijection, Injection, Surjection, IsInjective
  <2>3. ExistsBijection(Members(ll), Limit!Live)
    BY <2>2 DEF ExistsBijection
  <2> QED
    BY <2>1, <2>3, FS_Bijection, LimitSame
<1>3. Limit!Cardinality(Limit!ToSet(evictedLL)) = Len(evictedLL)
  BY LimiterFacts, DistinctCounts, LimitSame DEF LimiterInv, LimiterLists
<1>4. Limit!Live \cap Limit!ToSet(evictedLL) = {}
  BY LimiterFacts DEF LimiterInv, LimiterLists
<1> QED
  BY <1>1, <1>2, <1>3, <1>4 DEF LimiterInv, LimiterLists, LimitsKept, Limit!ListsBounded

------------------------------------------------------------------------------
(* Steps that are counted *)

\* A set of numbers that has zero and the successor of each up to N.
LEMMA CountUp ==
    ASSUME NEW N \in Nat, NEW P, 0 \in P, \A n \in 1..N : n - 1 \in P => n \in P
    PROVE  \A n \in 0..N : n \in P
<1> DEFINE Others == {n \in 0..N : n \notin P}
           R == {p \in Nat \X Nat : p[1] < p[2]}
<1> SUFFICES ASSUME NEW k \in 0..N, k \notin P PROVE FALSE
  OBVIOUS
<1>1. Others \subseteq Nat /\ Others # {}
  OBVIOUS
<1>2. IsWellFoundedOn(R, Nat)
  BY NatLessThanWellFounded DEF OpToRel
<1>3. \E n \in Others : \A m \in Others : ~(<<m, n>> \in R)
  <2> HIDE DEF Others, R
  <2> QED
    BY <1>1, <1>2, WFMin
<1>4. PICK n \in Others : \A m \in Others : ~(<<m, n>> \in R)
  BY <1>3
<1>5. n \in 1..N /\ n - 1 \in 0..N
  OBVIOUS
<1>6. n - 1 \notin Others
  <2>1. <<n - 1, n>> \in R
    BY <1>5
  <2> HIDE DEF R
  <2> QED
    BY <1>4, <2>1
<1> QED
  BY <1>4, <1>5, <1>6

\* From a value each of N steps makes the next.
Steps(f, N, base, T) == f[0] = base /\ \A n \in 1..N : f[n] = T[n][f[n - 1]]

LEMMA StepsExist ==
    ASSUME NEW S, NEW N \in Nat, NEW base \in S, NEW T \in [1..N -> [S -> S]]
    PROVE  \E f \in [0..N -> S] : Steps(f, N, base, T)
<1> DEFINE Upto(m, f) == f[0] = base /\ \A n \in 1..m : f[n] = T[n][f[n - 1]]
           P == {m \in 0..N : \E f \in [0..m -> S] : Upto(m, f)}
<1>1. 0 \in P
  <2> PICK f : f = [n \in 0..0 |-> base]
    OBVIOUS
  <2>1. f \in [0..0 -> S] /\ f[0] = base
    OBVIOUS
  <2>2. 1..0 = {}
    OBVIOUS
  <2> QED
    BY <2>1, <2>2
<1>2. ASSUME NEW m \in 1..N, m - 1 \in P PROVE m \in P
  <2>1. PICK f \in [0..m - 1 -> S] : Upto(m - 1, f)
    BY <1>2
  <2> DEFINE g == [n \in 0..m |-> IF n = m THEN T[m][f[m - 1]] ELSE f[n]]
  <2>2. m - 1 \in 0..m - 1 /\ T[m] \in [S -> S]
    OBVIOUS
  <2>3. T[m][f[m - 1]] \in S
    BY <2>2
  <2>4. g \in [0..m -> S]
    BY <2>3
  <2>5. ASSUME NEW n \in 1..m PROVE g[n] = T[n][g[n - 1]]
    <3>1. CASE n = m
      BY <3>1
    <3>2. CASE n # m
      <4>1. n \in 1..m - 1 /\ n - 1 # m /\ n \in 0..m /\ n - 1 \in 0..m
        BY <3>2
      <4>2. g[n] = f[n] /\ g[n - 1] = f[n - 1]
        BY <3>2, <4>1
      <4> QED
        BY <2>1, <4>1, <4>2
    <3> QED
      BY <3>1, <3>2
  <2>6. g[0] = base
    BY <2>1
  <2> HIDE DEF g
  <2> QED
    BY <2>4, <2>5, <2>6
<1> HIDE DEF P
<1>3. N \in P
  <2>1. \A n \in 0..N : n \in P
    BY <1>1, <1>2, CountUp
  <2> QED
    BY <2>1
<1> QED
  BY <1>3 DEF P, Steps

\* Two functions that take the same steps.
\* The elements of a list that are in S, taken one after the other.
Picked(list, S, n, out) == IF list[n] \in S THEN Append(out[n - 1], list[n]) ELSE out[n - 1]

Picks(list, S, out) == out[0] = <<>> /\ \A n \in 1..Len(list) : out[n] = Picked(list, S, n, out)
PickedFrom(V, list, S, n, q) == q \in Seq(V) /\ Len(q) <= n /\ Members(q) = {list[i] : i \in 1..n} \cap S

LEMMA PickedExists ==
    ASSUME NEW V, NEW list \in Seq(V), NEW S
    PROVE  \E out \in [0..Len(list) -> Seq(V)] : Picks(list, S, out)
<1> DEFINE N == Len(list)
           T == [n \in 1..N |-> [q \in Seq(V) |-> IF list[n] \in S THEN Append(q, list[n]) ELSE q]]
<1>1. N \in Nat /\ <<>> \in Seq(V) /\ \A n \in 1..N : list[n] \in V
  BY ElementOfSeq
<1>2. T \in [1..N -> [Seq(V) -> Seq(V)]]
  <2>1. \A n \in 1..N, q \in Seq(V) : (IF list[n] \in S THEN Append(q, list[n]) ELSE q) \in Seq(V)
    BY <1>1, AppendProperties
  <2> QED
    BY <2>1
<1>3. PICK out \in [0..N -> Seq(V)] : out[0] = <<>> /\ \A n \in 1..N : out[n] = T[n][out[n - 1]]
  <2> DEFINE X == Seq(V)
             e == <<>>
  <2>1. e \in X /\ T \in [1..N -> [X -> X]]
    BY <1>1, <1>2
  <2> HIDE DEF T, N, X, e
  <2>2. \E f \in [0..N -> X] : Steps(f, N, e, T)
    BY <1>1, <2>1, StepsExist
  <2> QED
    BY <2>2 DEF X, e, Steps
<1>4. \A n \in 1..N : out[n - 1] \in Seq(V)
  BY <1>1
<1>5. \A n \in 1..N : out[n] = Picked(list, S, n, out)
  BY <1>3, <1>4 DEF Picked
<1> QED
  BY <1>3, <1>5 DEF Picks

LEMMA PickedIs ==
    ASSUME NEW V, NEW list \in Seq(V), NEW S, NEW out, Picks(list, S, out)
    PROVE  \A n \in 0..Len(list) : PickedFrom(V, list, S, n, out[n])
<1> DEFINE N == Len(list)
           Good(n) == PickedFrom(V, list, S, n, out[n])
           P == {n \in 0..N : Good(n)}
<1>1. N \in Nat /\ \A n \in 1..N : list[n] \in V
  BY ElementOfSeq
<1>2. 0 \in P
  <2>1. Members(<<>>) = {} /\ Len(<<>>) = 0 /\ <<>> \in Seq(V)
    BY DEF Members
  <2>2. {list[i] : i \in 1..0} = {}
    OBVIOUS
  <2>3. Good(0)
    BY <2>1, <2>2 DEF PickedFrom, Picks
  <2> HIDE DEF Good
  <2> QED
    BY <1>1, <2>3
<1>3. ASSUME NEW n \in 1..N, n - 1 \in P PROVE n \in P
  <2> PICK before : before = out[n - 1]
    OBVIOUS
  <2>1. before \in Seq(V) /\ Len(before) \in Nat /\ Len(before) <= n - 1 /\ Members(before) = {list[i] : i \in 1..n - 1} \cap S
    BY <1>3 DEF PickedFrom
  <2>2. {list[i] : i \in 1..n} = {list[i] : i \in 1..n - 1} \cup {list[n]}
    OBVIOUS
  <2>3. CASE list[n] \in S
    <3>1. out[n] = Append(before, list[n])
      BY <2>3 DEF Picks, Picked
    <3>2. out[n] \in Seq(V) /\ Len(out[n]) = Len(before) + 1 /\ Members(out[n]) = Members(before) \cup {list[n]}
      BY <1>1, <2>1, <3>1, PutBehind
    <3>3. Len(out[n]) <= n
      BY <2>1, <3>2
    <3>4. Members(out[n]) = {list[i] : i \in 1..n} \cap S
      BY <2>1, <2>2, <2>3, <3>2
    <3> QED
      BY <1>1, <3>2, <3>3, <3>4 DEF PickedFrom
  <2>4. CASE list[n] \notin S
    <3>1. out[n] = before
      BY <2>4 DEF Picks, Picked
    <3> QED
      BY <1>1, <2>1, <2>2, <2>4, <3>1 DEF PickedFrom
  <2> QED
    BY <2>3, <2>4
<1> HIDE DEF P
<1>4. \A n \in 0..N : n \in P
  BY <1>1, <1>2, <1>3, CountUp
<1> QED
  BY <1>4 DEF P

------------------------------------------------------------------------------
(* The chain of models *)

LEMMA ChainChosen ==
    ASSUME NEW V, NEW list \in Seq(V), NEW S
    PROVE  /\ Chain!Chosen(list, S) \in Seq(V) /\ Len(Chain!Chosen(list, S)) <= Len(list)
           /\ Members(Chain!Chosen(list, S)) = Members(list) \cap S
<1> DEFINE N == Len(list)
           Body(out) == [n \in 0..N |-> IF n = 0 THEN <<>> ELSE IF list[n] \in S THEN Append(out[n - 1], list[n]) ELSE out[n - 1]]
<1>1. N \in Nat
  OBVIOUS
<1>2. PICK g \in [0..N -> Seq(V)] : Picks(list, S, g)
  BY PickedExists
<1>3. g = Body(g)
  <2>1. \A n \in 0..N : g[n] = Body(g)[n]
    <3>1. ASSUME NEW n \in 0..N PROVE g[n] = Body(g)[n]
      <4>1. CASE n = 0
        BY <1>2, <4>1 DEF Picks
      <4>2. CASE n # 0
        <5>1. n \in 1..N
          BY <1>1, <4>2
        <5> QED
          BY <1>2, <4>2, <5>1 DEF Picks, Picked
      <4> QED
        BY <4>1, <4>2
    <3> QED
      BY <3>1
  <2> QED
    BY <1>2, <2>1
<1>4. PICK h : h = CHOOSE out : out = Body(out)
  OBVIOUS
<1>5. h = Body(h)
  BY <1>3, <1>4
<1>6. Chain!Chosen(list, S) = h[N]
  BY <1>4 DEF Chain!Chosen
<1>7. Picks(list, S, h)
  <2>1. h[0] = <<>>
    <3>1. h[0] = Body(h)[0]
      BY <1>5
    <3> QED
      BY <1>1, <3>1
  <2>2. ASSUME NEW n \in 1..N PROVE h[n] = Picked(list, S, n, h)
    <3>1. h[n] = Body(h)[n]
      BY <1>5
    <3>2. n \in 0..N /\ n # 0
      BY <1>1
    <3> QED
      BY <3>1, <3>2 DEF Picked
  <2> QED
    BY <2>1, <2>2 DEF Picks
<1>8. h[N] \in Seq(V) /\ Len(h[N]) <= N /\ Members(h[N]) = {list[k] : k \in 1..N} \cap S
  <2>1. \A n \in 0..N : PickedFrom(V, list, S, n, h[n])
    BY <1>7, PickedIs
  <2>2. N \in 0..N
    BY <1>1
  <2>3. PickedFrom(V, list, S, N, h[N])
    BY <2>1, <2>2
  <2> QED
    BY <2>3 DEF PickedFrom
<1> QED
  BY <1>6, <1>8 DEF Members

Times == 0..chainMaxTime
Notice == {"alert", "recovered"} \X Times
Monitor == [attempts : Seq(Times), fallbacks : Seq(Times), active : BOOLEAN, lastAlertSent : Times,
            said : Seq(Notice), records : Nat]

\* What was said last tells whether the alert stands, and when it was raised.
MonitorOK(m) ==
    /\ m \in Monitor
    /\ m.active <=> Chain!High(m)
    /\ m.said # <<>> /\ m.said[Len(m.said)][1] = "alert" => m.active /\ m.lastAlertSent = m.said[Len(m.said)][2]
    /\ \A i \in 1..Len(m.said) - 1 :
          m.said[i][1] = "alert" /\ m.said[i + 1][1] = "alert" => m.said[i + 1][2] - m.said[i][2] >= degradationAlertDelay

LEMMA ChainConstants ==
    /\ IsFiniteSet(Providers) /\ AlertShare \in Nat \ {0} /\ MaxIteration \in Nat \ {0} /\ maxModelRetriesPerProvider \in Nat
    /\ degradationWindow \in Nat /\ degradationMinCalls \in Nat /\ degradationAlertDelay \in Nat /\ chainMaxTime \in Nat
BY ChainAssumed, LimitSame DEF Chain!ModelChainAssumption, Chain!IsFiniteSet, IsFiniteSet

LEMMA ChainPrunes ==
    ASSUME NEW q \in Seq(Times), chainNow \in Times
    PROVE  Chain!pruneTimes(q) \in Seq(Times)
<1> DEFINE fresh == {i \in DOMAIN q : q[i] >= chainNow - degradationWindow}
           R == {p \in Nat \X Nat : p[1] < p[2]}
<1>1. Len(q) \in Nat /\ DOMAIN q = 1..Len(q) /\ \A i \in 1..Len(q) : q[i] \in Times
  BY ElementOfSeq, LenProperties
<1>2. CASE fresh = {}
  BY <1>2 DEF Chain!pruneTimes
<1>3. CASE fresh # {}
  <2>1. fresh \subseteq Nat /\ fresh \subseteq 1..Len(q)
    BY <1>1
  <2>2. IsWellFoundedOn(R, Nat)
    BY NatLessThanWellFounded DEF OpToRel
  <2>3. \E n \in fresh : \A m \in fresh : ~(<<m, n>> \in R)
    <3> HIDE DEF fresh, R
    <3> QED
      BY <1>3, <2>1, <2>2, WFMin
  <2>4. PICK n \in fresh : \A m \in fresh : ~(<<m, n>> \in R)
    BY <2>3
  <2>5. ASSUME NEW m \in fresh PROVE n <= m
    <3>1. <<m, n>> \notin R /\ m \in Nat /\ n \in Nat
      BY <2>1, <2>4
    <3> QED
      BY <3>1
  <2> HIDE DEF fresh, R
  <2>6. Chain!Min(fresh) \in fresh
    BY <2>5 DEF Chain!Min
  <2>7. PICK a \in 1..Len(q) : a = Chain!Min(fresh)
    BY <2>1, <2>6
  <2>8. Chain!pruneTimes(q) = SubSeq(q, a, Len(q))
    BY <1>3, <2>7 DEF Chain!pruneTimes, fresh
  <2>9. SubSeq(q, a, Len(q)) \in Seq(Times)
    <3>1. a \in Int /\ Len(q) \in Int /\ \A i \in a..Len(q) : q[i] \in Times
      BY <1>1
    <3> QED
      BY <3>1, SubSeqProperties
  <2> QED
    BY <2>8, <2>9
<1> QED
  BY <1>2, <1>3

LEMMA ChainRecords ==
    ASSUME NEW m, MonitorOK(m), chainNow \in Times, NEW fallback \in BOOLEAN
    PROVE  MonitorOK(Chain!record(m, fallback))
<1> PICK c : c = Chain!CountedNow(m, fallback)
  OBVIOUS
<1>1. /\ m \in Monitor /\ m.attempts \in Seq(Times) /\ m.fallbacks \in Seq(Times) /\ m.said \in Seq(Notice) /\ m.records \in Nat
      /\ m.active \in BOOLEAN /\ m.lastAlertSent \in Times
  BY DEF MonitorOK, Monitor
<1>2. Chain!pruneTimes(m.attempts) \in Seq(Times) /\ Chain!pruneTimes(m.fallbacks) \in Seq(Times)
  BY <1>1, ChainPrunes
<1>3. /\ Append(Chain!pruneTimes(m.attempts), chainNow) \in Seq(Times) /\ Append(Chain!pruneTimes(m.fallbacks), chainNow) \in Seq(Times)
  BY <1>2, AppendProperties
<1>4. /\ c \in Monitor /\ c.said = m.said /\ c.active = m.active /\ c.lastAlertSent = m.lastAlertSent
  <2>1. PICK a \in Seq(Times), f \in Seq(Times), n \in Nat : c = [m EXCEPT !.records = n, !.attempts = a, !.fallbacks = f]
    <3>1. PICK f \in Seq(Times) : f = IF fallback THEN Append(Chain!pruneTimes(m.fallbacks), chainNow) ELSE Chain!pruneTimes(m.fallbacks)
      BY <1>2, <1>3
    <3>2. PICK n \in Nat : n = m.records + 1
      BY <1>1
    <3>3. PICK a \in Seq(Times) : a = Append(Chain!pruneTimes(m.attempts), chainNow)
      BY <1>3
    <3>4. c = [m EXCEPT !.records = n, !.attempts = a, !.fallbacks = f]
      BY <3>1, <3>2, <3>3 DEF Chain!CountedNow
    <3> QED
      BY <3>4
  <2> QED
    BY <1>1, <2>1 DEF Monitor
<1>5. Len(m.said) \in Nat /\ \A i \in 1..Len(m.said) : m.said[i] \in Notice
  BY <1>1, ElementOfSeq
<1>6. ASSUME NEW k \in {"alert", "recovered"}
      PROVE  /\ Append(m.said, <<k, chainNow>>) \in Seq(Notice) /\ Len(Append(m.said, <<k, chainNow>>)) = Len(m.said) + 1
             /\ Append(m.said, <<k, chainNow>>)[Len(m.said) + 1] = <<k, chainNow>>
             /\ \A i \in 1..Len(m.said) : Append(m.said, <<k, chainNow>>)[i] = m.said[i]
  <2>1. <<k, chainNow>> \in Notice
    BY DEF Notice
  <2> QED
    BY <1>1, <2>1, AppendProperties
<1>7. chainNow \in Int /\ degradationAlertDelay \in Int /\ m.lastAlertSent \in Int
  BY <1>1, ChainConstants DEF Times
<1>8. CASE Chain!MustAlert(c)
  <2> PICK r : r = [c EXCEPT !.active = TRUE, !.lastAlertSent = chainNow, !.said = Append(c.said, <<"alert", chainNow>>)]
    OBVIOUS
  <2> PICK said1 : said1 = Append(m.said, <<"alert", chainNow>>)
    OBVIOUS
  <2>1. Chain!record(m, fallback) = r
    BY <1>8 DEF Chain!record, Chain!Alerted
  <2>2. r \in Monitor /\ r.active = TRUE /\ r.lastAlertSent = chainNow /\ r.said = said1 /\ r.attempts = c.attempts /\ r.fallbacks = c.fallbacks
    BY <1>4, <1>6 DEF Monitor
  <2>3. Chain!High(r)
    BY <1>8, <2>2 DEF Chain!MustAlert, Chain!High
  <2>4. /\ said1 \in Seq(Notice) /\ Len(said1) = Len(m.said) + 1 /\ said1[Len(m.said) + 1] = <<"alert", chainNow>>
        /\ \A i \in 1..Len(m.said) : said1[i] = m.said[i]
    BY <1>6
  <2>5. ASSUME NEW i \in 1..Len(said1) - 1, said1[i][1] = "alert", said1[i + 1][1] = "alert"
        PROVE  said1[i + 1][2] - said1[i][2] >= degradationAlertDelay
    <3>1. i \in 1..Len(m.said) /\ said1[i] = m.said[i]
      BY <1>5, <2>4
    <3>2. CASE i = Len(m.said)
      <4>1. m.said # <<>> /\ m.active /\ m.lastAlertSent = m.said[i][2]
        BY <1>5, <2>5, <3>1, <3>2 DEF MonitorOK
      <4>2. chainNow - m.lastAlertSent >= degradationAlertDelay
        BY <1>4, <1>8, <4>1 DEF Chain!MustAlert
      <4> QED
        BY <2>4, <3>1, <3>2, <4>1, <4>2
    <3>3. CASE i # Len(m.said)
      <4>1. i \in 1..Len(m.said) - 1 /\ i + 1 \in 1..Len(m.said)
        BY <1>5, <3>1, <3>3
      <4>2. said1[i + 1] = m.said[i + 1]
        BY <2>4, <4>1
      <4> QED
        BY <2>5, <3>1, <4>1, <4>2 DEF MonitorOK
    <3> QED
      BY <3>2, <3>3
  <2>6. r.said[Len(r.said)] = <<"alert", chainNow>>
    BY <2>2, <2>4
  <2>7. /\ \A i \in 1..Len(r.said) - 1 :
              r.said[i][1] = "alert" /\ r.said[i + 1][1] = "alert" => r.said[i + 1][2] - r.said[i][2] >= degradationAlertDelay
        /\ r.said # <<>> /\ r.said[Len(r.said)][1] = "alert" => r.active /\ r.lastAlertSent = r.said[Len(r.said)][2]
        /\ r.active <=> Chain!High(r)
    <3>1. \A i \in 1..Len(said1) - 1 :
              said1[i][1] = "alert" /\ said1[i + 1][1] = "alert" => said1[i + 1][2] - said1[i][2] >= degradationAlertDelay
      BY <2>5
    <3>2. \A i \in 1..Len(r.said) - 1 :
              r.said[i][1] = "alert" /\ r.said[i + 1][1] = "alert" => r.said[i + 1][2] - r.said[i][2] >= degradationAlertDelay
      BY <2>2, <3>1
    <3>3. r.active
      BY <2>2, Zenon
    <3>4. r.said # <<>> /\ r.said[Len(r.said)][1] = "alert" => r.active /\ r.lastAlertSent = r.said[Len(r.said)][2]
      <4>1. r.said[Len(r.said)][2] = r.lastAlertSent
        BY <2>2, <2>6
      <4> QED
        BY <3>3, <4>1
    <3>5. r.active <=> Chain!High(r)
      BY <2>3, <3>3
    <3> QED
      BY <3>2, <3>4, <3>5
  <2>8. MonitorOK(r)
    BY <2>2, <2>7 DEF MonitorOK
  <2> QED
    BY <2>1, <2>8
<1>9. CASE ~Chain!MustAlert(c) /\ Chain!MustRecover(c)
  <2> PICK r : r = [c EXCEPT !.active = FALSE, !.said = Append(c.said, <<"recovered", chainNow>>)]
    OBVIOUS
  <2> PICK said1 : said1 = Append(m.said, <<"recovered", chainNow>>)
    OBVIOUS
  <2>1. Chain!record(m, fallback) = r
    BY <1>9 DEF Chain!record
  <2>2. r \in Monitor /\ r.active = FALSE /\ r.said = said1 /\ r.attempts = c.attempts /\ r.fallbacks = c.fallbacks
    BY <1>4, <1>6 DEF Monitor
  <2>3. ~Chain!High(r)
    BY <1>9, <2>2 DEF Chain!MustRecover, Chain!High
  <2>4. /\ said1 \in Seq(Notice) /\ Len(said1) = Len(m.said) + 1 /\ said1[Len(m.said) + 1] = <<"recovered", chainNow>>
        /\ \A i \in 1..Len(m.said) : said1[i] = m.said[i]
    BY <1>6
  <2>5. ASSUME NEW i \in 1..Len(said1) - 1, said1[i][1] = "alert", said1[i + 1][1] = "alert"
        PROVE  said1[i + 1][2] - said1[i][2] >= degradationAlertDelay
    <3>1. i \in 1..Len(m.said) /\ said1[i] = m.said[i]
      BY <1>5, <2>4
    <3>2. i # Len(m.said)
      BY <2>4, <2>5
    <3>3. i \in 1..Len(m.said) - 1 /\ i + 1 \in 1..Len(m.said)
      BY <1>5, <3>1, <3>2
    <3>4. said1[i + 1] = m.said[i + 1]
      BY <2>4, <3>3
    <3> QED
      BY <2>5, <3>1, <3>3, <3>4 DEF MonitorOK
  <2>6. r.said[Len(r.said)] = <<"recovered", chainNow>>
    BY <2>2, <2>4
  <2>7. /\ \A i \in 1..Len(r.said) - 1 :
              r.said[i][1] = "alert" /\ r.said[i + 1][1] = "alert" => r.said[i + 1][2] - r.said[i][2] >= degradationAlertDelay
        /\ r.said # <<>> /\ r.said[Len(r.said)][1] = "alert" => r.active /\ r.lastAlertSent = r.said[Len(r.said)][2]
        /\ r.active <=> Chain!High(r)
    <3>1. \A i \in 1..Len(said1) - 1 :
              said1[i][1] = "alert" /\ said1[i + 1][1] = "alert" => said1[i + 1][2] - said1[i][2] >= degradationAlertDelay
      BY <2>5
    <3>2. \A i \in 1..Len(r.said) - 1 :
              r.said[i][1] = "alert" /\ r.said[i + 1][1] = "alert" => r.said[i + 1][2] - r.said[i][2] >= degradationAlertDelay
      BY <2>2, <3>1
    <3>3. ~r.active
      BY <2>2, Zenon
    <3>4. r.said # <<>> /\ r.said[Len(r.said)][1] = "alert" => r.active /\ r.lastAlertSent = r.said[Len(r.said)][2]
      <4>1. r.said[Len(r.said)][1] # "alert"
        BY <2>6
      <4> QED
        BY <4>1
    <3>5. r.active <=> Chain!High(r)
      BY <2>3, <3>3
    <3> QED
      BY <3>2, <3>4, <3>5
  <2>8. MonitorOK(r)
    BY <2>2, <2>7 DEF MonitorOK
  <2> QED
    BY <2>1, <2>8
<1>10. CASE ~Chain!MustAlert(c) /\ ~Chain!MustRecover(c)
  <2>1. Chain!record(m, fallback) = c
    BY <1>10 DEF Chain!record
  <2>2. c.active <=> Chain!High(c)
    BY <1>4, <1>10 DEF Chain!MustAlert, Chain!MustRecover, Monitor
  <2> QED
    BY <1>4, <2>1, <2>2 DEF MonitorOK
<1> QED
  BY <1>8, <1>9, <1>10

Turn == [phase : {"idle", "model", "tool", "answered", "failed"}, asked : Seq(Providers \cup {"stub"}), failovers : Nat,
         err : Chain!Errors \cup {"none"}, left : 0..MaxIteration, tool : {"read", "write", "none"}, runs : 0..2,
         cancelled : BOOLEAN]

Asked(t) == {used} \cup {Chain!remaining[i] : i \in 1..t.failovers}

\* Who was asked so far, and how often a tool was run.
Follows(t) ==
    /\ t.failovers <= Len(Chain!remaining) /\ (used = "stub" => t.failovers = 0)
    /\ t.phase # "idle" => t.asked # <<>> /\ Members(t.asked) = Asked(t)
    /\ t.phase = "idle" => t.failovers = 0
    /\ t.phase = "model" => t.runs = 0 /\ t.tool = "none"
    /\ t.phase = "tool" => t.tool \in {"read", "write"} /\ t.runs < Chain!MaxAttempts(t.tool)
    /\ t.phase # "failed" => t.err = "none"
    /\ t.tool = "write" => t.runs <= 1
    /\ t.phase = "failed" /\ Chain!isTransientProviderError(t.err) /\ ~t.cancelled /\ Members(chain) \subseteq buildable
          => Asked(t) = Members(chain)

ChainInv ==
    /\ chain \in Seq(Providers) /\ buildable \subseteq Providers /\ used \in {"none", "stub"} \cup Members(chain)
    /\ chainNow \in Times /\ MonitorOK(monitor) /\ turn \in Turn
    /\ (used = "none" => turn.phase = "idle") /\ Follows(turn)

LEMMA ChainFacts ==
    ASSUME ChainInv
    PROVE  /\ Members(chain) \subseteq Providers /\ Chain!ToSet(chain) = Members(chain) /\ Len(chain) \in Nat /\ DOMAIN chain = 1..Len(chain)
           /\ \A i \in 1..Len(chain) : chain[i] \in Members(chain)
           /\ Chain!remaining \in Seq(Providers) /\ Len(Chain!remaining) \in Nat /\ Len(Chain!remaining) <= Len(chain)
           /\ \A i \in 1..Len(Chain!remaining) : Chain!remaining[i] \in Members(chain) /\ Chain!remaining[i] \in Providers
           /\ {Chain!remaining[i] : i \in 1..Len(Chain!remaining)} = Members(chain) \ {used}
           /\ turn.asked \in Seq(Providers \cup {"stub"}) /\ Len(turn.asked) \in Nat /\ Chain!ToSet(turn.asked) = Members(turn.asked)
<1>1. chain \in Seq(Providers) /\ turn.asked \in Seq(Providers \cup {"stub"})
  BY DEF ChainInv, Turn
<1>2. Members(chain) \subseteq Providers /\ Len(chain) \in Nat /\ \A i \in 1..Len(chain) : chain[i] \in Members(chain)
  BY <1>1, InMembers
<1>3. DOMAIN chain = 1..Len(chain) /\ DOMAIN turn.asked = 1..Len(turn.asked) /\ Len(turn.asked) \in Nat
  BY <1>1, LenProperties
<1>4. Chain!ToSet(chain) = Members(chain) /\ Chain!ToSet(turn.asked) = Members(turn.asked)
  BY <1>3 DEF Chain!ToSet, Members
<1> PICK rest : rest = Chain!remaining
  OBVIOUS
<1>5. rest \in Seq(Providers) /\ Len(rest) <= Len(chain) /\ Members(rest) = Members(chain) \cap (Providers \ {used})
  <2>1. rest = Chain!Chosen(chain, Providers \ {used})
    BY DEF Chain!remaining
  <2> QED
    BY <1>1, <2>1, ChainChosen
<1>6. Len(rest) \in Nat /\ Members(rest) = Members(chain) \ {used}
  BY <1>2, <1>5
<1>7. \A i \in 1..Len(rest) : rest[i] \in Members(rest)
  BY DEF Members
<1>8. {rest[i] : i \in 1..Len(rest)} = Members(rest)
  BY DEF Members
<1> QED
  BY <1>1, <1>2, <1>3, <1>4, <1>5, <1>6, <1>7, <1>8

LEMMA ChainStart ==
    ASSUME Chain!Init
    PROVE  ChainInv
<1>1. chain \in Seq(Providers) /\ buildable \subseteq Providers /\ used = "none" /\ turn = Chain!NoTurn /\ chainNow = 0
  <2>1. PICK names \in Lists : chain = Chain!Chosen(names, Providers)
    BY DEF Chain!Init, Chain!parseProviderList
  <2>2. names \in Seq(Chain!ToSet(names))
    BY ChainAssumed DEF Chain!ModelChainAssumption
  <2>3. chain \in Seq(Chain!ToSet(names)) /\ Members(chain) = Members(names) \cap Providers
    BY <2>1, <2>2, ChainChosen
  <2>4. chain \in Seq(Members(chain))
    BY <2>3, InMembers
  <2>5. chain \in Seq(Providers)
    <3>1. \A i \in 1..Len(chain) : chain[i] \in Providers
      BY <2>3 DEF Members
    <3> QED
      BY <2>4, <3>1
  <2> QED
    BY <2>5 DEF Chain!Init, Chain!None
<1>2. chainNow \in Times
  BY <1>1, ChainConstants DEF Times
<1>3. MonitorOK(monitor)
  <2>1. /\ monitor = [attempts |-> <<>>, fallbacks |-> <<>>, active |-> FALSE, lastAlertSent |-> 0, said |-> <<>>, records |-> 0]
    BY DEF Chain!Init
  <2>2. monitor \in Monitor
    BY <1>1, <1>2, <2>1 DEF Monitor
  <2>3. ~Chain!High(monitor)
    <3>1. AlertShare * Len(<<>>) = 0 /\ Len(<<>>) = 0
      BY ChainConstants
    <3>2. monitor.fallbacks = <<>> /\ monitor.attempts = <<>>
      BY <2>1
    <3> QED
      BY <3>1, <3>2 DEF Chain!High
  <2>4. ~monitor.active /\ monitor.said = <<>>
    BY <2>1
  <2> QED
    BY <2>2, <2>3, <2>4 DEF MonitorOK
<1>4. turn \in Turn /\ turn.phase = "idle" /\ turn.failovers = 0 /\ turn.tool = "none" /\ turn.err = "none"
  BY <1>1, ChainConstants DEF Turn, Chain!NoTurn, Chain!None
<1>5. Len(Chain!remaining) \in Nat
  <2>1. Chain!remaining \in Seq(Providers)
    BY <1>1, ChainChosen DEF Chain!remaining
  <2> QED
    BY <2>1
<1>6. Follows(turn)
  BY <1>4, <1>5 DEF Follows
<1> QED
  BY <1>1, <1>2, <1>3, <1>4, <1>6 DEF ChainInv

\* A turn that begins, and each call of the model after a tool, starts from the provider in use.
LEMMA ChainAsks ==
    ASSUME ChainInv, NEW t \in Turn, used # "none", t.left > 0
    PROVE  Chain!Asked(t) \in Turn /\ Follows(Chain!Asked(t))
<1> PICK a : a = Chain!Asked(t)
  OBVIOUS
<1>1. used \in Providers \cup {"stub"}
  BY ChainFacts DEF ChainInv
<1>2. <<used>> \in Seq(Providers \cup {"stub"}) /\ <<used>> # <<>> /\ Members(<<used>>) = {used}
  BY <1>1 DEF Members
<1>3. a = [t EXCEPT !.phase = "model", !.asked = <<used>>, !.failovers = 0, !.err = "none", !.tool = "none", !.runs = 0, !.left = t.left - 1]
  BY DEF Chain!Asked, Chain!None
<1>4. /\ a \in Turn /\ a.phase = "model" /\ a.asked = <<used>> /\ a.failovers = 0 /\ a.err = "none" /\ a.tool = "none" /\ a.runs = 0
  <2>1. t.left - 1 \in 0..MaxIteration
    BY ChainConstants DEF Turn
  <2>2. PICK l \in 0..MaxIteration : l = t.left - 1
    BY <2>1
  <2>3. PICK q \in Seq(Providers \cup {"stub"}) : q = <<used>>
    BY <1>2
  <2>4. a = [t EXCEPT !.phase = "model", !.asked = q, !.failovers = 0, !.err = "none", !.tool = "none", !.runs = 0, !.left = l]
    BY <1>3, <2>2, <2>3
  <2>6. PICK c \in BOOLEAN : c = t.cancelled
    BY DEF Turn
  <2>7. a = [phase |-> "model", asked |-> q, failovers |-> 0, err |-> "none", left |-> l, tool |-> "none", runs |-> 0, cancelled |-> c]
    BY <2>4, <2>6 DEF Turn
  <2>5. a \in Turn /\ a.phase = "model" /\ a.asked = q /\ a.failovers = 0 /\ a.err = "none" /\ a.tool = "none" /\ a.runs = 0
    BY <2>7 DEF Turn
  <2> QED
    BY <2>3, <2>5
<1>5. Asked(a) = {used}
  BY <1>4 DEF Asked
<1> QED
  BY <1>2, <1>4, <1>5, ChainFacts DEF Follows

\* A step that leaves the providers alone.
LEMMA ChainStays ==
    ASSUME ChainInv, UNCHANGED <<chain, buildable, used>>, turn' \in Turn, Follows(turn'), used = "none" => turn'.phase = "idle",
           chainNow' \in Times, MonitorOK(monitor')
    PROVE  ChainInv'
<1>1. Chain!remaining' = Chain!remaining
  BY DEF Chain!remaining
<1>2. Asked(turn)' = Asked(turn')
  BY <1>1 DEF Asked
<1>3. Follows(turn)'
  BY <1>1, <1>2 DEF Follows
<1> QED
  BY <1>3 DEF ChainInv

LEMMA LeastOf ==
    ASSUME NEW S, S \subseteq Nat, S # {}
    PROVE  \E n \in S : \A m \in S : n <= m
<1> DEFINE R == {p \in Nat \X Nat : p[1] < p[2]}
<1>1. IsWellFoundedOn(R, Nat)
  BY NatLessThanWellFounded DEF OpToRel
<1>2. PICK n \in S : \A m \in S : ~(<<m, n>> \in R)
  <2> HIDE DEF R
  <2> QED
    BY <1>1, WFMin
<1>3. ASSUME NEW m \in S PROVE n <= m
  <2>1. <<m, n>> \notin R /\ m \in Nat /\ n \in Nat
    BY <1>2
  <2> QED
    BY <2>1
<1> QED
  BY <1>3

LEMMA ChainBuilds ==
    ASSUME ChainInv, Chain!BuildTyped
    PROVE  ChainInv'
<1> DEFINE able == {i \in DOMAIN chain : Chain!buildProvider(chain[i])}
<1>1. used' = Chain!NewModelWithFallback /\ UNCHANGED <<chain, buildable, turn, chainNow, monitor>> /\ used = "none"
  BY DEF Chain!BuildTyped, Chain!None
<1>2. used' \in {"stub"} \cup Members(chain)
  <2>1. CASE able = {}
    BY <1>1, <2>1 DEF Chain!NewModelWithFallback, Chain!Stub
  <2>2. CASE able # {}
    <3>1. able \subseteq 1..Len(chain) /\ able \subseteq Nat
      BY ChainFacts
    <3>2. \E i \in able : \A j \in able : i <= j
      <4> HIDE DEF able
      <4> QED
        BY <2>2, <3>1, LeastOf
    <3>3. (CHOOSE i \in able : \A j \in able : i <= j) \in able
      BY <3>2
    <3>4. PICK i \in able : i = CHOOSE e \in able : \A j \in able : e <= j
      BY <3>3
    <3>5. used' = chain[i]
      BY <1>1, <2>2, <3>4 DEF Chain!NewModelWithFallback
    <3> QED
      BY <3>1, <3>5, ChainFacts
  <2> QED
    BY <2>1, <2>2
<1>3. turn \in Turn /\ turn.phase = "idle" /\ turn.failovers = 0 /\ turn.err = "none" /\ (turn.tool = "write" => turn.runs <= 1)
  BY <1>1 DEF ChainInv, Follows
<1>4. Len(Chain!remaining') \in Nat
  <2>1. Chain!remaining' \in Seq(Providers)
    BY <1>1, ChainChosen DEF Chain!remaining, ChainInv
  <2> QED
    BY <2>1
<1>5. Follows(turn)'
  BY <1>1, <1>3, <1>4 DEF Follows
<1> QED
  BY <1>1, <1>2, <1>3, <1>5 DEF ChainInv

\* A call of the model fails: who is asked next, or that nobody is left.
LEMMA ChainFails ==
    ASSUME ChainInv, NEW err \in Chain!Errors, Chain!Fail(err)
    PROVE  ChainInv'
<1> DEFINE next == Chain!remaining[turn.failovers + 1]
<1>1. /\ turn \in Turn /\ turn.phase = "model" /\ Chain!Current # "stub" /\ UNCHANGED <<chain, buildable, used, chainNow>>
      /\ chainNow \in Times /\ MonitorOK(monitor) /\ used # "none" /\ Follows(turn)
  BY DEF ChainInv, Chain!Fail, Chain!Stub
<1>2. /\ turn.asked \in Seq(Providers \cup {"stub"}) /\ turn.asked # <<>> /\ Len(turn.asked) \in Nat \ {0}
      /\ Members(turn.asked) = Asked(turn) /\ turn.failovers \in Nat /\ turn.failovers <= Len(Chain!remaining)
  BY <1>1, ChainFacts DEF Follows, Turn
<1>3. Chain!Current \in Members(turn.asked) /\ Chain!Current \in Providers
  <2>1. Chain!Current = turn.asked[Len(turn.asked)]
    BY DEF Chain!Current, Chain!Last
  <2>2. Len(turn.asked) \in 1..Len(turn.asked)
    BY <1>2
  <2>3. Chain!Current \in Members(turn.asked) /\ Chain!Current \in Providers \cup {"stub"}
    BY <1>2, <2>1, <2>2, InMembers
  <2> QED
    BY <1>1, <2>3
<1>4. used # "stub"
  <2>1. used = "stub" => turn.failovers = 0 /\ Asked(turn) = {"stub"}
    BY <1>1 DEF Follows, Asked
  <2> QED
    BY <1>1, <1>2, <1>3, <2>1
<1>5. MonitorOK(Chain!RecordAttempt(monitor)) /\ MonitorOK(Chain!RecordFallback(Chain!RecordAttempt(monitor)))
  BY <1>1, ChainRecords DEF Chain!RecordAttempt, Chain!RecordFallback
<1>6. CASE Chain!MayRetry(err)
  <2>1. turn' = [turn EXCEPT !.asked = Append(turn.asked, Chain!Current)] /\ monitor' = Chain!RecordAttempt(monitor)
    BY <1>6 DEF Chain!Fail, Chain!Recorded
  <2>2. PICK q \in Seq(Providers \cup {"stub"}) : q = Append(turn.asked, Chain!Current) /\ q # <<>> /\ Members(q) = Asked(turn)
    <3>1. /\ Append(turn.asked, Chain!Current) \in Seq(Providers \cup {"stub"}) /\ Len(Append(turn.asked, Chain!Current)) # 0
          /\ Members(Append(turn.asked, Chain!Current)) = Members(turn.asked) \cup {Chain!Current}
      BY <1>2, <1>3, PutBehind
    <3>2. Append(turn.asked, Chain!Current) # <<>>
      BY <3>1
    <3>3. Members(turn.asked) \cup {Chain!Current} = Asked(turn)
      BY <1>2, <1>3
    <3> QED
      BY <3>1, <3>2, <3>3
  <2>3. turn' = [turn EXCEPT !.asked = q]
    BY <2>1, <2>2
  <2>4. /\ turn' \in Turn /\ turn'.asked = q /\ turn'.phase = turn.phase /\ turn'.failovers = turn.failovers /\ turn'.err = turn.err
        /\ turn'.tool = turn.tool /\ turn'.runs = turn.runs /\ turn'.cancelled = turn.cancelled
    BY <1>1, <2>3 DEF Turn
  <2>5. Follows(turn')
    BY <1>1, <2>2, <2>4 DEF Follows, Asked
  <2> QED
    BY <1>1, <1>5, <2>1, <2>4, <2>5, ChainStays
<1>7. CASE ~Chain!MayRetry(err) /\ Chain!ShouldFailover(err) /\ Chain!buildProvider(next)
  <2>1. turn' = [turn EXCEPT !.asked = Append(turn.asked, next), !.failovers = turn.failovers + 1] /\ monitor' = Chain!RecordFallback(Chain!RecordAttempt(monitor))
    BY <1>7 DEF Chain!Fail, Chain!Recorded
  <2>2. turn.failovers < Len(Chain!remaining)
    BY <1>7 DEF Chain!ShouldFailover
  <2>3. turn.failovers + 1 \in 1..Len(Chain!remaining) /\ turn.failovers + 1 <= Len(Chain!remaining)
    BY <1>2, <2>2, ChainFacts
  <2>4. next \in Providers
    BY <2>3, ChainFacts
  <2>5. PICK q \in Seq(Providers \cup {"stub"}) : q = Append(turn.asked, next) /\ q # <<>> /\ Members(q) = Asked(turn) \cup {next}
    <3>1. /\ Append(turn.asked, next) \in Seq(Providers \cup {"stub"}) /\ Len(Append(turn.asked, next)) # 0
          /\ Members(Append(turn.asked, next)) = Members(turn.asked) \cup {next}
      BY <1>2, <2>4, PutBehind
    <3>2. Append(turn.asked, next) # <<>>
      BY <3>1
    <3>3. Members(turn.asked) \cup {next} = Asked(turn) \cup {next}
      BY <1>2
    <3> QED
      BY <3>1, <3>2, <3>3
  <2>6. PICK n \in Nat : n = turn.failovers + 1
    BY <1>2
  <2>7. turn' = [turn EXCEPT !.asked = q, !.failovers = n]
    BY <2>1, <2>5, <2>6
  <2>8. /\ turn' \in Turn /\ turn'.asked = q /\ turn'.phase = turn.phase /\ turn'.failovers = n /\ turn'.err = turn.err
        /\ turn'.tool = turn.tool /\ turn'.runs = turn.runs /\ turn'.cancelled = turn.cancelled
    BY <1>1, <2>7 DEF Turn
  <2>9. Asked(turn') = Asked(turn) \cup {next}
    <3>1. 1..n = 1..turn.failovers \cup {n} /\ next = Chain!remaining[n]
      BY <1>2, <2>6
    <3> QED
      BY <2>8, <3>1 DEF Asked
  <2>10. n <= Len(Chain!remaining)
    BY <2>3, <2>6
  <2>11. Follows(turn')
    BY <1>1, <1>4, <2>5, <2>8, <2>9, <2>10 DEF Follows
  <2> QED
    BY <1>1, <1>5, <2>1, <2>8, <2>11, ChainStays
<1>8. CASE ~Chain!MayRetry(err) /\ ~(Chain!ShouldFailover(err) /\ Chain!buildProvider(next))
  <2>1. turn' = [turn EXCEPT !.phase = "failed", !.err = err] /\ monitor' = Chain!RecordAttempt(monitor)
    BY <1>8 DEF Chain!Fail, Chain!Recorded
  <2>2. /\ turn' \in Turn /\ turn'.asked = turn.asked /\ turn'.phase = "failed" /\ turn'.failovers = turn.failovers /\ turn'.err = err
        /\ turn'.tool = turn.tool /\ turn'.runs = turn.runs /\ turn'.cancelled = turn.cancelled
    BY <1>1, <2>1 DEF Turn
  <2>3. Asked(turn') = Asked(turn)
    BY <2>2 DEF Asked
  <2>4. ASSUME Chain!isTransientProviderError(err), ~turn.cancelled, Members(chain) \subseteq buildable PROVE Asked(turn) = Members(chain)
    <3>1. turn.failovers = Len(Chain!remaining)
      <4>1. SUFFICES ASSUME turn.failovers # Len(Chain!remaining) PROVE FALSE
        OBVIOUS
      <4>2. turn.failovers < Len(Chain!remaining) /\ turn.failovers + 1 \in 1..Len(Chain!remaining)
        BY <1>2, <4>1, ChainFacts
      <4>3. Chain!ShouldFailover(err)
        BY <1>4, <2>4, <4>2 DEF Chain!ShouldFailover, Chain!Stub
      <4>4. next \in buildable
        BY <2>4, <4>2, ChainFacts
      <4> QED
        BY <1>8, <4>3, <4>4 DEF Chain!buildProvider
    <3>2. Asked(turn) = {used} \cup (Members(chain) \ {used})
      BY <3>1, ChainFacts DEF Asked
    <3>3. used \in Members(chain)
      BY <1>1, <1>4 DEF ChainInv
    <3> QED
      BY <3>2, <3>3
  <2>5. Follows(turn')
    BY <1>1, <1>2, <2>2, <2>3, <2>4 DEF Follows
  <2> QED
    BY <1>1, <1>5, <2>1, <2>2, <2>5, ChainStays
<1> QED
  BY <1>6, <1>7, <1>8

\* A tool runs, again if it only reads, and then the model is asked once more.
LEMMA ChainRuns ==
    ASSUME ChainInv, NEW outcome, Chain!Run(outcome)
    PROVE  ChainInv'
<1> DEFINE again == outcome = "passing" /\ turn.runs + 1 < Chain!MaxAttempts(turn.tool) /\ ~turn.cancelled
<1>1. /\ turn \in Turn /\ turn.phase = "tool" /\ UNCHANGED <<chain, buildable, used, chainNow, monitor>>
      /\ chainNow \in Times /\ MonitorOK(monitor) /\ used # "none" /\ Follows(turn)
  BY DEF ChainInv, Chain!Run
<1>2. turn.tool \in {"read", "write"} /\ turn.runs < Chain!MaxAttempts(turn.tool) /\ turn.runs \in 0..2
  BY <1>1 DEF Follows, Turn
<1>3. Chain!MaxAttempts("read") = 2 /\ Chain!MaxAttempts("write") = 1
  BY DEF Chain!MaxAttempts
<1>4. turn.runs + 1 \in 0..2
  BY <1>2, <1>3
<1>5. PICK n \in 0..2 : n = turn.runs + 1
  BY <1>4
<1>6. PICK ran : ran = [turn EXCEPT !.runs = n]
  OBVIOUS
<1>7. /\ ran \in Turn /\ ran.asked = turn.asked /\ ran.phase = "tool" /\ ran.failovers = turn.failovers /\ ran.err = turn.err
      /\ ran.tool = turn.tool /\ ran.runs = n /\ ran.cancelled = turn.cancelled /\ ran.left = turn.left
  BY <1>1, <1>6 DEF Turn
<1>8. turn' = IF again THEN ran ELSE IF turn.left = 0 THEN [ran EXCEPT !.phase = "failed"] ELSE Chain!Asked(ran)
  BY <1>5, <1>6 DEF Chain!Run
<1> HIDE DEF again
<1>9. turn.tool = "write" => n <= 1
  BY <1>2, <1>3, <1>5
<1>10. CASE again
  <2>1. turn' = ran
    BY <1>8, <1>10
  <2>2. Asked(ran) = Asked(turn)
    BY <1>7 DEF Asked
  <2>3. n < Chain!MaxAttempts(turn.tool)
    BY <1>5, <1>10 DEF again
  <2>4. Follows(ran)
    BY <1>1, <1>2, <1>7, <1>9, <2>2, <2>3 DEF Follows
  <2> QED
    BY <1>1, <1>7, <2>1, <2>4, ChainStays
<1>11. CASE ~again /\ turn.left = 0
  <2>1. turn' = [ran EXCEPT !.phase = "failed"]
    BY <1>8, <1>11
  <2>2. /\ turn' \in Turn /\ turn'.asked = turn.asked /\ turn'.phase = "failed" /\ turn'.failovers = turn.failovers /\ turn'.err = turn.err
        /\ turn'.tool = turn.tool /\ turn'.runs = n /\ turn'.cancelled = turn.cancelled
    BY <1>7, <2>1 DEF Turn
  <2>3. Asked(turn') = Asked(turn)
    BY <2>2 DEF Asked
  <2>4. ~Chain!isTransientProviderError(turn.err)
    BY <1>1 DEF Follows, Chain!isTransientProviderError
  <2>5. Follows(turn')
    BY <1>1, <1>9, <2>2, <2>3, <2>4 DEF Follows
  <2> QED
    BY <1>1, <2>2, <2>5, ChainStays
<1>12. CASE ~again /\ turn.left # 0
  <2>1. turn' = Chain!Asked(ran)
    BY <1>8, <1>12
  <2>2. ran.left > 0
    BY <1>1, <1>7, <1>12, ChainConstants DEF Turn
  <2>3. turn' \in Turn /\ Follows(turn')
    BY <1>1, <1>7, <2>1, <2>2, ChainAsks
  <2> QED
    BY <1>1, <2>3, ChainStays
<1> QED
  BY <1>10, <1>11, <1>12

LEMMA FreshTurn ==
    ASSUME NEW l \in 0..MaxIteration
    PROVE  LET t == [phase |-> "idle", asked |-> <<>>, failovers |-> 0, err |-> "none", left |-> l, tool |-> "none", runs |-> 0, cancelled |-> FALSE]
           IN  t \in Turn /\ t.left = l
<1>1. <<>> \in Seq(Providers \cup {"stub"})
  BY EmptySeq
<1> QED
  BY <1>1 DEF Turn

LEMMA ChainStep ==
    ASSUME ChainInv, Chain!Next
    PROVE  ChainInv'
<1>1. ASSUME Chain!Begin PROVE ChainInv'
  <2> PICK t : t = [Chain!NoTurn EXCEPT !.left = MaxIteration]
    OBVIOUS
  <2>1. t \in Turn /\ t.left = MaxIteration /\ MaxIteration > 0
    <3>1. t = [phase |-> "idle", asked |-> <<>>, failovers |-> 0, err |-> "none", left |-> MaxIteration, tool |-> "none",
               runs |-> 0, cancelled |-> FALSE]
      BY DEF Chain!NoTurn, Chain!None
    <3>2. MaxIteration \in 0..MaxIteration /\ MaxIteration > 0
      BY ChainConstants
    <3>3. PICK l \in 0..MaxIteration : l = MaxIteration
      BY <3>2
    <3>4. t \in Turn /\ t.left = l
      BY <3>1, <3>3, FreshTurn
    <3> QED
      BY <3>2, <3>3, <3>4
  <2>2. turn' = Chain!Asked(t) /\ used # "none" /\ UNCHANGED <<chain, buildable, used, chainNow, monitor>>
    BY <1>1 DEF Chain!Begin, Chain!None
  <2>3. turn' \in Turn /\ Follows(turn')
    BY <2>1, <2>2, ChainAsks
  <2> QED
    BY <2>2, <2>3, ChainStays DEF ChainInv
<1>2. ASSUME NEW p \in {"answered"}, turn.phase = "model", turn' = [turn EXCEPT !.phase = p],
             UNCHANGED <<chain, buildable, used, chainNow>>, MonitorOK(monitor')
      PROVE  ChainInv'
  <2>1. turn \in Turn /\ Follows(turn)
    BY DEF ChainInv
  <2>2. /\ turn' \in Turn /\ turn'.asked = turn.asked /\ turn'.phase = p /\ turn'.failovers = turn.failovers /\ turn'.err = turn.err
        /\ turn'.tool = turn.tool /\ turn'.runs = turn.runs /\ turn'.cancelled = turn.cancelled
    BY <1>2, <2>1 DEF Turn
  <2>3. Asked(turn') = Asked(turn)
    BY <2>2 DEF Asked
  <2>4. Follows(turn')
    BY <1>2, <2>1, <2>2, <2>3 DEF Follows
  <2> QED
    BY <1>2, <2>2, <2>4, ChainStays DEF ChainInv
<1>3. ASSUME NEW ask \in {"read", "write"}, turn.phase = "model", turn' = [turn EXCEPT !.phase = "tool", !.tool = ask],
             UNCHANGED <<chain, buildable, used, chainNow>>, MonitorOK(monitor')
      PROVE  ChainInv'
  <2>1. turn \in Turn /\ Follows(turn)
    BY DEF ChainInv
  <2>2. /\ turn' \in Turn /\ turn'.asked = turn.asked /\ turn'.phase = "tool" /\ turn'.failovers = turn.failovers /\ turn'.err = turn.err
        /\ turn'.tool = ask /\ turn'.runs = turn.runs /\ turn'.cancelled = turn.cancelled
    BY <1>3, <2>1 DEF Turn
  <2>3. Asked(turn') = Asked(turn)
    BY <2>2 DEF Asked
  <2>4. turn.runs = 0 /\ 0 < Chain!MaxAttempts(ask)
    BY <1>3, <2>1 DEF Follows, Chain!MaxAttempts
  <2>5. Follows(turn')
    BY <1>3, <2>1, <2>2, <2>3, <2>4 DEF Follows
  <2> QED
    BY <1>3, <2>2, <2>5, ChainStays DEF ChainInv
<1>4. ASSUME NEW ask \in Chain!Kinds \cup {Chain!None}, Chain!Generate(ask) PROVE ChainInv'
  <2>1. turn.phase = "model" /\ UNCHANGED <<chain, buildable, used, chainNow>> /\ monitor' = Chain!RecordAttempt(monitor)
    BY <1>4 DEF Chain!Generate, Chain!Recorded
  <2>2. MonitorOK(monitor')
    BY <2>1, ChainRecords DEF Chain!RecordAttempt, ChainInv
  <2>3. CASE ask = "none"
    <3>1. turn' = [turn EXCEPT !.phase = "answered"]
      BY <1>4, <2>3 DEF Chain!Generate, Chain!None
    <3> QED
      BY <1>2, <2>1, <2>2, <3>1
  <2>4. CASE ask # "none"
    <3>1. ask \in {"read", "write"} /\ turn' = [turn EXCEPT !.phase = "tool", !.tool = ask]
      BY <1>4, <2>4 DEF Chain!Generate, Chain!None, Chain!Kinds
    <3> QED
      BY <1>3, <2>1, <2>2, <3>1
  <2> QED
    BY <2>3, <2>4
<1>5. ASSUME Chain!GenerateStub PROVE ChainInv'
  BY <1>2, <1>5 DEF Chain!GenerateStub, ChainInv
<1>6. ASSUME Chain!Cancel PROVE ChainInv'
  <2>1. turn \in Turn /\ Follows(turn) /\ turn' = [turn EXCEPT !.cancelled = TRUE] /\ turn.phase \in {"model", "tool"}
    BY <1>6 DEF Chain!Cancel, ChainInv
  <2>2. /\ turn' \in Turn /\ turn'.asked = turn.asked /\ turn'.phase = turn.phase /\ turn'.failovers = turn.failovers /\ turn'.err = turn.err
        /\ turn'.tool = turn.tool /\ turn'.runs = turn.runs
    BY <2>1 DEF Turn
  <2>3. Asked(turn') = Asked(turn)
    BY <2>2 DEF Asked
  <2>4. Follows(turn')
    BY <2>1, <2>2, <2>3 DEF Follows
  <2> QED
    BY <1>6, <2>2, <2>4, ChainStays DEF Chain!Cancel, ChainInv
<1>7. ASSUME Chain!Tick PROVE ChainInv'
  <2>1. chainNow < chainMaxTime /\ chainNow' = chainNow + 1 /\ UNCHANGED <<chain, buildable, used, turn, monitor>>
    BY <1>7 DEF Chain!Tick
  <2>2. chainNow' \in Times
    BY <2>1, ChainConstants DEF ChainInv, Times
  <2> QED
    BY <2>1, <2>2, ChainStays DEF ChainInv
<1>8. ASSUME NEW n, Chain!send(n) PROVE ChainInv'
  BY <1>8, ChainStays DEF Chain!send, ChainInv
<1> QED
  BY <1>1, <1>4, <1>5, <1>6, <1>7, <1>8, ChainBuilds, ChainFails, ChainRuns DEF Chain!Next

LEMMA ChainKeeps ==
    ASSUME ChainInv
    PROVE  ChainKept
<1>1. Follows(turn) /\ turn \in Turn /\ MonitorOK(monitor) /\ chainNow \in Times
  BY DEF ChainInv
<1>2. turn.failovers \in 0..Len(chain)
  BY <1>1, ChainFacts DEF Follows, Turn
<1>3. Chain!TypeOK
  <2>1. /\ turn.phase \in {"idle", "model", "tool", "answered", "failed"} /\ turn.asked \in Seq(Providers \cup {"stub"})
        /\ turn.err \in Chain!Errors \cup {"none"} /\ turn.left \in 0..MaxIteration
        /\ turn.tool \in {"read", "write", "none"} /\ turn.runs \in 0..2 /\ turn.cancelled \in BOOLEAN
    BY <1>1 DEF Turn
  <2>2. /\ monitor.active \in BOOLEAN /\ monitor.lastAlertSent \in Times
        /\ monitor["attempts"] \in Seq(Times) /\ monitor["fallbacks"] \in Seq(Times) /\ monitor.said \in Seq(Notice)
    BY <1>1 DEF MonitorOK, Monitor
  <2>3. /\ chain \in Seq(Providers) /\ buildable \subseteq Providers /\ used \in Providers \cup {"stub", "none"}
    BY ChainFacts DEF ChainInv
  <2> QED
    BY <1>1, <1>2, <2>1, <2>2, <2>3 DEF Chain!TypeOK, Chain!Stub, Chain!None, Chain!Kinds, Times, Notice
<1>4. Chain!FailsOnlyWhenAllTried
  <2> SUFFICES ASSUME turn.phase = "failed", Chain!isTransientProviderError(turn.err), ~turn.cancelled, Chain!ToSet(chain) \subseteq buildable
               PROVE  Chain!ToSet(turn.asked) = Chain!ToSet(chain)
    BY DEF Chain!FailsOnlyWhenAllTried
  <2>1. Asked(turn) = Members(chain) /\ Members(turn.asked) = Asked(turn)
    BY <1>1, ChainFacts DEF Follows
  <2> QED
    BY <2>1, ChainFacts
<1>5. Chain!WritesOnce
  BY <1>1 DEF Chain!WritesOnce, Follows
<1>6. Chain!AlertsApart /\ Chain!AlertTellsShare
  BY <1>1 DEF Chain!AlertsApart, Chain!AlertTellsShare, MonitorOK
<1> QED
  BY <1>3, <1>4, <1>5, <1>6 DEF ChainKept

------------------------------------------------------------------------------
(* The filter of words *)

Words == Seq(Letters) \ {<<>>}

LEMMA ScreenConstants ==
    /\ IsFiniteSet(Cats) /\ IsFiniteSet(Checks) /\ (\A l \in Letters : small(l) \in Letters) /\ Files \subseteq [Cats -> SUBSET Words]
    /\ (\A c \in Cats : Rank(c) \in Nat) /\ "none" \notin Cats /\ "none" \notin Counted /\ "unlisted" \notin Cats
    /\ Screen!Counters \cap (Cats \cup Counted \cup {"none", "unlisted"}) = {}
    /\ MaxText \in Nat /\ LLMMinLength \in Nat /\ MaxChecks \in Nat /\ Threshold \in Int
<1>1. (Screen!IsFiniteSet(Cats) <=> IsFiniteSet(Cats)) /\ (Screen!IsFiniteSet(Checks) <=> IsFiniteSet(Checks))
  BY DEF Screen!IsFiniteSet, IsFiniteSet
<1> QED
  BY <1>1, ScreenAssumed DEF Screen!MessageScreenAssumption, Words, Screen!Counters

\* The part of a list from one place to another.
LEMMA PartOf ==
    ASSUME NEW S, NEW q \in Seq(S), NEW i \in Nat \ {0}, NEW j \in i - 1..Len(q)
    PROVE  /\ SubSeq(q, i, j) \in Seq(S) /\ Len(SubSeq(q, i, j)) = j - i + 1 /\ Len(q) \in Nat
           /\ \A k \in 1..j - i + 1 : SubSeq(q, i, j)[k] = q[i + k - 1]
<1>1. Len(q) \in Nat /\ \A k \in i..j : q[k] \in S
  BY ElementOfSeq
<1>2. i \in Int /\ j \in Int
  BY <1>1
<1>3. /\ SubSeq(q, i, j) \in Seq(S) /\ Len(SubSeq(q, i, j)) = (IF i <= j THEN j - i + 1 ELSE 0)
      /\ \A k \in 1..j - i + 1 : SubSeq(q, i, j)[k] = q[i + k - 1]
  BY <1>1, <1>2, SubSeqProperties
<1>4. (IF i <= j THEN j - i + 1 ELSE 0) = j - i + 1
  BY <1>1
<1> QED
  BY <1>1, <1>3, <1>4

LEMMA AllOf ==
    ASSUME NEW S, NEW q \in Seq(S)
    PROVE  SubSeq(q, 1, Len(q)) = q
<1>1. Len(q) \in 1 - 1..Len(q) /\ 1 \in Nat \ {0} /\ Len(q) \in Nat
  OBVIOUS
<1>2. /\ SubSeq(q, 1, Len(q)) \in Seq(S) /\ Len(SubSeq(q, 1, Len(q))) = Len(q) - 1 + 1
      /\ \A k \in 1..Len(q) - 1 + 1 : SubSeq(q, 1, Len(q))[k] = q[1 + k - 1]
  BY <1>1, PartOf
<1>3. Len(SubSeq(q, 1, Len(q))) = Len(q)
  BY <1>1, <1>2
<1>4. ASSUME NEW k \in 1..Len(q) PROVE SubSeq(q, 1, Len(q))[k] = q[k]
  BY <1>1, <1>2
<1> QED
  BY <1>2, <1>3, <1>4, SeqEqual

\* The beginning of a part is a part.
LEMMA PartOfPart ==
    ASSUME NEW S, NEW q \in Seq(S), NEW i \in Nat \ {0}, NEW j \in i..Len(q), NEW k \in i..j
    PROVE  SubSeq(SubSeq(q, i, j), 1, k - i + 1) = SubSeq(q, i, k)
<1> PICK p : p = SubSeq(q, i, j)
  OBVIOUS
<1>1. Len(q) \in Nat /\ j \in i - 1..Len(q) /\ k \in i - 1..Len(q)
  OBVIOUS
<1>2. p \in Seq(S) /\ Len(p) = j - i + 1 /\ \A n \in 1..j - i + 1 : p[n] = q[i + n - 1]
  BY <1>1, PartOf
<1>3. k - i + 1 \in 1 - 1..Len(p) /\ 1 \in Nat \ {0} /\ k - i + 1 \in Nat
  BY <1>1, <1>2
<1> PICK m \in Nat : m = k - i + 1
  BY <1>3
<1>4. SubSeq(p, 1, m) \in Seq(S) /\ Len(SubSeq(p, 1, m)) = m - 1 + 1 /\ \A n \in 1..m - 1 + 1 : SubSeq(p, 1, m)[n] = p[1 + n - 1]
  BY <1>2, <1>3, PartOf
<1>5. SubSeq(q, i, k) \in Seq(S) /\ Len(SubSeq(q, i, k)) = k - i + 1 /\ \A n \in 1..k - i + 1 : SubSeq(q, i, k)[n] = q[i + n - 1]
  BY <1>1, PartOf
<1>6. Len(SubSeq(p, 1, m)) = Len(SubSeq(q, i, k))
  BY <1>4, <1>5
<1>7. ASSUME NEW n \in 1..m PROVE SubSeq(p, 1, m)[n] = SubSeq(q, i, k)[n]
  <2>1. SubSeq(p, 1, m)[n] = p[n]
    BY <1>4
  <2>2. n \in 1..j - i + 1
    BY <1>1
  <2>3. p[n] = q[i + n - 1]
    BY <1>2, <2>2
  <2>4. SubSeq(q, i, k)[n] = q[i + n - 1]
    BY <1>5
  <2> QED
    BY <2>1, <2>3, <2>4
<1>8. Len(SubSeq(p, 1, m)) = m
  BY <1>4
<1> QED
  BY <1>4, <1>5, <1>6, <1>7, <1>8, SeqEqual

\* The tree of a set of words: its nodes are their beginnings, and those that are words have a category.
TreeOf(t, V) ==
    /\ DOMAIN t = {<<>>} \cup UNION {Screen!Prefixes(w) : w \in V}
    /\ \A p \in DOMAIN t : (p \in V => t[p] \in Cats) /\ (p \notin V => t[p] = "none")

LEMMA WordIsNode ==
    ASSUME NEW w \in Words
    PROVE  w \in Screen!Prefixes(w) /\ Screen!Prefixes(w) \subseteq Seq(Letters)
<1>1. w \in Seq(Letters) /\ Len(w) \in Nat
  BY DEF Words
<1>2. w = SubSeq(w, 1, Len(w))
  BY <1>1, AllOf
<1>3. ASSUME NEW l \in 0..Len(w) PROVE SubSeq(w, 1, l) \in Seq(Letters)
  <2>1. l \in 1 - 1..Len(w) /\ 1 \in Nat \ {0}
    OBVIOUS
  <2> QED
    BY <1>1, <2>1, PartOf
<1>4. Len(w) \in 0..Len(w)
  BY <1>1
<1>5. \E l \in 0..Len(w) : w = SubSeq(w, 1, l)
  BY <1>2, <1>4
<1>6. w \in {SubSeq(w, 1, l) : l \in 0..Len(w)}
  BY <1>5
<1> QED
  BY <1>3, <1>6 DEF Screen!Prefixes

LEMMA TreeGrows ==
    ASSUME NEW V \in SUBSET Words, NEW ws \in SUBSET Words, NEW cat \in Cats, NEW t, TreeOf(t, V)
    PROVE  TreeOf(Screen!Insert(t, ws, cat), V \cup ws)
<1> PICK u : u = Screen!Insert(t, ws, cat)
  OBVIOUS
<1>1. DOMAIN u = DOMAIN t \cup UNION {Screen!Prefixes(w) : w \in ws}
  BY DEF Screen!Insert
<1>2. DOMAIN u = {<<>>} \cup UNION {Screen!Prefixes(w) : w \in V \cup ws}
  BY <1>1 DEF TreeOf
<1>3. ASSUME NEW p \in DOMAIN u PROVE u[p] = IF p \in ws THEN cat ELSE IF p \in DOMAIN t THEN t[p] ELSE "none"
  BY <1>1 DEF Screen!Insert, Screen!None
<1>4. \A p \in V : p \in DOMAIN t
  BY WordIsNode DEF TreeOf
<1>5. ASSUME NEW p \in DOMAIN u PROVE (p \in V \cup ws => u[p] \in Cats) /\ (p \notin V \cup ws => u[p] = "none")
  BY <1>3, <1>4 DEF TreeOf
<1> QED
  BY <1>2, <1>5 DEF TreeOf

Trees == UNION {[D -> Cats \cup {"none"}] : D \in SUBSET Seq(Letters)}

LEMMA InsertIsTree ==
    ASSUME NEW t \in Trees, NEW ws \in SUBSET Words, NEW cat \in Cats
    PROVE  Screen!Insert(t, ws, cat) \in Trees
<1>1. PICK D \in SUBSET Seq(Letters) : t \in [D -> Cats \cup {"none"}]
  BY DEF Trees
<1> DEFINE E == D \cup UNION {Screen!Prefixes(w) : w \in ws}
<1>2. E \in SUBSET Seq(Letters)
  BY WordIsNode
<1>3. Screen!Insert(t, ws, cat) = [p \in E |-> IF p \in ws THEN cat ELSE IF p \in D THEN t[p] ELSE "none"]
  BY <1>1 DEF Screen!Insert, Screen!None
<1>4. \A p \in E : (IF p \in ws THEN cat ELSE IF p \in D THEN t[p] ELSE "none") \in Cats \cup {"none"}
  BY <1>1
<1> HIDE DEF E
<1>5. Screen!Insert(t, ws, cat) \in [E -> Cats \cup {"none"}]
  BY <1>3, <1>4
<1> QED
  BY <1>2, <1>5 DEF Trees

\* However the categories are ordered, the tree is the one of all words.
LEMMA TreeIsBuilt ==
    ASSUME NEW ws \in [Cats -> SUBSET Words], NEW order \in Screen!SetToSeqs(Cats)
    PROVE  TreeOf(Screen!rebuildTrie(ws, order), UNION {ws[c] : c \in Cats})
<1> DEFINE N == Cardinality(Cats)
           V(n) == UNION {ws[order[k]] : k \in 1..n}
           T == [n \in 1..N |-> [t \in Trees |-> Screen!Insert(t, ws[order[n]], order[n])]]
           Body(t) == [n \in 0..N |-> IF n = 0 THEN Screen!newTrie ELSE Screen!Insert(t[n - 1], ws[order[n]], order[n])]
<1>1. N \in Nat /\ order \in [1..N -> Cats] /\ \A i, j \in 1..N : i # j => order[i] # order[j]
  <2>1. Screen!Cardinality(Cats) = N
    BY DEF Screen!Cardinality, Cardinality
  <2> HIDE DEF N
  <2>2. order \in [1..N -> Cats] /\ \A i, j \in 1..N : i # j => order[i] # order[j]
    BY <2>1 DEF Screen!SetToSeqs
  <2>3. N \in Nat
    BY ScreenConstants, FS_CardinalityType DEF N
  <2> QED
    BY <2>2, <2>3
<1>2. Len(order) = N
  <2>1. order \in Seq(Cats)
    BY <1>1, SeqDef
  <2> QED
    BY <1>1, <2>1, LenProperties
<1>3. \A c \in Cats : \E k \in 1..N : order[k] = c
  <2>1. order \in Injection(1..N, Cats)
    BY <1>1 DEF Injection, IsInjective
  <2>2. IsFiniteSet(1..N) /\ Cardinality(1..N) = N
    BY <1>1, FS_Interval
  <2>3. order \in Surjection(1..N, Cats)
    BY <2>1, <2>2, ScreenConstants, FS_Injection
  <2> QED
    BY <2>3 DEF Surjection
<1>4. Screen!newTrie \in Trees /\ TreeOf(Screen!newTrie, {})
  <2>1. Screen!newTrie = [p \in {<<>>} |-> "none"] /\ {<<>>} \in SUBSET Seq(Letters)
    BY EmptySeq DEF Screen!newTrie, Screen!None
  <2>2. Screen!newTrie \in [{<<>>} -> Cats \cup {"none"}]
    BY <2>1
  <2>3. Screen!newTrie \in Trees
    BY <2>1, <2>2 DEF Trees
  <2> QED
    BY <2>1, <2>3 DEF TreeOf
<1>5. T \in [1..N -> [Trees -> Trees]]
  <2>1. \A n \in 1..N : ws[order[n]] \in SUBSET Words /\ order[n] \in Cats
    BY <1>1
  <2>2. \A n \in 1..N, t \in Trees : Screen!Insert(t, ws[order[n]], order[n]) \in Trees
    BY <2>1, InsertIsTree
  <2> HIDE DEF N
  <2> QED
    BY <2>2
<1>6. PICK g \in [0..N -> Trees] : Steps(g, N, Screen!newTrie, T)
  <2> HIDE DEF T, N
  <2> QED
    BY <1>1, <1>4, <1>5, StepsExist
<1>7. g = Body(g)
  <2>1. ASSUME NEW n \in 1..N PROVE g[n] = Screen!Insert(g[n - 1], ws[order[n]], order[n])
    <3>1. g[n] = T[n][g[n - 1]] /\ g[n - 1] \in Trees
      BY <1>1, <1>6 DEF Steps
    <3> QED
      BY <3>1
  <2>2. \A n \in 0..N : g[n] = IF n = 0 THEN Screen!newTrie ELSE Screen!Insert(g[n - 1], ws[order[n]], order[n])
    BY <1>1, <1>6, <2>1 DEF Steps
  <2> HIDE DEF N
  <2> QED
    BY <2>2
<1>8. PICK h : h = CHOOSE t : t = Body(t)
  OBVIOUS
<1>9. h = Body(h)
  BY <1>7, <1>8
<1>10. Screen!rebuildTrie(ws, order) = h[N]
  BY <1>2, <1>8 DEF Screen!rebuildTrie
<1>11. h[0] = Screen!newTrie /\ \A n \in 1..N : h[n] = Screen!Insert(h[n - 1], ws[order[n]], order[n])
  <2>1. h[0] = Body(h)[0]
    BY <1>9
  <2>2. ASSUME NEW n \in 1..N PROVE h[n] = Screen!Insert(h[n - 1], ws[order[n]], order[n])
    <3>1. h[n] = Body(h)[n]
      BY <1>9
    <3>2. n \in 0..N /\ n # 0
      BY <1>1
    <3> QED
      BY <3>1, <3>2
  <2>3. 0 \in 0..N
    BY <1>1
  <2> QED
    BY <2>1, <2>2, <2>3
<1> DEFINE Right(n) == TreeOf(h[n], V(n))
           P == {n \in 0..N : Right(n)}
<1>12. 0 \in P
  <2>1. V(0) = {}
    OBVIOUS
  <2>3. TreeOf(h[0], {})
    BY <1>4, <1>11
  <2>4. 0 \in 0..N
    BY <1>1
  <2>2. Right(0) /\ 0 \in 0..N
    <3> HIDE DEF V, N
    <3> QED
      BY <2>1, <2>3, <2>4
  <2> HIDE DEF Right
  <2> QED
    BY <2>2
<1>13. ASSUME NEW n \in 1..N, n - 1 \in P PROVE n \in P
  <2>1. V(n) = V(n - 1) \cup ws[order[n]]
    <3>1. 1..n = (1..n - 1) \cup {n}
      BY <1>1
    <3> QED
      BY <3>1
  <2>2. V(n - 1) \in SUBSET Words /\ ws[order[n]] \in SUBSET Words /\ order[n] \in Cats
    <3>1. \A k \in 1..N : ws[order[k]] \in SUBSET Words /\ order[k] \in Cats
      BY <1>1
    <3>2. \A k \in 1..n - 1 : k \in 1..N
      BY <1>1
    <3> QED
      BY <3>1, <3>2
  <2>3. TreeOf(h[n - 1], V(n - 1))
    BY <1>13
  <2> HIDE DEF V
  <2>4. TreeOf(Screen!Insert(h[n - 1], ws[order[n]], order[n]), V(n - 1) \cup ws[order[n]])
    BY <2>2, <2>3, TreeGrows
  <2>5. Right(n)
    BY <1>11, <2>1, <2>4
  <2> HIDE DEF Right
  <2> QED
    BY <1>1, <2>5
<1>14. N \in P
  <2> HIDE DEF P
  <2>1. \A n \in 0..N : n \in P
    BY <1>1, <1>12, <1>13, CountUp
  <2> QED
    BY <1>1, <2>1
<1>15. V(N) = UNION {ws[c] : c \in Cats}
  BY <1>1, <1>3
<1> QED
  BY <1>10, <1>14, <1>15

\* The occurrences of words that begin before i, or at i and end by j.
Found(text, V, i, j) ==
    {x \in (1..Len(text)) \X (1..Len(text)) :
        x[1] <= x[2] /\ (x[1] < i \/ (x[1] = i /\ x[2] <= j)) /\ SubSeq(text, x[1], x[2]) \in V}

HitAt(t, text, x) == [start |-> x[1], cat |-> t[SubSeq(text, x[1], x[2])], word |-> SubSeq(text, x[1], x[2])]

\* best is the first of the occurrences F, and of those at its place the one whose category comes first.
Told(t, text, F, best) ==
    IF F = {} THEN best = Screen!NoHit
    ELSE \E x \in F : /\ best = HitAt(t, text, x)
                      /\ \A y \in F : x[1] < y[1] \/ (x[1] = y[1] /\ Rank(best.cat) <= Rank(HitAt(t, text, y).cat))

LEMMA ToldMore ==
    ASSUME NEW t, NEW text, NEW F \in SUBSET (Nat \X Nat), NEW x \in Nat \X Nat, NEW best, Told(t, text, F, best), x[1] > 0,
           \A y \in F \cup {x} : HitAt(t, text, y).cat \in Cats, \A y \in F : y[1] <= x[1]
    PROVE  Told(t, text, F \cup {x}, IF Screen!Better(best, HitAt(t, text, x)) THEN HitAt(t, text, x) ELSE best)
<1> PICK hit : hit = HitAt(t, text, x)
  OBVIOUS
<1>1. hit.start = x[1] /\ hit.cat = HitAt(t, text, x).cat /\ hit # Screen!NoHit
  BY DEF HitAt, Screen!NoHit
<1>2. \A y \in F \cup {x} : Rank(HitAt(t, text, y).cat) \in Nat /\ y[1] \in Nat
  BY ScreenConstants
<1>3. CASE F = {}
  <2>1. best = Screen!NoHit
    BY <1>3 DEF Told
  <2>2. Screen!Better(best, hit)
    BY <2>1 DEF Screen!Better
  <2> QED
    BY <1>1, <1>2, <1>3, <2>2 DEF Told
<1>4. CASE F # {}
  <2>1. PICK z \in F : /\ best = HitAt(t, text, z)
                       /\ \A y \in F : z[1] < y[1] \/ (z[1] = y[1] /\ Rank(best.cat) <= Rank(HitAt(t, text, y).cat))
    BY <1>4 DEF Told
  <2>2. best.start = z[1] /\ best.cat = HitAt(t, text, z).cat /\ z[1] <= x[1]
    BY <2>1 DEF HitAt
  <2>3. best.start # 0 \/ z[1] = 0
    BY <2>2
  <2>4. CASE z[1] = x[1] /\ Rank(hit.cat) < Rank(best.cat)
    <3>1. Screen!Better(best, hit)
      BY <1>1, <2>2, <2>4 DEF Screen!Better
    <3>2. \A y \in F : x[1] < y[1] \/ (x[1] = y[1] /\ Rank(hit.cat) <= Rank(HitAt(t, text, y).cat))
      BY <1>1, <1>2, <2>1, <2>2, <2>4
    <3> QED
      BY <1>1, <1>2, <3>1, <3>2 DEF Told
  <2>5. CASE ~(z[1] = x[1] /\ Rank(hit.cat) < Rank(best.cat))
    <3>1. best # Screen!NoHit
      <4>1. SUFFICES ASSUME best = Screen!NoHit PROVE FALSE
        OBVIOUS
      <4>2. best.cat = "none"
        BY <4>1 DEF Screen!NoHit, Screen!None
      <4> QED
        BY <2>2, <4>2, ScreenConstants
    <3>2. ~Screen!Better(best, hit)
      BY <1>1, <1>2, <2>2, <2>5, <3>1 DEF Screen!Better
    <3>3. z[1] < x[1] \/ (z[1] = x[1] /\ Rank(best.cat) <= Rank(hit.cat))
      BY <1>1, <1>2, <2>2, <2>5
    <3>4. \A y \in F \cup {x} : z[1] < y[1] \/ (z[1] = y[1] /\ Rank(best.cat) <= Rank(HitAt(t, text, y).cat))
      BY <1>1, <2>1, <3>3
    <3> QED
      BY <2>1, <3>2, <3>4 DEF Told
  <2> QED
    BY <2>4, <2>5
<1> QED
  BY <1>3, <1>4

Hits == [start : Nat, cat : Cats \cup {"none"}, word : Seq(Letters)]

\* What the walk from i holds after the letter at j.
Taken(t, text, i, j, before) ==
    LET p == SubSeq(text, i, j)
        hit == [start |-> i, cat |-> t[p], word |-> p]
    IN  IF Screen!Reaches(t, text, i, j) /\ t[p] # Screen!None /\ Screen!Better(before, hit) THEN hit ELSE before

LEMMA TakenIsHit ==
    ASSUME NEW V \in SUBSET Words, NEW t, TreeOf(t, V), NEW text \in Seq(Letters), NEW i \in 1..Len(text), NEW j \in i..Len(text),
           NEW before \in Hits
    PROVE  Taken(t, text, i, j, before) \in Hits
<1> PICK p : p = SubSeq(text, i, j)
  OBVIOUS
<1>1. p \in Seq(Letters)
  <2>1. i \in Nat \ {0} /\ j \in i - 1..Len(text)
    OBVIOUS
  <2> QED
    BY <2>1, PartOf
<1>2. CASE Screen!Reaches(t, text, i, j)
  <2>1. p \in DOMAIN t
    BY <1>2 DEF Screen!Reaches
  <2>2. t[p] \in Cats \cup {"none"}
    BY <2>1 DEF TreeOf
  <2>3. [start |-> i, cat |-> t[p], word |-> p] \in Hits
    BY <1>1, <2>2 DEF Hits
  <2> QED
    BY <2>3 DEF Taken
<1>3. CASE ~Screen!Reaches(t, text, i, j)
  BY <1>3 DEF Taken
<1> QED
  BY <1>2, <1>3

LEMMA TakenTells ==
    ASSUME NEW V \in SUBSET Words, NEW t, TreeOf(t, V), NEW text \in Seq(Letters), NEW i \in 1..Len(text), NEW j \in i..Len(text),
           NEW before, Told(t, text, Found(text, V, i, j - 1), before)
    PROVE  Told(t, text, Found(text, V, i, j), Taken(t, text, i, j, before))
<1> PICK p : p = SubSeq(text, i, j)
  OBVIOUS
<1> PICK x : x = <<i, j>>
  OBVIOUS
<1> PICK F : F = Found(text, V, i, j - 1)
  OBVIOUS
<1>1. Len(text) \in Nat /\ x \in (1..Len(text)) \X (1..Len(text)) /\ x[1] = i /\ x[2] = j
  OBVIOUS
<1>2. HitAt(t, text, x) = [start |-> i, cat |-> t[p], word |-> p]
  BY <1>1 DEF HitAt
<1>3. p \in V <=> Screen!Reaches(t, text, i, j) /\ t[p] # "none"
  <2>1. ASSUME p \in V PROVE Screen!Reaches(t, text, i, j) /\ t[p] # "none"
    <3>1. p \in DOMAIN t
      BY <2>1, WordIsNode DEF TreeOf
    <3>2. ASSUME NEW k \in i..j PROVE SubSeq(text, i, k) \in DOMAIN t
      <4>1. i \in Nat \ {0} /\ k - i + 1 \in Nat
        OBVIOUS
      <4>2. SubSeq(p, 1, k - i + 1) = SubSeq(text, i, k)
        BY <4>1, PartOfPart
      <4>3. Len(p) = j - i + 1
        <5>1. j \in i - 1..Len(text)
          OBVIOUS
        <5> QED
          BY <4>1, <5>1, PartOf
      <4>4. k - i + 1 \in 0..Len(p)
        BY <4>1, <4>3
      <4>5. SubSeq(text, i, k) \in Screen!Prefixes(p)
        BY <4>2, <4>4 DEF Screen!Prefixes
      <4> QED
        BY <2>1, <4>5 DEF TreeOf
    <3> QED
      BY <2>1, <3>1, <3>2, ScreenConstants DEF TreeOf, Screen!Reaches
  <2>2. ASSUME Screen!Reaches(t, text, i, j), t[p] # "none" PROVE p \in V
    <3>1. p \in DOMAIN t
      BY <2>2 DEF Screen!Reaches
    <3> QED
      BY <2>2, <3>1 DEF TreeOf
  <2> QED
    BY <2>1, <2>2
<1>4. Found(text, V, i, j) = IF p \in V THEN F \cup {x} ELSE F
  <2>1. ASSUME NEW y \in (1..Len(text)) \X (1..Len(text)), y[1] <= y[2], SubSeq(text, y[1], y[2]) \in V
        PROVE  (y[1] < i \/ (y[1] = i /\ y[2] <= j)) <=> (y[1] < i \/ (y[1] = i /\ y[2] <= j - 1)) \/ y = x
    BY <1>1
  <2>2. \A y : y \in Found(text, V, i, j) <=> y \in F \/ (y = x /\ p \in V)
    BY <1>1, <2>1 DEF Found
  <2> QED
    BY <2>2
<1>5. CASE p \notin V
  BY <1>3, <1>4, <1>5 DEF Taken, Screen!None
<1>6. CASE p \in V
  <2>1. \A y \in F \cup {x} : SubSeq(text, y[1], y[2]) \in V
    BY <1>1, <1>6 DEF Found
  <2>2. \A y \in F \cup {x} : HitAt(t, text, y).cat \in Cats
    <3>1. \A w \in V : t[w] \in Cats
      BY WordIsNode DEF TreeOf
    <3> QED
      BY <2>1, <3>1 DEF HitAt
  <2>3. F \in SUBSET (Nat \X Nat) /\ x \in Nat \X Nat /\ x[1] > 0 /\ \A y \in F : y[1] <= x[1]
    BY <1>1 DEF Found
  <2>4. Told(t, text, F \cup {x}, IF Screen!Better(before, HitAt(t, text, x)) THEN HitAt(t, text, x) ELSE before)
    BY <2>2, <2>3, ToldMore
  <2>5. Taken(t, text, i, j, before) = IF Screen!Better(before, HitAt(t, text, x)) THEN HitAt(t, text, x) ELSE before
    BY <1>2, <1>3, <1>6 DEF Taken, Screen!None
  <2> QED
    BY <1>4, <1>6, <2>4, <2>5
<1> QED
  BY <1>5, <1>6

LEMMA WalkTells ==
    ASSUME NEW V \in SUBSET Words, NEW t, TreeOf(t, V), NEW text \in Seq(Letters), NEW i \in 1..Len(text),
           NEW b \in Hits, Told(t, text, Found(text, V, i, i - 1), b)
    PROVE  /\ Screen!Walk(t, text, b, i) \in Hits
           /\ Told(t, text, Found(text, V, i, Len(text)), Screen!Walk(t, text, b, i))
<1> DEFINE L == Len(text)
           N == L - i + 1
           T == [n \in 1..N |-> [c \in Hits |-> Taken(t, text, i, i - 1 + n, c)]]
           Body(hits) == [j \in i - 1..L |-> IF j = i - 1 THEN b ELSE Taken(t, text, i, j, hits[j - 1])]
<1>1. L \in Nat /\ N \in Nat /\ i \in Nat /\ i >= 1 /\ i <= L
  OBVIOUS
<1>2. \A n \in 1..N : i - 1 + n \in i..L
  OBVIOUS
<1>3. T \in [1..N -> [Hits -> Hits]]
  <2>1. \A n \in 1..N, c \in Hits : Taken(t, text, i, i - 1 + n, c) \in Hits
    BY <1>2, TakenIsHit
  <2> HIDE DEF N
  <2> QED
    BY <2>1
<1>4. PICK f \in [0..N -> Hits] : Steps(f, N, b, T)
  <2> HIDE DEF T, N
  <2> QED
    BY <1>1, <1>3, StepsExist
<1>5. PICK g : g = [j \in i - 1..L |-> f[j - i + 1]]
  OBVIOUS
<1>6. g = Body(g)
  <2>1. ASSUME NEW j \in i - 1..L PROVE g[j] = IF j = i - 1 THEN b ELSE Taken(t, text, i, j, g[j - 1])
    <3>1. CASE j = i - 1
      <4>1. j - i + 1 = 0
        BY <1>1, <3>1
      <4> QED
        BY <1>4, <1>5, <3>1, <4>1 DEF Steps
    <3>2. CASE j # i - 1
      <4>1. PICK n \in 1..N : n = j - i + 1
        BY <1>1, <3>2
      <4>2. g[j] = f[n] /\ g[j - 1] = f[n - 1]
        <5>1. j - 1 \in i - 1..L /\ (j - 1) - i + 1 = n - 1
          BY <1>1, <3>2, <4>1
        <5> QED
          BY <1>5, <4>1, <5>1
      <4>3. f[n] = T[n][f[n - 1]] /\ f[n - 1] \in Hits
        <5>1. n - 1 \in 0..N
          BY <1>1
        <5>2. f[n] = T[n][f[n - 1]]
          <6> HIDE DEF T, N
          <6> QED
            BY <1>4 DEF Steps
        <5> HIDE DEF N
        <5> QED
          BY <5>1, <5>2
      <4>4. T[n][f[n - 1]] = Taken(t, text, i, i - 1 + n, f[n - 1])
        BY <4>3
      <4>5. i - 1 + n = j
        BY <1>1, <4>1
      <4> QED
        BY <3>2, <4>2, <4>3, <4>4, <4>5
    <3> QED
      BY <3>1, <3>2
  <2> HIDE DEF L
  <2> QED
    BY <1>5, <2>1
<1>7. PICK h : h = CHOOSE hits : hits = Body(hits)
  OBVIOUS
<1>8. h = Body(h)
  BY <1>6, <1>7
<1>9. Screen!Walk(t, text, b, i) = h[L]
  BY <1>7 DEF Screen!Walk, Taken
<1>10. h[i - 1] = b /\ \A j \in i..L : h[j] = Taken(t, text, i, j, h[j - 1])
  <2>1. h[i - 1] = Body(h)[i - 1]
    BY <1>8
  <2>2. ASSUME NEW j \in i..L PROVE h[j] = Taken(t, text, i, j, h[j - 1])
    <3>1. h[j] = Body(h)[j]
      BY <1>8
    <3>2. j \in i - 1..L /\ j # i - 1
      BY <1>1
    <3> QED
      BY <3>1, <3>2
  <2>3. i - 1 \in i - 1..L
    BY <1>1
  <2> QED
    BY <2>1, <2>2, <2>3
<1> HIDE DEF Body, T
<1> DEFINE Right(j) == h[j] \in Hits /\ Told(t, text, Found(text, V, i, j), h[j])
           P == {n \in 0..N : Right(i - 1 + n)}
<1>11. 0 \in P
  <2>1. i - 1 + 0 = i - 1 /\ 0 \in 0..N
    BY <1>1
  <2>2. Right(i - 1)
    BY <1>10
  <2> HIDE DEF Right
  <2> QED
    BY <2>1, <2>2
<1>12. ASSUME NEW n \in 1..N, n - 1 \in P PROVE n \in P
  <2>1. PICK j \in i..L : j = i - 1 + n
    BY <1>2
  <2>2. i - 1 + (n - 1) = j - 1
    BY <1>1, <2>1
  <2>3. Right(j - 1)
    <3> HIDE DEF Right
    <3> QED
      BY <1>12, <2>2
  <2>4. h[j] = Taken(t, text, i, j, h[j - 1])
    BY <1>10
  <2>5. h[j] \in Hits
    BY <2>3, <2>4, TakenIsHit
  <2>6. Told(t, text, Found(text, V, i, j), h[j])
    BY <2>3, <2>4, TakenTells
  <2>7. Right(j)
    BY <2>5, <2>6
  <2> HIDE DEF Right
  <2> QED
    BY <1>1, <2>1, <2>7
<1>13. N \in P
  <2> HIDE DEF P
  <2>1. \A n \in 0..N : n \in P
    BY <1>1, <1>11, <1>12, CountUp
  <2> QED
    BY <1>1, <2>1
<1>14. i - 1 + N = L
  BY <1>1
<1>15. Right(L)
  <2> HIDE DEF Right
  <2> QED
    BY <1>13, <1>14
<1> QED
  BY <1>9, <1>15

\* The filter finds the first occurrence of a word, and of those that begin there the one whose category comes first.
LEMMA MatchTells ==
    ASSUME NEW V \in SUBSET Words, NEW t, TreeOf(t, V), NEW text \in Seq(Letters)
    PROVE  Told(t, text, Found(text, V, Len(text), Len(text)), Screen!Match(t, text)) /\ Screen!Match(t, text) \in Hits
<1> DEFINE N == Len(text)
           T == [n \in 1..N |-> [c \in Hits |-> IF Told(t, text, Found(text, V, n, n - 1), c) THEN Screen!Walk(t, text, c, n) ELSE c]]
           Body(best) == [n \in 0..N |-> IF n = 0 THEN Screen!NoHit ELSE Screen!Walk(t, text, best[n - 1], n)]
           Right(n, c) == c \in Hits /\ Told(t, text, Found(text, V, n, N), c)
<1>1. N \in Nat
  OBVIOUS
<1>2. Screen!NoHit \in Hits /\ Right(0, Screen!NoHit)
  <2>1. Screen!NoHit \in Hits
    <3>1. <<>> \in Seq(Letters)
      BY EmptySeq
    <3> QED
      BY <3>1 DEF Hits, Screen!NoHit, Screen!None
  <2>2. Found(text, V, 0, N) = {}
    BY DEF Found
  <2> QED
    BY <2>1, <2>2 DEF Told
<1>3. ASSUME NEW n \in 1..N PROVE Found(text, V, n, n - 1) = Found(text, V, n - 1, N)
  <2>1. ASSUME NEW x \in (1..N) \X (1..N), x[1] <= x[2]
        PROVE  (x[1] < n \/ (x[1] = n /\ x[2] <= n - 1)) <=> (x[1] < n - 1 \/ (x[1] = n - 1 /\ x[2] <= N))
    BY <1>1, <2>1
  <2> QED
    BY <2>1 DEF Found
<1>4. ASSUME NEW n \in 1..N, NEW c, Right(n - 1, c) PROVE Right(n, Screen!Walk(t, text, c, n))
  <2>1. c \in Hits /\ Told(t, text, Found(text, V, n, n - 1), c)
    BY <1>3, <1>4
  <2> QED
    BY <2>1, WalkTells
<1>5. T \in [1..N -> [Hits -> Hits]]
  <2>1. ASSUME NEW n \in 1..N, NEW c \in Hits
        PROVE  (IF Told(t, text, Found(text, V, n, n - 1), c) THEN Screen!Walk(t, text, c, n) ELSE c) \in Hits
    BY WalkTells
  <2> HIDE DEF N
  <2> QED
    BY <2>1
<1>6. PICK g \in [0..N -> Hits] : Steps(g, N, Screen!NoHit, T)
  <2> HIDE DEF T, N
  <2> QED
    BY <1>1, <1>2, <1>5, StepsExist
<1> DEFINE Q == {n \in 0..N : Right(n, g[n])}
<1>7. 0 \in Q /\ \A n \in 1..N : n - 1 \in Q => n \in Q
  <2>1. g[0] = Screen!NoHit
    BY <1>6 DEF Steps
  <2>2. ASSUME NEW n \in 1..N, Right(n - 1, g[n - 1]) PROVE Right(n, g[n])
    <3>1. g[n] = T[n][g[n - 1]] /\ g[n - 1] \in Hits
      BY <1>1, <1>6 DEF Steps
    <3>2. Told(t, text, Found(text, V, n, n - 1), g[n - 1])
      BY <1>3, <2>2
    <3>3. g[n] = Screen!Walk(t, text, g[n - 1], n)
      BY <3>1, <3>2
    <3> HIDE DEF T, Right
    <3> QED
      BY <1>4, <2>2, <3>3
  <2> HIDE DEF T, Right
  <2> QED
    BY <1>1, <1>2, <2>1, <2>2
<1>8. \A n \in 0..N : Right(n, g[n])
  <2>1. \A n \in 0..N : n \in Q
    <3> HIDE DEF Q
    <3> QED
      BY <1>1, <1>7, CountUp
  <2> HIDE DEF Right
  <2> QED
    BY <2>1
<1>9. g = Body(g)
  <2>1. ASSUME NEW n \in 0..N PROVE g[n] = IF n = 0 THEN Screen!NoHit ELSE Screen!Walk(t, text, g[n - 1], n)
    <3>1. CASE n = 0
      BY <1>6, <3>1 DEF Steps
    <3>2. CASE n # 0
      <4>1. n \in 1..N /\ n - 1 \in 0..N
        BY <1>1, <3>2
      <4>2. g[n] = T[n][g[n - 1]] /\ g[n - 1] \in Hits
        BY <1>6, <4>1 DEF Steps
      <4>3. Told(t, text, Found(text, V, n, n - 1), g[n - 1])
        BY <1>3, <1>8, <4>1
      <4> QED
        BY <3>2, <4>1, <4>2, <4>3
    <3> QED
      BY <3>1, <3>2
  <2> HIDE DEF N, T
  <2> QED
    BY <2>1
<1>10. PICK h : h = CHOOSE best : best = Body(best)
  OBVIOUS
<1>11. h = Body(h)
  BY <1>9, <1>10
<1>12. Screen!Match(t, text) = h[N]
  BY <1>10 DEF Screen!Match
<1>13. h[0] = Screen!NoHit /\ \A n \in 1..N : h[n] = Screen!Walk(t, text, h[n - 1], n)
  <2>1. h[0] = Body(h)[0]
    BY <1>11
  <2>2. ASSUME NEW n \in 1..N PROVE h[n] = Screen!Walk(t, text, h[n - 1], n)
    <3>1. h[n] = Body(h)[n]
      BY <1>11
    <3>2. n \in 0..N /\ n # 0
      BY <1>1
    <3> QED
      BY <3>1, <3>2
  <2>3. 0 \in 0..N
    BY <1>1
  <2> QED
    BY <2>1, <2>2, <2>3
<1> HIDE DEF Body, T
<1> DEFINE P == {n \in 0..N : Right(n, h[n])}
<1>14. 0 \in P /\ \A n \in 1..N : n - 1 \in P => n \in P
  <2> HIDE DEF Right
  <2> QED
    BY <1>1, <1>2, <1>4, <1>13
<1>15. Right(N, h[N])
  <2>1. \A n \in 0..N : n \in P
    <3> HIDE DEF P
    <3> QED
      BY <1>1, <1>14, CountUp
  <2>2. N \in 0..N
    BY <1>1
  <2> HIDE DEF Right
  <2> QED
    BY <2>1, <2>2
<1> QED
  BY <1>12, <1>15

AllWords == UNION {words[c] : c \in Cats}

LEMMA ScreenSame ==
    /\ \A S : Screen!Cardinality(S) = Cardinality(S)
    /\ \A S, T : Screen!Min(S) = CHOOSE x \in S : \A y \in S : x <= y
BY DEF Screen!Cardinality, Cardinality, Screen!Min

\* A word is at a place when it is found from there.
LEMMA WordAt ==
    ASSUME AllWords \in SUBSET Words, NEW text \in Seq(Letters), NEW i \in 1..Len(text), NEW w
    PROVE  w \in Screen!At(text, i)
           <=> \E x \in Found(text, AllWords, Len(text), Len(text)) : x[1] = i /\ w = SubSeq(text, x[1], x[2])
<1> DEFINE L == Len(text)
<1>1. L \in Nat
  OBVIOUS
<1>2. ASSUME w \in Screen!At(text, i)
      PROVE  \E x \in Found(text, AllWords, L, L) : x[1] = i /\ w = SubSeq(text, x[1], x[2])
  <2>1. w \in AllWords /\ i + Len(w) - 1 <= L /\ SubSeq(text, i, i + Len(w) - 1) = w
    BY <1>2 DEF Screen!At, AllWords
  <2>2. w \in Seq(Letters) /\ w # <<>>
    BY <2>1 DEF Words
  <2>3. Len(w) \in Nat /\ Len(w) > 0
    BY <2>2
  <2> PICK n \in Nat : n = Len(w) /\ n > 0
    BY <2>3
  <2>4. PICK j \in 1..L : j = i + n - 1 /\ j >= i
    <3>1. i + n - 1 <= L /\ i \in Nat /\ i > 0
      BY <1>1, <2>1
    <3> HIDE DEF L
    <3>2. i + n - 1 \in 1..L /\ i + n - 1 >= i
      BY <1>1, <3>1
    <3> QED
      BY <3>2
  <2> PICK x : x = <<i, j>>
    OBVIOUS
  <2>5. x \in (1..L) \X (1..L) /\ x[1] = i /\ x[2] = j /\ SubSeq(text, i, j) = w
    BY <2>1, <2>4
  <2>6. x \in Found(text, AllWords, L, L)
    <3>1. i < L \/ (i = L /\ j <= L)
      <4> HIDE DEF L
      <4> QED
        BY <1>1, <2>4
    <3>2. SubSeq(text, x[1], x[2]) \in AllWords /\ x[1] <= x[2]
      BY <2>1, <2>4, <2>5
    <3> QED
      BY <2>5, <3>1, <3>2 DEF Found
  <2> QED
    BY <2>5, <2>6
<1>3. ASSUME NEW x \in Found(text, AllWords, L, L), x[1] = i, w = SubSeq(text, x[1], x[2])
      PROVE  w \in Screen!At(text, i)
  <2>1. x[2] \in 1..L /\ i <= x[2] /\ w \in AllWords
    BY <1>3 DEF Found
  <2>2. PICK j \in i..L : j = x[2]
    BY <1>1, <2>1
  <2>3. i \in Nat \ {0} /\ j \in i - 1..L
    BY <1>1
  <2>4. Len(w) = j - i + 1
    BY <1>3, <2>2, <2>3, PartOf
  <2>5. i + Len(w) - 1 = j
    BY <1>1, <2>4
  <2>6. SubSeq(text, i, j) = w /\ j <= L
    BY <1>1, <1>3, <2>2
  <2>7. w \in AllWords
    BY <1>3, <2>1
  <2> HIDE DEF L
  <2> QED
    BY <2>5, <2>6, <2>7 DEF Screen!At, AllWords, L
<1> QED
  BY <1>2, <1>3

LEMMA HitTells ==
    ASSUME NEW t, NEW text, NEW x
    PROVE  LET hit == HitAt(t, text, x)
           IN  hit.start = x[1] /\ hit.word = SubSeq(text, x[1], x[2]) /\ hit.cat = t[hit.word]
BY DEF HitAt

\* What the filter finds, told by the words of the text.
MatchOf(text) ==
    LET places == {i \in DOMAIN text : Screen!At(text, i) # {}}
        hit == Screen!Match(trie, text)
    IN  IF places = {} THEN hit = Screen!NoHit
        ELSE /\ hit.start = Screen!Min(places) /\ hit.word \in Screen!At(text, hit.start) /\ trie[hit.word] = hit.cat
             /\ (\A w \in Screen!At(text, hit.start) : Rank(hit.cat) <= Rank(trie[w])) /\ hit \in Hits /\ hit.cat \in Cats

LEMMA MatchIs ==
    ASSUME AllWords \in SUBSET Words, TreeOf(trie, AllWords), NEW text \in Seq(Letters)
    PROVE  MatchOf(text) /\ Screen!Match(trie, text) \in Hits
<1> DEFINE F == Found(text, AllWords, Len(text), Len(text))
           places == {i \in DOMAIN text : Screen!At(text, i) # {}}
<1> PICK hit : hit = Screen!Match(trie, text)
  OBVIOUS
<1>1. Told(trie, text, F, hit) /\ hit \in Hits
  BY MatchTells
<1>2. places = {x[1] : x \in F}
  <2>1. \A i : i \in places <=> i \in 1..Len(text) /\ Screen!At(text, i) # {}
    OBVIOUS
  <2>2. \A x \in F : x[1] \in 1..Len(text)
    BY DEF Found
  <2>3. \A i \in 1..Len(text) : Screen!At(text, i) # {} <=> \E x \in F : x[1] = i
    <3> HIDE DEF F
    <3> TAKE i \in 1..Len(text)
    <3>1. \A w : w \in Screen!At(text, i) <=> \E x \in F : x[1] = i /\ w = SubSeq(text, x[1], x[2])
      BY WordAt DEF F
    <3> QED
      BY <3>1
  <2> HIDE DEF F, places
  <2> QED
    BY <2>1, <2>2, <2>3
<1>3. CASE F = {}
  <2>1. places = {} /\ hit = Screen!NoHit
    BY <1>1, <1>2, <1>3 DEF Told
  <2> QED
    BY <1>1, <2>1 DEF MatchOf
<1>4. CASE F # {}
  <2>1. PICK x \in F : /\ hit = HitAt(trie, text, x)
                       /\ \A y \in F : x[1] < y[1] \/ (x[1] = y[1] /\ Rank(hit.cat) <= Rank(HitAt(trie, text, y).cat))
    BY <1>1, <1>4 DEF Told
  <2>2. hit.start = x[1] /\ hit.word = SubSeq(text, x[1], x[2]) /\ hit.cat = trie[hit.word]
    BY <2>1, HitTells
  <2>3. x[1] \in 1..Len(text) /\ x[1] \in places /\ SubSeq(text, x[1], x[2]) \in AllWords /\ \A y \in F : y[1] \in Nat
    BY <1>2 DEF Found
  <2>4. hit.start = Screen!Min(places)
    <3>1. x[1] \in places /\ \A p \in places : x[1] <= p
      BY <1>2, <2>1, <2>3
    <3>2. Screen!Min(places) = CHOOSE p \in places : \A q \in places : p <= q
      BY ScreenSame
    <3>3. places \subseteq Nat
      BY <1>2, <2>3
    <3>4. hit.start = x[1]
      BY <2>2
    <3> PICK n \in Nat : n = x[1]
      BY <2>3
    <3> HIDE DEF places, F
    <3>5. ASSUME NEW z \in places, \A q \in places : z <= q PROVE z = n
      <4>1. z \in Nat /\ z <= n /\ n <= z
        BY <3>1, <3>3, <3>5
      <4> QED
        BY <4>1
    <3>6. n \in places /\ \A p \in places : n <= p
      BY <3>1
    <3> QED
      BY <3>2, <3>4, <3>5, <3>6
  <2>5. hit.word \in Screen!At(text, hit.start)
    BY <2>2, <2>3, WordAt
  <2>6. ASSUME NEW w \in Screen!At(text, hit.start) PROVE Rank(hit.cat) <= Rank(trie[w])
    <3>1. PICK y \in F : y[1] = hit.start /\ w = SubSeq(text, y[1], y[2])
      BY <2>2, <2>3, WordAt
    <3>2. HitAt(trie, text, y).cat = trie[w]
      BY <3>1 DEF HitAt
    <3> QED
      BY <2>1, <2>2, <2>3, <3>1, <3>2
  <2>7. hit.cat \in Cats
    BY <2>2, <2>3, WordIsNode DEF TreeOf
  <2>8. places # {}
    BY <2>3
  <2> QED
    BY <1>1, <2>2, <2>4, <2>5, <2>6, <2>7, <2>8 DEF MatchOf
<1> QED
  BY <1>1, <1>3, <1>4

LEMMA SmallText ==
    ASSUME NEW text \in Seq(Letters)
    PROVE  Screen!ToLower(text) \in Seq(Letters) /\ DOMAIN Screen!ToLower(text) = DOMAIN text
<1>1. text \in [1..Len(text) -> Letters] /\ Len(text) \in Nat
  BY LenProperties
<1>2. Screen!ToLower(text) = [i \in 1..Len(text) |-> small(text[i])]
  BY <1>1 DEF Screen!ToLower
<1>3. Screen!ToLower(text) \in [1..Len(text) -> Letters]
  BY <1>1, <1>2, ScreenConstants
<1> QED
  BY <1>1, <1>2, <1>3, SeqDef

LEMMA TextIsList ==
    ASSUME NEW text \in {<<>>} \cup Screen!Strings
    PROVE  text \in Seq(Letters)
<1>1. CASE text = <<>>
  BY <1>1, EmptySeq
<1>2. CASE text \in Screen!Strings
  <2>1. PICK n \in 1..MaxText : text \in [1..n -> Letters]
    BY <1>2 DEF Screen!Strings
  <2> QED
    BY <2>1, ScreenConstants, SeqDef
<1> QED
  BY <1>1, <1>2

------------------------------------------------------------------------------
Checked == [phase : {"none", "asking", "done"}, text : {<<>>} \cup Screen!Strings, blocked : BOOLEAN,
            cat : Cats \cup Counted \cup {"none", "unlisted"}, source : {"none", "keyword", "llm"}]
Counts == [Screen!Counters \cup Counted -> Nat]

Six(m) == m["KeywordHits"] + m["LLMHits"] + m["Passes"] + m["SkippedShort"] + m["LLMErrored"] + m["LLMLowConf"]
Few(m) == \A k \in Counted : m[k] <= m["KeywordHits"] + m["LLMHits"]
Waiting(ch) == {c \in Checks : ch[c].phase = "asking"}
\* What is known of one message: the model is asked only about a text without a word, and a text with one is blocked.
Treated(t, r) ==
    LET hit == Screen!Match(t, Screen!ToLower(r.text))
    IN  /\ r.phase = "asking" => hit = Screen!NoHit
        /\ r.phase = "done" /\ hit # Screen!NoHit => r.blocked /\ r.source = "keyword"

ScreenInv ==
    /\ words \in [Cats -> SUBSET Words] /\ TreeOf(trie, AllWords) /\ hasModel \in BOOLEAN
    /\ check \in [Checks -> Checked] /\ \A c \in Checks : Treated(trie, check[c])
    /\ metrics \in Counts /\ Few(metrics) /\ asked \in 0..MaxChecks
    /\ Six(metrics) = asked - Cardinality(Waiting(check))
    /\ gate \in [traits : SUBSET Screen!Traits, model : {"none", "allowed", "denied"}, allowed : BOOLEAN]
    /\ gate = Screen!Untried \/ gate.allowed = Screen!assessUserInputTrust(gate.traits, gate.model, Threshold)

LEMMA WaitingMoves ==
    ASSUME NEW ch \in [Checks -> Checked], NEW c \in Checks, NEW r \in Checked
    PROVE  LET n == Cardinality(Waiting(ch))
               m == Cardinality(Waiting([ch EXCEPT ![c] = r]))
           IN  /\ n \in Nat /\ m \in Nat
               /\ ch[c].phase # "asking" /\ r.phase = "asking" => m = n + 1
               /\ ch[c].phase # "asking" /\ r.phase # "asking" => m = n
               /\ ch[c].phase = "asking" /\ r.phase # "asking" => m = n - 1
<1> DEFINE W == Waiting(ch)
           U == Waiting([ch EXCEPT ![c] = r])
<1>1. IsFiniteSet(W) /\ IsFiniteSet(U)
  <2>1. W \subseteq Checks /\ U \subseteq Checks
    BY DEF Waiting
  <2> HIDE DEF W, U
  <2> QED
    BY <2>1, ScreenConstants, FS_Subset
<1>2. Cardinality(W) \in Nat /\ Cardinality(U) \in Nat
  BY <1>1, FS_CardinalityType
<1>3. U = IF r.phase = "asking" THEN W \cup {c} ELSE W \ {c}
  BY DEF Waiting
<1>4. c \in W <=> ch[c].phase = "asking"
  BY DEF Waiting
<1> HIDE DEF W, U
<1>5. /\ Cardinality(W \cup {c}) = IF c \in W THEN Cardinality(W) ELSE Cardinality(W) + 1
      /\ Cardinality(W \ {c}) = IF c \in W THEN Cardinality(W) - 1 ELSE Cardinality(W)
  BY <1>1, FS_AddElement, FS_RemoveElement
<1> QED
  BY <1>2, <1>3, <1>4, <1>5 DEF W, U

LEMMA OneCounted ==
    ASSUME NEW m \in Counts, Few(m), NEW counter \in Screen!Counters
    PROVE  LET n == [m EXCEPT ![counter] = @ + 1] IN n \in Counts /\ Few(n) /\ Six(n) = Six(m) + 1
<1>1. Screen!Counters = {"KeywordHits", "LLMHits", "Passes", "SkippedShort", "LLMErrored", "LLMLowConf"}
  BY DEF Screen!Counters
<1> PICK n : n = [m EXCEPT ![counter] = @ + 1]
  OBVIOUS
<1>2. n \in Counts
  BY DEF Counts
<1>3. \A k \in Screen!Counters \cup Counted : n[k] = IF k = counter THEN m[k] + 1 ELSE m[k]
  BY DEF Counts
<1>4. \A k \in Screen!Counters \cup Counted : m[k] \in Nat
  BY DEF Counts
<1>5. \A k \in Counted : k # counter
  BY ScreenConstants
<1>6. Few(n)
  <2>1. n["KeywordHits"] >= m["KeywordHits"] /\ n["LLMHits"] >= m["LLMHits"] /\ n["KeywordHits"] \in Nat /\ n["LLMHits"] \in Nat
    BY <1>1, <1>3, <1>4
  <2>2. m["KeywordHits"] \in Nat /\ m["LLMHits"] \in Nat
    BY <1>1, <1>4
  <2> QED
    BY <1>3, <1>4, <1>5, <2>1, <2>2 DEF Few
<1>7. Six(n) = Six(m) + 1
  <2> PICK v \in [Screen!Counters -> Nat] : \A k \in Screen!Counters : v[k] = m[k]
    <3>1. [k \in Screen!Counters |-> m[k]] \in [Screen!Counters -> Nat]
      BY <1>4
    <3> QED
      BY <3>1
  <2>1. \A k \in Screen!Counters : n[k] = IF k = counter THEN v[k] + 1 ELSE v[k]
    BY <1>3
  <2>2. Six(m) = v["KeywordHits"] + v["LLMHits"] + v["Passes"] + v["SkippedShort"] + v["LLMErrored"] + v["LLMLowConf"]
    BY <1>1 DEF Six
  <2>3. v["KeywordHits"] \in Nat /\ v["LLMHits"] \in Nat /\ v["Passes"] \in Nat /\ v["SkippedShort"] \in Nat
        /\ v["LLMErrored"] \in Nat /\ v["LLMLowConf"] \in Nat
    BY <1>1
  <2>4. counter \in {"KeywordHits", "LLMHits", "Passes", "SkippedShort", "LLMErrored", "LLMLowConf"}
    BY <1>1
  <2> QED
    BY <1>1, <2>1, <2>2, <2>3, <2>4 DEF Six
<1> QED
  BY <1>2, <1>6, <1>7

LEMMA HitCounted ==
    ASSUME NEW m \in Counts, Few(m), NEW source \in {"keyword", "llm"}, NEW cat \in Cats \cup Counted \cup {"unlisted"},
           NEW n, n = [k \in DOMAIN m |-> m[k] + IF k = (IF source = "keyword" THEN "KeywordHits" ELSE "LLMHits") \/ k = cat THEN 1 ELSE 0]
    PROVE  n \in Counts /\ Few(n) /\ Six(n) = Six(m) + 1
<1>1. Screen!Counters = {"KeywordHits", "LLMHits", "Passes", "SkippedShort", "LLMErrored", "LLMLowConf"}
  BY DEF Screen!Counters
<1> PICK one : one = IF source = "keyword" THEN "KeywordHits" ELSE "LLMHits"
  OBVIOUS
<1>2. one \in {"KeywordHits", "LLMHits"}
  OBVIOUS
<1>3. cat \notin Screen!Counters
  BY ScreenConstants
<1>4. DOMAIN m = Screen!Counters \cup Counted /\ \A k \in Screen!Counters \cup Counted : m[k] \in Nat
  BY DEF Counts
<1>5. n \in Counts
  BY <1>4 DEF Counts
<1>6. \A k \in Screen!Counters : n[k] = IF k = one THEN m[k] + 1 ELSE m[k]
  BY <1>3, <1>4
<1>7. Six(n) = Six(m) + 1
  BY <1>1, <1>2, <1>4, <1>6 DEF Six
<1>8. Few(n)
  <2>1. n["KeywordHits"] + n["LLMHits"] = m["KeywordHits"] + m["LLMHits"] + 1
    BY <1>1, <1>2, <1>4, <1>6
  <2>2. ASSUME NEW k \in Counted PROVE n[k] <= m[k] + 1 /\ m[k] \in Nat /\ n[k] \in Nat
    BY <1>4, <1>5 DEF Counts
  <2>3. n["KeywordHits"] \in Nat /\ n["LLMHits"] \in Nat /\ m["KeywordHits"] \in Nat /\ m["LLMHits"] \in Nat
    BY <1>1, <1>4, <1>5 DEF Counts
  <2> QED
    BY <2>1, <2>2, <2>3 DEF Few
<1> QED
  BY <1>5, <1>7, <1>8

------------------------------------------------------------------------------
LEMMA ScreenStart ==
    ASSUME Screen!Init
    PROVE  ScreenInv
<1>1. words \in [Cats -> SUBSET Words]
  BY ScreenConstants DEF Screen!Init
<1>2. TreeOf(trie, AllWords)
  BY <1>1, TreeIsBuilt DEF Screen!Init, AllWords
<1>3. check \in [Checks -> Checked] /\ \A c \in Checks : check[c].phase = "none"
  <2>1. Screen!NoCheck \in Checked /\ Screen!NoCheck.phase = "none"
    BY DEF Screen!NoCheck, Screen!None, Checked
  <2> QED
    BY <2>1 DEF Screen!Init
<1>4. metrics \in Counts /\ Few(metrics) /\ Six(metrics) = 0
  BY DEF Screen!Init, Counts, Few, Six, Screen!Counters
<1>5. Cardinality(Waiting(check)) = 0
  <2>1. Waiting(check) = {}
    BY <1>3 DEF Waiting
  <2> QED
    BY <2>1, FS_EmptySet
<1>6. \A c \in Checks : Treated(trie, check[c])
  BY <1>3 DEF Treated
<1>7. gate = Screen!Untried /\ asked = 0 /\ hasModel \in BOOLEAN
  BY DEF Screen!Init
<1>8. gate \in [traits : SUBSET Screen!Traits, model : {"none", "allowed", "denied"}, allowed : BOOLEAN]
  BY <1>7 DEF Screen!Untried, Screen!None
<1> QED
  BY <1>1, <1>2, <1>3, <1>4, <1>5, <1>6, <1>7, <1>8, ScreenConstants DEF ScreenInv

OneMore(m, n, a, b, before, after) ==
    Six(n) = Six(m) + (b - a) + (IF before = "asking" THEN 1 ELSE 0) - (IF after = "asking" THEN 1 ELSE 0)

\* A message is taken on, or its treatment ends.
LEMMA OneChecked ==
    ASSUME ScreenInv, NEW c \in Checks, NEW r \in Checked, Treated(trie, r), check' = [check EXCEPT ![c] = r],
           asked' \in 0..MaxChecks, metrics' \in Counts, Few(metrics'),
           OneMore(metrics, metrics', asked, asked', check[c].phase, r.phase),
           words' = words, trie' = trie, hasModel' = hasModel, gate' = gate
    PROVE  ScreenInv'
<1>1. /\ check \in [Checks -> Checked] /\ \A o \in Checks : Treated(trie, check[o])
      /\ Six(metrics) = asked - Cardinality(Waiting(check)) /\ asked \in 0..MaxChecks
  BY DEF ScreenInv
<1>2. check' \in [Checks -> Checked] /\ \A o \in Checks : check'[o] = IF o = c THEN r ELSE check[o]
  BY <1>1
<1>3. \A o \in Checks : Treated(trie', check'[o])
  BY <1>1, <1>2
<1>4. Six(metrics') = asked' - Cardinality(Waiting(check'))
  <2> PICK n, m : n = Cardinality(Waiting(check)) /\ m = Cardinality(Waiting(check'))
    OBVIOUS
  <2>1. /\ n \in Nat /\ m \in Nat
        /\ check[c].phase # "asking" /\ r.phase = "asking" => m = n + 1
        /\ check[c].phase # "asking" /\ r.phase # "asking" => m = n
        /\ check[c].phase = "asking" /\ r.phase # "asking" => m = n - 1
        /\ check[c].phase = "asking" /\ r.phase = "asking" => m = n
    <3>1. CASE check[c].phase = "asking" /\ r.phase = "asking"
      <4>1. Waiting(check') = Waiting(check)
        BY <1>2, <3>1 DEF Waiting
      <4>2. n \in Nat
        BY <1>1, WaitingMoves
      <4> QED
        BY <3>1, <4>1, <4>2
    <3> QED
      BY <1>1, <3>1, WaitingMoves
  <2>2. Six(metrics) = asked - n
    BY <1>1
  <2>3. asked \in Int /\ asked' \in Int
    BY <1>1
  <2> QED
    BY <2>1, <2>2, <2>3 DEF OneMore
<1>5. words' = words /\ trie' = trie /\ hasModel' = hasModel /\ gate' = gate
  OBVIOUS
<1>6. AllWords' = AllWords
  BY <1>5 DEF AllWords
<1> QED
  BY <1>2, <1>3, <1>4, <1>5, <1>6 DEF ScreenInv

LEMMA MessageTaken ==
    ASSUME NEW before, NEW text
    PROVE  [[phase |-> "none", text |-> before, blocked |-> FALSE, cat |-> "none", source |-> "none"]
                EXCEPT !.phase = "asking", !.text = text]
           = [phase |-> "asking", text |-> text, blocked |-> FALSE, cat |-> "none", source |-> "none"]
<1> PICK n : n = [phase |-> "none", text |-> before, blocked |-> FALSE, cat |-> "none", source |-> "none"]
  OBVIOUS
<1>1. n \in [phase : {"none", "asking"}, text : {before, text}, blocked : {FALSE}, cat : {"none"}, source : {"none"}]
  OBVIOUS
<1> PICK e : e = [n EXCEPT !.phase = "asking", !.text = text]
  OBVIOUS
<1>2. e \in [phase : {"asking"}, text : {text}, blocked : {FALSE}, cat : {"none"}, source : {"none"}]
  BY <1>1
<1>3. e = [phase |-> "asking", text |-> text, blocked |-> FALSE, cat |-> "none", source |-> "none"]
  BY <1>2
<1> QED
  BY <1>3

LEMMA OneReceived ==
    ASSUME ScreenInv, NEW c \in Checks, NEW text \in Screen!Strings, Screen!Receive(c, text)
    PROVE  ScreenInv'
<1> PICK hit : hit = Screen!Match(trie, Screen!ToLower(text))
  OBVIOUS
<1> DEFINE ends(blocked, cat, source) ==
               [phase |-> "done", text |-> text, blocked |-> blocked, cat |-> cat, source |-> source]
           waits == [phase |-> "asking", text |-> text, blocked |-> FALSE, cat |-> "none", source |-> "none"]
<1>1. check \in [Checks -> Checked] /\ metrics \in Counts /\ Few(metrics) /\ asked \in 0..MaxChecks /\ MaxChecks \in Nat
  BY ScreenConstants DEF ScreenInv
<1>2. check[c].phase # "asking" /\ asked' = asked + 1 /\ asked' \in 0..MaxChecks
  BY <1>1 DEF Screen!Receive
<1>3. words' = words /\ trie' = trie /\ hasModel' = hasModel /\ gate' = gate
  BY DEF Screen!Receive
<1>4. text \in Seq(Letters) /\ Screen!ToLower(text) \in Seq(Letters)
  BY TextIsList, SmallText
<1>5. hit = Screen!NoHit \/ hit.cat \in Cats
  <2>1. AllWords \in SUBSET Words /\ TreeOf(trie, AllWords)
    BY DEF ScreenInv, AllWords
  <2> QED
    BY <1>4, <2>1, MatchIs DEF MatchOf
<1>6. CASE check' = [check EXCEPT ![c] = waits] /\ UNCHANGED metrics /\ hit = Screen!NoHit
  <2>1. waits \in Checked /\ Treated(trie, waits) /\ waits.phase = "asking"
    BY <1>6 DEF Checked, Treated
  <2> HIDE DEF waits
  <2>2. metrics' = metrics /\ check' = [check EXCEPT ![c] = waits]
    BY <1>6
  <2>3. OneMore(metrics, metrics', asked, asked', check[c].phase, waits.phase)
    <3>1. Six(metrics) \in Int
      <4>1. \A k \in Screen!Counters : metrics[k] \in Nat
        BY <1>1 DEF Counts
      <4> QED
        BY <4>1 DEF Six, Screen!Counters
    <3> QED
      BY <1>1, <1>2, <2>1, <2>2, <3>1 DEF OneMore
  <2> QED
    BY <1>1, <1>2, <1>3, <2>1, <2>2, <2>3, OneChecked
<1>7. CASE check' = [check EXCEPT ![c] = ends(TRUE, hit.cat, "keyword")] /\ metrics' = Screen!observe("keyword", hit.cat) /\ hit # Screen!NoHit
  <2> PICK r : r = ends(TRUE, hit.cat, "keyword")
    OBVIOUS
  <2>1. r \in Checked /\ Treated(trie, r) /\ r.phase = "done"
    BY <1>5, <1>7 DEF Checked, Treated
  <2>2. metrics' \in Counts /\ Few(metrics') /\ Six(metrics') = Six(metrics) + 1
    BY <1>1, <1>5, <1>7, HitCounted DEF Screen!observe
  <2>3. Six(metrics') = Six(metrics) + (asked' - asked) /\ Six(metrics') \in Int
    <3>1. \A k \in Screen!Counters : metrics'[k] \in Nat
      BY <2>2 DEF Counts
    <3>2. Six(metrics') \in Int
      BY <3>1 DEF Six, Screen!Counters
    <3> QED
      BY <1>1, <1>2, <2>2, <3>2
  <2>4. OneMore(metrics, metrics', asked, asked', check[c].phase, r.phase)
    BY <1>1, <1>2, <2>1, <2>3 DEF OneMore
  <2>5. check' = [check EXCEPT ![c] = r]
    BY <1>7
  <2> HIDE DEF ends
  <2> QED
    BY <1>2, <1>3, <2>1, <2>2, <2>4, <2>5, OneChecked
<1>8. ASSUME NEW counter \in Screen!Counters, check' = [check EXCEPT ![c] = ends(FALSE, "none", "none")], metrics' = Screen!Plus(counter),
             hit = Screen!NoHit
      PROVE  ScreenInv'
  <2> PICK r : r = ends(FALSE, "none", "none")
    OBVIOUS
  <2>1. r \in Checked /\ Treated(trie, r) /\ r.phase = "done"
    BY <1>8 DEF Checked, Treated
  <2>2. metrics' \in Counts /\ Few(metrics') /\ Six(metrics') = Six(metrics) + 1
    BY <1>1, <1>8, OneCounted DEF Screen!Plus
  <2>3. Six(metrics') = Six(metrics) + (asked' - asked) /\ Six(metrics') \in Int
    <3>1. \A k \in Screen!Counters : metrics'[k] \in Nat
      BY <2>2 DEF Counts
    <3>2. Six(metrics') \in Int
      BY <3>1 DEF Six, Screen!Counters
    <3> QED
      BY <1>1, <1>2, <2>2, <3>2
  <2>4. OneMore(metrics, metrics', asked, asked', check[c].phase, r.phase)
    BY <1>1, <1>2, <2>1, <2>3 DEF OneMore
  <2>5. check' = [check EXCEPT ![c] = r]
    BY <1>8
  <2> HIDE DEF ends
  <2> QED
    BY <1>2, <1>3, <2>1, <2>2, <2>4, <2>5, OneChecked
<1>9. \/ check' = [check EXCEPT ![c] = waits] /\ UNCHANGED metrics /\ hit = Screen!NoHit
      \/ check' = [check EXCEPT ![c] = ends(TRUE, hit.cat, "keyword")] /\ metrics' = Screen!observe("keyword", hit.cat) /\ hit # Screen!NoHit
      \/ /\ check' = [check EXCEPT ![c] = ends(FALSE, "none", "none")] /\ hit = Screen!NoHit
         /\ metrics' = Screen!Plus("SkippedShort") \/ metrics' = Screen!Plus("Passes")
  <2> PICK seen : seen = [check EXCEPT ![c] = [Screen!NoCheck EXCEPT !.phase = "asking", !.text = text]]
    OBVIOUS
  <2> DEFINE Ended(blocked, cat, source) ==
                 [seen EXCEPT ![c].phase = "done", ![c].blocked = blocked, ![c].cat = cat, ![c].source = source]
  <2>1. seen = [check EXCEPT ![c] = waits]
    <3>1. [Screen!NoCheck EXCEPT !.phase = "asking", !.text = text] = waits
      BY MessageTaken DEF Screen!NoCheck, Screen!None
    <3> HIDE DEF waits
    <3> QED
      BY <3>1
  <2>6. waits \in Checked
    BY DEF Checked
  <2>2. ASSUME NEW blocked, NEW cat, NEW source
        PROVE  Ended(blocked, cat, source) = [check EXCEPT ![c] = ends(blocked, cat, source)]
    <3>1. seen \in [Checks -> Checked] /\ seen[c] = waits
      <4> HIDE DEF waits
      <4> QED
        BY <1>1, <2>1, <2>6
    <3> PICK e : e = [seen[c] EXCEPT !.phase = "done", !.blocked = blocked, !.cat = cat, !.source = source]
      OBVIOUS
    <3>2. e = ends(blocked, cat, source)
      BY <3>1
    <3>3. Ended(blocked, cat, source) = [seen EXCEPT ![c] = e]
      BY <3>1 DEF Checked
    <3>4. [seen EXCEPT ![c] = e] = [check EXCEPT ![c] = e]
      <4> HIDE DEF waits
      <4> QED
        BY <1>1, <2>1
    <3> HIDE DEF ends, Ended
    <3> QED
      BY <3>2, <3>3, <3>4
  <2>3. CASE Screen!AsksModel(hit, text)
    <3>1. check' = seen /\ UNCHANGED metrics
      BY <2>3 DEF Screen!Receive
    <3> QED
      BY <2>1, <2>3, <3>1 DEF Screen!AsksModel
  <2>4. CASE ~Screen!AsksModel(hit, text) /\ hit # Screen!NoHit
    <3>1. /\ check' = Ended(TRUE, hit.cat, "keyword")
          /\ metrics' = Screen!observe("keyword", hit.cat)
      BY <2>4 DEF Screen!Receive
    <3>2. check' = [check EXCEPT ![c] = ends(TRUE, hit.cat, "keyword")]
      <4> HIDE DEF ends, Ended
      <4> QED
        BY <2>2, <3>1
    <3> HIDE DEF ends, waits
    <3> QED
      BY <2>4, <3>1, <3>2
  <2>5. CASE ~Screen!AsksModel(hit, text) /\ hit = Screen!NoHit
    <3>1. /\ check' = Ended(FALSE, "none", "none")
          /\ metrics' = Screen!Plus(IF hasModel THEN "SkippedShort" ELSE "Passes")
      BY <2>5 DEF Screen!Receive, Screen!None
    <3>2. check' = [check EXCEPT ![c] = ends(FALSE, "none", "none")]
      <4> HIDE DEF ends, Ended
      <4> QED
        BY <2>2, <3>1
    <3> HIDE DEF ends, waits
    <3> QED
      BY <2>5, <3>1, <3>2
  <2> QED
    BY <2>3, <2>4, <2>5
<1> HIDE DEF ends, waits
<1> QED
  BY <1>6, <1>7, <1>8, <1>9 DEF Screen!Counters

LEMMA OneAnswered ==
    ASSUME ScreenInv, NEW c \in Checks, NEW answer, NEW cat, Screen!Answer(c, answer, cat),
           (answer = "sure" /\ cat \in Counted \cup {"unlisted"}) \/ answer \in {"error", "clean", "unsure"}
    PROVE  ScreenInv'
<1>1. check \in [Checks -> Checked] /\ metrics \in Counts /\ Few(metrics) /\ asked \in 0..MaxChecks /\ MaxChecks \in Nat
  BY ScreenConstants DEF ScreenInv
<1>2. check[c].phase = "asking" /\ UNCHANGED <<words, trie, hasModel, asked, gate>>
  BY DEF Screen!Answer
<1>3. Screen!Match(trie, Screen!ToLower(check[c].text)) = Screen!NoHit
  BY <1>2 DEF ScreenInv, Treated
<1>4. ASSUME NEW counter \in Screen!Counters, Screen!Pass(c, counter) PROVE ScreenInv'
  <2> PICK r : r = [check[c] EXCEPT !.phase = "done"]
    OBVIOUS
  <2>1. r \in Checked /\ r.phase = "done" /\ r.text = check[c].text
    BY <1>1 DEF Checked
  <2>2. Treated(trie, r)
    BY <1>3, <2>1 DEF Treated
  <2>3. check' = [check EXCEPT ![c] = r]
    BY <1>1, <1>4 DEF Screen!Pass
  <2>4. metrics' \in Counts /\ Few(metrics') /\ Six(metrics') = Six(metrics) + 1
    BY <1>1, <1>4, OneCounted DEF Screen!Plus, Screen!Pass
  <2>5. asked' \in 0..MaxChecks /\ words' = words /\ trie' = trie /\ hasModel' = hasModel /\ gate' = gate
    BY <1>1, <1>2
  <2>6. OneMore(metrics, metrics', asked, asked', check[c].phase, r.phase)
    <3>1. \A k \in Screen!Counters : metrics[k] \in Nat
      BY <1>1 DEF Counts
    <3>2. Six(metrics) \in Int /\ asked \in Int
      BY <1>1, <3>1 DEF Six, Screen!Counters
    <3> QED
      BY <1>2, <2>1, <2>4, <3>2 DEF OneMore
  <2> QED
    BY <2>1, <2>2, <2>3, <2>4, <2>5, <2>6, OneChecked
<1>5. ASSUME Screen!Blocked(c, "llm", cat), cat \in Counted \cup {"unlisted"} PROVE ScreenInv'
  <2> PICK r : r = [check[c] EXCEPT !.phase = "done", !.blocked = TRUE, !.cat = cat, !.source = "llm"]
    OBVIOUS
  <2>1. r \in Checked /\ r.phase = "done" /\ r.text = check[c].text
    BY <1>1, <1>5 DEF Checked
  <2>2. Treated(trie, r)
    BY <1>3, <2>1 DEF Treated
  <2>3. check' = [check EXCEPT ![c] = r]
    BY <1>1, <1>5 DEF Screen!Blocked
  <2>4. metrics' \in Counts /\ Few(metrics') /\ Six(metrics') = Six(metrics) + 1
    BY <1>1, <1>5, HitCounted DEF Screen!observe, Screen!Blocked
  <2>5. asked' \in 0..MaxChecks /\ words' = words /\ trie' = trie /\ hasModel' = hasModel /\ gate' = gate
    BY <1>1, <1>2
  <2>6. OneMore(metrics, metrics', asked, asked', check[c].phase, r.phase)
    <3>1. \A k \in Screen!Counters : metrics[k] \in Nat
      BY <1>1 DEF Counts
    <3>2. Six(metrics) \in Int /\ asked \in Int
      BY <1>1, <3>1 DEF Six, Screen!Counters
    <3> QED
      BY <1>2, <2>1, <2>4, <3>2 DEF OneMore
  <2> QED
    BY <2>1, <2>2, <2>3, <2>4, <2>5, <2>6, OneChecked
<1>6. CASE answer = "sure"
  <2>1. Screen!Blocked(c, "llm", cat)
    BY <1>6 DEF Screen!Answer
  <2> QED
    BY <1>5, <1>6, <2>1
<1>7. CASE answer \in {"error", "clean", "unsure"}
  <2>1. \E counter \in {"LLMErrored", "Passes", "LLMLowConf"} : Screen!Pass(c, counter)
    BY <1>7 DEF Screen!Answer, Screen!LowConfidence
  <2> QED
    BY <1>4, <2>1 DEF Screen!Counters
<1> QED
  BY <1>6, <1>7

LEMMA ScreenStep ==
    ASSUME ScreenInv, Screen!Next
    PROVE  ScreenInv'
<1>1. ASSUME NEW traits \in SUBSET Screen!Traits, NEW model \in {"none", "allowed", "denied"}, Screen!Assess(traits, model)
      PROVE  ScreenInv'
  <2>1. gate' = [traits |-> traits, model |-> model, allowed |-> Screen!assessUserInputTrust(traits, model, Threshold)]
        /\ UNCHANGED <<words, trie, hasModel, check, metrics, asked>>
    BY <1>1 DEF Screen!Assess
  <2>2. Screen!assessUserInputTrust(traits, model, Threshold) \in BOOLEAN
    <3>1. (model = "allowed") \in BOOLEAN /\ (Screen!Score(traits) > Threshold) \in BOOLEAN /\ FALSE \in BOOLEAN /\ TRUE \in BOOLEAN
      OBVIOUS
    <3> QED
      BY <3>1, Zenon DEF Screen!assessUserInputTrust
  <2>3. /\ gate' \in [traits : SUBSET Screen!Traits, model : {"none", "allowed", "denied"}, allowed : BOOLEAN]
        /\ gate'.allowed = Screen!assessUserInputTrust(gate'.traits, gate'.model, Threshold)
    BY <2>1, <2>2
  <2>4. AllWords' = AllWords
    BY <2>1 DEF AllWords
  <2> QED
    BY <2>1, <2>3, <2>4 DEF ScreenInv
<1> QED
  BY <1>1, OneReceived, OneAnswered DEF Screen!Next, Screen!None, Screen!Unlisted

LEMMA ScreenKeeps ==
    ASSUME ScreenInv, Threshold < 0
    PROVE  ScreenKept
<1>1. AllWords \in SUBSET Words /\ TreeOf(trie, AllWords)
  BY DEF ScreenInv, AllWords
<1>2. \A c \in Checks : check[c].text \in Seq(Letters)
  <2>1. \A c \in Checks : check[c].text \in {<<>>} \cup Screen!Strings
    BY DEF ScreenInv, Checked
  <2> QED
    BY <2>1, TextIsList
<1>3. ASSUME NEW c \in Checks
      PROVE  MatchOf(Screen!ToLower(check[c].text)) /\ DOMAIN Screen!ToLower(check[c].text) = DOMAIN check[c].text
  BY <1>1, <1>2, SmallText, MatchIs
<1>4. Screen!MatchIsExact
  BY <1>3 DEF Screen!MatchIsExact, MatchOf
<1>5. Screen!ModelOnlyAdds
  <2> SUFFICES ASSUME NEW c \in Checks, check[c].phase = "done", NEW i \in DOMAIN check[c].text,
                      Screen!At(Screen!ToLower(check[c].text), i) # {}
               PROVE  check[c].blocked /\ check[c].source = "keyword"
    BY DEF Screen!ModelOnlyAdds
  <2> PICK text : text = Screen!ToLower(check[c].text)
    OBVIOUS
  <2> PICK hit : hit = Screen!Match(trie, text)
    OBVIOUS
  <2>1. {p \in DOMAIN text : Screen!At(text, p) # {}} # {}
    BY <1>3
  <2>2. hit.cat \in Cats
    BY <1>3, <2>1 DEF MatchOf
  <2>3. hit # Screen!NoHit
    <3>1. SUFFICES ASSUME hit = Screen!NoHit PROVE FALSE
      OBVIOUS
    <3>2. hit.cat = "none"
      BY <3>1 DEF Screen!NoHit, Screen!None
    <3> QED
      BY <2>2, <3>2, ScreenConstants
  <2> QED
    BY <2>3 DEF ScreenInv, Treated
<1>6. Screen!EveryCheckCounted
  <2>1. Six(metrics) = asked - Cardinality(Waiting(check))
    BY DEF ScreenInv
  <2>2. Screen!Cardinality({c \in Checks : check[c].phase = "asking"}) = Cardinality(Waiting(check))
    BY ScreenSame DEF Waiting
  <2> QED
    BY <2>1, <2>2 DEF Screen!EveryCheckCounted, Six
<1>7. Screen!TypeOK
  <2>1. DOMAIN words = Cats /\ hasModel \in BOOLEAN /\ asked \in 0..MaxChecks
    BY DEF ScreenInv
  <2>2. DOMAIN trie \subseteq Seq(Letters)
    <3>1. \A w \in AllWords : Screen!Prefixes(w) \subseteq Seq(Letters)
      BY <1>1, WordIsNode
    <3> QED
      BY <1>1, <3>1, EmptySeq DEF TreeOf
  <2>3. check \in [Checks -> Checked]
    BY DEF ScreenInv
  <2>4. metrics \in [Screen!Counters \cup Counted -> 0..MaxChecks]
    <3>1. metrics \in Counts /\ Few(metrics) /\ Six(metrics) <= asked /\ asked \in 0..MaxChecks
      <4>1. Waiting(check) \subseteq Checks
        BY DEF Waiting
      <4>2. Cardinality(Waiting(check)) \in Nat
        BY <4>1, ScreenConstants, FS_Subset, FS_CardinalityType
      <4> QED
        BY <4>2 DEF ScreenInv
    <3>2. \A k \in Screen!Counters : metrics[k] \in Nat /\ metrics[k] <= asked
      <4>1. Screen!Counters = {"KeywordHits", "LLMHits", "Passes", "SkippedShort", "LLMErrored", "LLMLowConf"}
        BY DEF Screen!Counters
      <4>2. \A k \in Screen!Counters : metrics[k] \in Nat
        BY <3>1 DEF Counts
      <4> QED
        BY <3>1, <4>1, <4>2 DEF Six
    <3>3. metrics["KeywordHits"] + metrics["LLMHits"] <= asked
      <4>1. Screen!Counters = {"KeywordHits", "LLMHits", "Passes", "SkippedShort", "LLMErrored", "LLMLowConf"}
        BY DEF Screen!Counters
      <4> QED
        BY <3>1, <3>2, <4>1 DEF Six
    <3>4. \A k \in Counted : metrics[k] \in Nat /\ metrics[k] <= asked
      <4>1. \A k \in Counted : metrics[k] \in Nat
        BY <3>1 DEF Counts
      <4>2. metrics["KeywordHits"] \in Nat /\ metrics["LLMHits"] \in Nat
        BY <3>1 DEF Counts, Screen!Counters
      <4> QED
        BY <3>1, <3>3, <4>1, <4>2 DEF Few
    <3>5. \A k \in Screen!Counters \cup Counted : metrics[k] \in 0..MaxChecks
      BY <3>1, <3>2, <3>4, ScreenConstants
    <3> QED
      BY <3>1, <3>5 DEF Counts
  <2>5. gate \in [traits : SUBSET Screen!Traits, model : {"none", "allowed", "denied"}, allowed : BOOLEAN]
    BY DEF ScreenInv
  <2> QED
    BY <2>1, <2>2, <2>3, <2>4, <2>5 DEF Screen!TypeOK, Checked, Screen!None, Screen!Unlisted
<1>8. Screen!UsualPasses
  <2> SUFFICES ASSUME gate.model = "none", Screen!Usual(gate.traits) \/ gate.traits \cap {"risky", "garbage"} = {},
                      Screen!Usual(gate.traits) \/ "contact" \in gate.traits \/ "long" \notin gate.traits
               PROVE  gate.allowed
    BY DEF Screen!UsualPasses, Screen!None
  <2>1. CASE gate = Screen!Untried
    BY <2>1 DEF Screen!Untried
  <2>2. CASE gate.allowed = Screen!assessUserInputTrust(gate.traits, gate.model, Threshold)
    <3>1. "contact" \notin gate.traits => Screen!Score(gate.traits) >= 0 /\ Screen!Score(gate.traits) \in Int
      BY DEF Screen!Score, Screen!Usual
    <3>2. "contact" \notin gate.traits => Screen!Score(gate.traits) > Threshold
      BY <3>1, ScreenConstants
    <3> QED
      BY <2>2, <3>2 DEF Screen!assessUserInputTrust, Screen!None
  <2> QED
    BY <2>1, <2>2 DEF ScreenInv
<1> QED
  BY <1>4, <1>5, <1>6, <1>7, <1>8 DEF ScreenKept
=============================================================================
