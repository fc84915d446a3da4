----------------------------- MODULE TurnsProofs ----------------------------
(***************************************************************************)
(* Theorems about what has to come to an end in the server: the debounce,  *)
(* for any number of messages (nobody's message is stranded, each is       *)
(* handed over exactly once), and the pool, for any number of callers,     *)
(* workers, closers and jobs and any capacity (no job that was taken is    *)
(* lost or runs twice, and a Close that returns leaves none undone).       *)
(***************************************************************************)
EXTENDS MCTurns, Integers, TLAPS

------------------------------------------------------------------------------
(* The debounce *)

\* A goroutine that has put its message into a state.
Entered(m) == pc[m] \notin {"new", "append"}

\* The state named for a message is untouched until that message makes it.
FreshStates ==
    \A m \in Msgs : ~Entered(m) =>
        /\ current # m
        /\ ~processing[m]
        /\ queue[m] = <<>>
        /\ timer[m] = NoMsg
        /\ \A n \in Msgs : at[n] # m

\* A running state has no messages.
RunningIsEmpty == \A s \in States : processing[s] => queue[s] = <<>>

\* A message waits in the state its goroutine works on.
WaitsAtItsState ==
    \A m \in Msgs, s \in States : m \in Messages(queue[s]) => at[m] = s /\ Entered(m)

\* The timer field names a goroutine of the same state.
TimerIsLocal ==
    \A s \in States : timer[s] # NoMsg => at[timer[s]] = s /\ Entered(timer[s])

\* A goroutine takes one batch in its life, of messages that have entered.
OneBatchEach ==
    /\ \A m \in Msgs : batch[m] # <<>> => pc[m] \in {"read", "ask", "answer", "release", "done"}
    /\ \A m, n \in Msgs : n \in Messages(batch[m]) => Entered(n)

Placement ==
    FreshStates /\ RunningIsEmpty /\ WaitsAtItsState /\ TimerIsLocal /\ OneBatchEach

Inv == TypeOK /\ Placement /\ NoneForgotten

LEMMA AppendMessages ==
    ASSUME NEW q \in Seq(Msgs), NEW m \in Msgs
    PROVE  Messages(Append(q, m)) = Messages(q) \cup {m} /\ Append(q, m) # <<>>
<1> DEFINE a == Append(q, m)
<1>1. /\ DOMAIN q = 1 .. Len(q) /\ Len(q) \in Nat
      /\ DOMAIN a = 1 .. Len(q) + 1
      /\ a[Len(q) + 1] = m
      /\ \A i \in 1 .. Len(q) : a[i] = q[i]
  OBVIOUS
<1>2. a # <<>>
  BY <1>1
<1>3. ASSUME NEW x \in Messages(a) PROVE x \in Messages(q) \cup {m}
  <2>1. PICK i \in 1 .. Len(q) + 1 : x = a[i]
    BY <1>1, <1>3 DEF Messages
  <2>2. CASE i = Len(q) + 1
    BY <1>1, <2>1, <2>2
  <2>3. CASE i \in 1 .. Len(q)
    BY <1>1, <2>1, <2>3 DEF Messages
  <2> QED BY <1>1, <2>1, <2>2, <2>3
<1>4. m \in Messages(a)
  BY <1>1, Len(q) + 1 \in 1 .. Len(q) + 1 DEF Messages
<1>5. ASSUME NEW x \in Messages(q) PROVE x \in Messages(a)
  <2>1. PICK i \in 1 .. Len(q) : x = q[i]
    BY <1>1, <1>5 DEF Messages
  <2>2. i \in 1 .. Len(q) + 1 /\ x = a[i]
    BY <1>1, <2>1
  <2> QED BY <1>1, <2>2 DEF Messages
<1> QED BY <1>2, <1>3, <1>4, <1>5

LEMMA EmptyMessages == Messages(<<>>) = {}
BY DEF Messages

LEMMA SingleMessage == \A m : Messages(<<m>>) = {m}
BY DEF Messages

LEMMA SomeMessage ==
    ASSUME NEW q \in Seq(Msgs), q # <<>> PROVE Messages(q) # {}
BY DEF Messages

LEMMA MessagesAreMsgs == ASSUME NEW q \in Seq(Msgs) PROVE Messages(q) \subseteq Msgs
BY DEF Messages

LEMMA InitInv == Init => Inv
<1> SUFFICES ASSUME Init PROVE Inv
  OBVIOUS
<1>1. TypeOK
  BY DEF Init, TypeOK, Labels
<1>2. Placement
  BY EmptyMessages, DebounceAssumption
  DEF Init, Placement, FreshStates, RunningIsEmpty, WaitsAtItsState, TimerIsLocal,
      OneBatchEach, States
<1>3. NoneForgotten
  BY DEF Init, NoneForgotten
<1> QED
  BY <1>1, <1>2, <1>3 DEF Inv

LEMMA StepType == ASSUME TypeOK, NEW m \in Msgs, Step(m) PROVE TypeOK'
<1> USE DEF Goto
<1>1. CASE Load(m)
  BY <1>1 DEF Load, TypeOK, Labels, States
<1>2. CASE Enqueue(m)
  <2>1. pc[m] = "append" /\ at[m] \in States /\ m \in States
    BY <1>2 DEF Enqueue, TypeOK, States
  <2>2. queue' \in [States -> Seq(Msgs)]
    <3>1. <<m>> \in Seq(Msgs) /\ \A q \in Seq(Msgs) : Append(q, m) \in Seq(Msgs)
      OBVIOUS
    <3>2. queue' = [queue EXCEPT ![m] = <<m>>]
          \/ queue' = [queue EXCEPT ![at[m]] = Append(@, m)]
      BY <1>2 DEF Enqueue
    <3>3. ASSUME queue' = [queue EXCEPT ![m] = <<m>>] PROVE queue' \in [States -> Seq(Msgs)]
      BY <2>1, <3>1, <3>3 DEF TypeOK
    <3>4. ASSUME queue' = [queue EXCEPT ![at[m]] = Append(@, m)]
          PROVE  queue' \in [States -> Seq(Msgs)]
      <4>1. queue[at[m]] \in Seq(Msgs)
        BY <2>1 DEF TypeOK
      <4>2. Append(queue[at[m]], m) \in Seq(Msgs)
        BY <3>1, <4>1
      <4> QED
        BY <2>1, <3>4, <4>2 DEF TypeOK
    <3> QED
      BY <3>2, <3>3, <3>4
  <2>3. current' \in States \cup {NoState} /\ at' \in [Msgs -> States \cup {NoState}]
        /\ \A n \in Msgs : at'[n] = at[n] \/ at'[n] \in States
    BY <1>2, <2>1 DEF Enqueue, TypeOK
  <2> QED
    BY <1>2, <2>1, <2>2, <2>3 DEF Enqueue, TypeOK, Labels
<1>3. CASE Schedule(m)
  <2>1. pc[m] = "schedule" /\ at[m] \in States
    BY <1>3 DEF Schedule, TypeOK
  <2>2. pc' \in [Msgs -> Labels] /\ \A n \in Msgs : pc'[n] = "new" => pc[n] = "new"
    BY ZenonT(60), <1>3, <2>1 DEF Schedule, TypeOK, Labels
  <2>3. timer' \in [States -> Msgs \cup {NoMsg}]
    BY <1>3, <2>1 DEF Schedule, TypeOK
  <2> QED
    BY <1>3, <2>2, <2>3 DEF Schedule, TypeOK
<1>4. CASE TimerExpires(m)
  BY <1>4 DEF TimerExpires, TypeOK, Labels
<1>5. CASE Fire(m)
  <2>1. pc[m] \in {"expired", "fire"} /\ at[m] \in States /\ <<>> \in Seq(Msgs)
    BY <1>5 DEF Fire, TypeOK
  <2>2. pc' \in [Msgs -> Labels] /\ \A n \in Msgs : pc'[n] = "new" => pc[n] = "new"
    BY <1>5, <2>1 DEF Fire, TypeOK, Labels
  <2>3. /\ timer' \in [States -> Msgs \cup {NoMsg}]
        /\ processing' \in [States -> BOOLEAN]
    BY <1>5, <2>1 DEF Fire, TypeOK
  <2>4. queue' \in [States -> Seq(Msgs)] /\ batch' \in [Msgs -> Seq(Msgs)]
    BY ZenonT(60), <1>5, <2>1 DEF Fire, TypeOK
  <2> QED
    BY <1>5, <2>2, <2>3, <2>4 DEF Fire, TypeOK
<1>6. CASE ReadHistory(m) \/ AppendQuestion(m) \/ AppendAnswer(m) \/ CallbackGivesUp(m) \/ Refuse(m)
  BY <1>6 DEF ReadHistory, AppendQuestion, AppendAnswer, CallbackGivesUp, Refuse, TypeOK, Labels
<1>7. CASE Release(m)
  BY <1>7 DEF Release, TypeOK, Labels
<1> QED
  BY <1>1, <1>2, <1>3, <1>4, <1>5, <1>6, <1>7 DEF Step

------------------------------------------------------------------------------
(* Every step keeps the placement of messages. *)

LEMMA StepFresh ==
    ASSUME TypeOK, Placement, NEW m \in Msgs, Step(m) PROVE FreshStates'
<1> SUFFICES ASSUME NEW k \in Msgs, ~Entered(k)'
             PROVE  /\ current' # k /\ ~processing'[k] /\ queue'[k] = <<>>
                    /\ timer'[k] = NoMsg /\ \A n \in Msgs : at'[n] # k
  BY DEF FreshStates
<1> USE DebounceAssumption DEF Goto, Entered
<1>1. CASE Load(m)
  BY <1>1 DEF Load, TypeOK, Placement, FreshStates, States
<1>2. CASE Enqueue(m)
  <2>1. pc[m] = "append" /\ at[m] \in States /\ k # m /\ ~Entered(k) /\ at[m] # k
    BY <1>2 DEF Enqueue, TypeOK, Placement, FreshStates
  <2> QED
    BY <1>2, <2>1 DEF Enqueue, TypeOK, Placement, FreshStates, States
<1>3. CASE Schedule(m)
  <2>1. ~Entered(k) /\ at[m] # k
    BY <1>3 DEF Schedule, TypeOK, Placement, FreshStates
  <2> QED
    BY <1>3, <2>1 DEF Schedule, TypeOK, Placement, FreshStates, States
<1>4. CASE Fire(m)
  <2>1. ~Entered(k) /\ at[m] # k
    BY <1>4 DEF Fire, TypeOK, Placement, FreshStates
  <2>2. k \in States /\ at[m] \in States /\ current' = current /\ at' = at
    BY <1>4 DEF Fire, TypeOK, States
  <2>3. processing'[k] = processing[k] /\ queue'[k] = queue[k] /\ timer'[k] = timer[k]
    BY <1>4, <2>1, <2>2 DEF Fire, TypeOK
  <2> QED
    BY <2>1, <2>2, <2>3 DEF Placement, FreshStates
<1>5. CASE Release(m)
  <2>1. ~Entered(k) /\ at[m] # k
    BY <1>5 DEF Release, TypeOK, Placement, FreshStates
  <2> QED
    BY <1>5, <2>1 DEF Release, TypeOK, Placement, FreshStates, States
<1>6. CASE TimerExpires(m) \/ ReadHistory(m) \/ AppendQuestion(m) \/ AppendAnswer(m) \/ CallbackGivesUp(m) \/ Refuse(m)
  BY ZenonT(60), <1>6 DEF TimerExpires, ReadHistory, AppendQuestion, AppendAnswer, CallbackGivesUp, Refuse,
              TypeOK, Placement, FreshStates
<1> QED
  BY <1>1, <1>2, <1>3, <1>4, <1>5, <1>6 DEF Step

LEMMA StepRunning ==
    ASSUME TypeOK, Placement, NEW m \in Msgs, Step(m) PROVE RunningIsEmpty'
<1> SUFFICES ASSUME NEW s \in States, processing'[s] PROVE queue'[s] = <<>>
  BY DEF RunningIsEmpty
<1> USE DEF Goto
<1>1. CASE Enqueue(m)
  <2>1. pc[m] = "append" /\ at[m] \in States /\ m \in States /\ ~processing[m]
    BY <1>1 DEF Enqueue, TypeOK, Placement, FreshStates, States, Entered
  <2> QED
    BY <1>1, <2>1 DEF Enqueue, TypeOK, Placement, RunningIsEmpty
<1>2. CASE Fire(m)
  BY <1>2 DEF Fire, TypeOK, Placement, RunningIsEmpty
<1>3. CASE Release(m)
  BY <1>3 DEF Release, TypeOK, Placement, RunningIsEmpty
<1>4. CASE Load(m) \/ Schedule(m) \/ TimerExpires(m)
  BY <1>4 DEF Load, Schedule, TimerExpires, Placement, RunningIsEmpty
<1>5. CASE ReadHistory(m) \/ AppendQuestion(m) \/ AppendAnswer(m) \/ CallbackGivesUp(m) \/ Refuse(m)
  BY <1>5 DEF ReadHistory, AppendQuestion, AppendAnswer, CallbackGivesUp, Refuse, Placement,
              RunningIsEmpty
<1> QED
  BY <1>1, <1>2, <1>3, <1>4, <1>5 DEF Step

LEMMA StepEntered ==
    ASSUME TypeOK, NEW m \in Msgs, Step(m), NEW n \in Msgs, Entered(n)
    PROVE  Entered(n)' /\ at'[n] = at[n]
<1> USE DEF Goto, Entered
<1>1. CASE Load(m) \/ Enqueue(m)
  BY <1>1 DEF Load, Enqueue, TypeOK
<1>2. CASE Schedule(m) \/ TimerExpires(m) \/ Fire(m)
  BY <1>2 DEF Schedule, TimerExpires, Fire, TypeOK
<1>3. CASE ReadHistory(m) \/ AppendQuestion(m) \/ AppendAnswer(m) \/ CallbackGivesUp(m) \/ Refuse(m) \/ Release(m)
  BY <1>3 DEF ReadHistory, AppendQuestion, AppendAnswer, CallbackGivesUp, Refuse, Release, TypeOK
<1> QED
  BY <1>1, <1>2, <1>3 DEF Step

\* What an enqueuer does to the queues: its message is added to its own state.
LEMMA EnqueueQueues ==
    ASSUME TypeOK, Placement, NEW m \in Msgs, Enqueue(m)
    PROVE  /\ Entered(m)' /\ ~Entered(m) /\ at'[m] \in States
           /\ queue'[at'[m]] # <<>>
           /\ Messages(queue'[at'[m]]) = Messages(queue[at'[m]]) \cup {m}
           /\ \A s \in States : s # at'[m] => queue'[s] = queue[s]
<1>1. pc[m] = "append" /\ at[m] \in States /\ m \in States /\ queue[m] = <<>>
  BY DEF Enqueue, TypeOK, Placement, FreshStates, States, Entered
<1>2. Entered(m)' /\ ~Entered(m)
  BY <1>1 DEF Enqueue, Goto, TypeOK, Entered
<1>3. CASE processing[at[m]]
  <2>1. at'[m] = m /\ queue' = [queue EXCEPT ![m] = <<m>>]
    BY <1>1, <1>3 DEF Enqueue, TypeOK
  <2>2. queue'[m] = <<m>> /\ \A s \in States : s # m => queue'[s] = queue[s]
    BY <1>1, <2>1 DEF TypeOK
  <2> QED
    BY <1>1, <1>2, <2>1, <2>2, SingleMessage, EmptyMessages
<1>4. CASE ~processing[at[m]]
  <2>1. at'[m] = at[m] /\ queue' = [queue EXCEPT ![at[m]] = Append(@, m)]
    BY <1>1, <1>4 DEF Enqueue, TypeOK
  <2>2. /\ queue[at[m]] \in Seq(Msgs)
        /\ queue'[at[m]] = Append(queue[at[m]], m)
        /\ \A s \in States : s # at[m] => queue'[s] = queue[s]
    BY <1>1, <2>1 DEF TypeOK
  <2> QED
    BY <1>1, <1>2, <2>1, <2>2, AppendMessages
<1> QED
  BY <1>3, <1>4

\* A firing goroutine takes the whole queue of its state, or nothing.
LEMMA FireQueues ==
    ASSUME TypeOK, Placement, NEW m \in Msgs, Fire(m)
    PROVE  /\ at[m] \in States /\ batch[m] = <<>>
           /\ \A s \in States : s # at[m] => queue'[s] = queue[s]
           /\ queue'[at[m]] = <<>>
           /\ \/ batch' = batch /\ queue' = queue
              \/ batch' = [batch EXCEPT ![m] = queue[at[m]]]
<1>1. pc[m] \in {"expired", "fire"} /\ at[m] \in States
  BY DEF Fire, TypeOK
<1>2. batch[m] = <<>>
  BY <1>1 DEF Placement, OneBatchEach
<1> QED
  BY <1>1, <1>2 DEF Fire, TypeOK, Placement, RunningIsEmpty

LEMMA StepWaits ==
    ASSUME TypeOK, Placement, NEW m \in Msgs, Step(m) PROVE WaitsAtItsState'
<1> SUFFICES ASSUME NEW n \in Msgs, NEW s \in States, n \in Messages(queue'[s])
             PROVE  at'[n] = s /\ Entered(n)'
  BY DEF WaitsAtItsState, Messages
<1>1. CASE n \in Messages(queue[s])
  BY <1>1, StepEntered DEF Placement, WaitsAtItsState
<1>2. CASE Enqueue(m)
  BY <1>1, <1>2, EnqueueQueues
<1>3. CASE Fire(m)
  BY <1>1, <1>3, FireQueues, EmptyMessages
<1>4. CASE queue' = queue
  BY <1>1, <1>4
<1> QED
  BY <1>2, <1>3, <1>4
  DEF Step, Load, Schedule, TimerExpires, ReadHistory, AppendQuestion, AppendAnswer,
      CallbackGivesUp, Refuse, Release

LEMMA StepTimer ==
    ASSUME TypeOK, Placement, NEW m \in Msgs, Step(m) PROVE TimerIsLocal'
<1> SUFFICES ASSUME NEW s \in States, timer'[s] # NoMsg
             PROVE  at'[timer'[s]] = s /\ pc'[timer'[s]] \notin {"new", "append"}
  BY DEF TimerIsLocal, Entered
<1>1. CASE timer'[s] = timer[s]
  <2>1. PICK n \in Msgs : n = timer[s] /\ Entered(n) /\ at[n] = s
    BY <1>1 DEF Placement, TimerIsLocal, TypeOK
  <2>2. Entered(n)' /\ at'[n] = at[n]
    BY <2>1, StepEntered
  <2> QED
    BY <1>1, <2>1, <2>2 DEF Entered
<1>2. CASE Schedule(m)
  <2>1. pc[m] = "schedule" /\ at[m] \in States /\ Entered(m)
    BY <1>2 DEF Schedule, TypeOK, Entered
  <2>2. timer'[s] = timer[s] \/ (s = at[m] /\ timer'[s] = m)
    BY <1>2, <2>1 DEF Schedule, TypeOK
  <2>3. Entered(m)' /\ at'[m] = at[m]
    BY <2>1, StepEntered
  <2> QED
    BY <1>1, <2>1, <2>2, <2>3 DEF Entered
<1>3. CASE Fire(m)
  BY <1>1, <1>3 DEF Fire, TypeOK
<1>4. CASE timer' = timer
  BY <1>1, <1>4
<1> QED
  BY <1>2, <1>3, <1>4
  DEF Step, Load, Enqueue, TimerExpires, ReadHistory, AppendQuestion, AppendAnswer,
      CallbackGivesUp, Refuse, Release

LEMMA StepBatch ==
    ASSUME TypeOK, Placement, NEW m \in Msgs, Step(m) PROVE OneBatchEach'
<1> USE DEF Goto
<1>1. CASE Fire(m)
  <2>1. pc[m] \in {"expired", "fire"} /\ at[m] \in States
    BY <1>1 DEF Fire, TypeOK
  <2>2. ASSUME NEW n \in Msgs, batch'[n] # <<>>
        PROVE  pc'[n] \in {"read", "ask", "answer", "release", "done"}
    BY <1>1, <2>1, <2>2 DEF Fire, TypeOK, Placement, OneBatchEach
  <2>3. ASSUME NEW k \in Msgs, NEW n \in Msgs, n \in Messages(batch'[k])
        PROVE  Entered(n)'
    <3>1. batch'[k] = batch[k] \/ batch'[k] = queue[at[m]]
      BY <1>1, <2>1, FireQueues DEF TypeOK
    <3>2. Entered(n)
      BY <2>1, <2>3, <3>1 DEF Placement, OneBatchEach, WaitsAtItsState
    <3> QED
      BY <3>2, StepEntered
  <2> QED
    BY <2>2, <2>3 DEF OneBatchEach, Messages, Entered
<1>2. CASE ~Fire(m)
  <2>1. batch' = batch
    BY <1>2 DEF Step, Load, Enqueue, Schedule, TimerExpires, ReadHistory, AppendQuestion,
                AppendAnswer, CallbackGivesUp, Refuse, Release
  <2>2. ASSUME NEW n \in Msgs, pc[n] \in {"read", "ask", "answer", "release", "done"}
        PROVE  pc'[n] \in {"read", "ask", "answer", "release", "done"}
    <3>1. CASE Load(m) \/ Enqueue(m) \/ TimerExpires(m)
      BY <2>2, <3>1 DEF Load, Enqueue, TimerExpires, TypeOK
    <3>2. CASE Schedule(m)
      BY <2>2, <3>2 DEF Schedule, TypeOK
    <3>3. CASE ReadHistory(m) \/ AppendQuestion(m) \/ AppendAnswer(m) \/ CallbackGivesUp(m) \/ Refuse(m) \/ Release(m)
      BY <2>2, <3>3 DEF ReadHistory, AppendQuestion, AppendAnswer, CallbackGivesUp, Refuse, Release, TypeOK
    <3> QED
      BY <1>2, <3>1, <3>2, <3>3 DEF Step
  <2> QED
    BY <2>1, <2>2, StepEntered DEF Placement, OneBatchEach, Entered, Messages
<1> QED
  BY <1>1, <1>2

\* The heart of it: whoever stops watching a state leaves another watcher or no
\* messages.
LEMMA StepWatched ==
    ASSUME Inv, NEW m \in Msgs, Step(m) PROVE NoneForgotten'
<1> USE DEF Inv
<1> SUFFICES ASSUME NEW s \in States, queue'[s] # <<>>
             PROVE  \E n \in Msgs : Watches(n, s)'
  BY DEF NoneForgotten
<1> USE DEF Goto
<1>1. CASE Enqueue(m)
  <2>1. CASE s = at'[m]
    BY <1>1, <2>1 DEF Enqueue, TypeOK, Watches
  <2>2. CASE s # at'[m]
    <3>1. PICK n \in Msgs : Watches(n, s)
      BY <1>1, <2>2, EnqueueQueues DEF NoneForgotten
    <3>2. n # m
      BY <1>1, <3>1 DEF Enqueue, Watches
    <3> QED
      BY <1>1, <3>1, <3>2 DEF Enqueue, Watches, TypeOK
  <2> QED
    BY <2>1, <2>2
<1>2. CASE Fire(m)
  <2>1. s # at[m] /\ queue[s] # <<>>
    BY <1>2, FireQueues
  <2>2. PICK n \in Msgs : Watches(n, s)
    BY <2>1 DEF NoneForgotten
  <2>3. n # m
    BY <2>1, <2>2 DEF Watches
  <2> QED
    BY <1>2, <2>2, <2>3 DEF Fire, Watches, TypeOK
<1>3. CASE Schedule(m)
  <2>1. pc[m] = "schedule" /\ at[m] \in States /\ queue' = queue /\ at' = at
    BY <1>3 DEF Schedule, TypeOK
  <2>2. PICK n \in Msgs : Watches(n, s)
    BY <2>1 DEF NoneForgotten
  <2>3. CASE s = at[m]
    <3>1. ~processing[at[m]]
      BY <2>1, <2>3 DEF Placement, RunningIsEmpty
    <3>2. pc'[m] \in {"fire", "armed"}
      BY <1>3, <2>1, <3>1 DEF Schedule, TypeOK
    <3> QED
      BY <2>1, <2>3, <3>2 DEF Watches
  <2>4. CASE s # at[m]
    <3>1. n # m /\ n # timer[at[m]]
      BY <2>1, <2>2, <2>4, DebounceAssumption DEF Watches, Placement, TimerIsLocal, TypeOK
    <3>2. pc'[n] = pc[n]
      BY <1>3, <2>1, <3>1 DEF Schedule, TypeOK
    <3> QED
      BY <2>1, <2>2, <3>2 DEF Watches
  <2> QED
    BY <2>3, <2>4
<1>4. CASE Load(m) \/ ReadHistory(m) \/ AppendQuestion(m) \/ AppendAnswer(m)
            \/ CallbackGivesUp(m) \/ Refuse(m) \/ Release(m) \/ TimerExpires(m)
  <2>1. queue' = queue
    BY <1>4 DEF Load, ReadHistory, AppendQuestion, AppendAnswer, CallbackGivesUp, Refuse, Release,
                TimerExpires
  <2>2. PICK n \in Msgs : Watches(n, s)
    BY <2>1 DEF NoneForgotten
  <2> QED
    BY <1>4, <2>2 DEF Load, ReadHistory, AppendQuestion, AppendAnswer, CallbackGivesUp, Refuse,
                      Release, TimerExpires, Watches, TypeOK
<1> QED
  BY <1>1, <1>2, <1>3, <1>4 DEF Step

LEMMA StepInv == ASSUME Inv, [Next]_vars PROVE Inv'
<1>1. CASE UNCHANGED vars
  BY <1>1 DEF vars, Inv, TypeOK, Placement, FreshStates, RunningIsEmpty, WaitsAtItsState,
              TimerIsLocal, OneBatchEach, NoneForgotten, Watches, Messages, Entered
<1>2. CASE Next
  <2>1. PICK m \in Msgs : Step(m)
    BY <1>2 DEF Next
  <2> QED
    BY <2>1, StepType, StepFresh, StepRunning, StepWaits, StepTimer, StepBatch, StepWatched
    DEF Inv, Placement
<1> QED
  BY <1>1, <1>2

THEOREM InvHolds == Spec => []Inv
BY InitInv, StepInv, PTL DEF Spec

\* However enqueuers, timers, firings and running callbacks interleave, messages
\* that wait in a state are watched by a goroutine that will fire it
\* (kfScheduleProcess, kfFireProcess).
THEOREM NobodyStranded == Spec => []NoneForgotten
<1>1. Inv => NoneForgotten
  BY DEF Inv
<1> QED
  BY <1>1, InvHolds, PTL

------------------------------------------------------------------------------
(* The debounce implements the abstract batching. *)

LEMMA InitBatching == Init => Batching!Init
BY EmptyMessages DEF Init, Batching!Init, Waiting, Taken

LEMMA EnqueueArrives ==
    ASSUME Inv, NEW m \in Msgs, Enqueue(m) PROVE Batching!Arrive(m)
<1> USE DEF Inv
<1>1. Entered(m)' /\ ~Entered(m)
  BY EnqueueQueues
<1>2. m \notin Waiting
  BY <1>1 DEF Waiting, Placement, WaitsAtItsState
<1>3. m \notin UNION Taken
  BY <1>1 DEF Taken, Placement, OneBatchEach
<1>4. Waiting' = Waiting \cup {m}
  <2>1. \A s \in States : Messages(queue'[s]) = IF s = at'[m] THEN Messages(queue[s]) \cup {m}
                                                ELSE Messages(queue[s])
    BY EnqueueQueues
  <2> QED
    BY <2>1, EnqueueQueues DEF Waiting, Messages
<1>5. Taken' = Taken
  BY DEF Enqueue, Taken, Messages
<1> QED
  BY <1>2, <1>3, <1>4, <1>5 DEF Batching!Arrive

LEMMA FireHandsOver ==
    ASSUME Inv, NEW m \in Msgs, Fire(m)
    PROVE  \/ UNCHANGED <<Waiting, Taken>>
           \/ \E b \in SUBSET Waiting : Batching!HandOver(b)
<1> USE DEF Inv
<1>1. CASE batch' = batch /\ queue' = queue
  BY <1>1 DEF Waiting, Taken, Messages
<1>2. CASE batch' = [batch EXCEPT ![m] = queue[at[m]]] /\ queue[at[m]] = <<>>
  <2>1. batch' = batch
    BY <1>2, FireQueues DEF TypeOK
  <2>2. queue' = queue
    BY <1>2, FireQueues DEF TypeOK, Fire
  <2> QED
    BY <1>1, <2>1, <2>2
<1>3. CASE batch' = [batch EXCEPT ![m] = queue[at[m]]] /\ queue[at[m]] # <<>>
  <2> DEFINE b == Messages(queue[at[m]])
  <2>1. b # {} /\ b \in SUBSET Waiting
    BY <1>3, FireQueues, SomeMessage DEF Waiting, TypeOK
  <2>2. Waiting' = Waiting \ b
    <3>1. \A s \in States : Messages(queue'[s]) = IF s = at[m] THEN {} ELSE Messages(queue[s])
      BY FireQueues, EmptyMessages
    <3>2. \A s \in States : s # at[m] => Messages(queue[s]) \cap b = {}
      <4>1. \A s \in States : Messages(queue[s]) \subseteq Msgs
        BY MessagesAreMsgs DEF TypeOK
      <4> QED
        BY <4>1, FireQueues DEF Placement, WaitsAtItsState
    <3>3. Waiting' = UNION {Messages(queue'[s]) : s \in States}
      BY DEF Waiting, Messages
    <3> QED
      BY <3>1, <3>2, <3>3 DEF Waiting
  <2>3. Taken' = Taken \cup {b}
    <3>1. \A n \in Msgs : Messages(batch'[n]) = IF n = m THEN b ELSE Messages(batch[n])
      BY <1>3 DEF TypeOK
    <3>2. Messages(batch[m]) = {}
      BY FireQueues, EmptyMessages
    <3>3. Taken' = {Messages(batch'[n]) : n \in Msgs} \ {{}}
      BY DEF Taken, Messages
    <3> QED
      BY <2>1, <3>1, <3>2, <3>3 DEF Taken
  <2> QED
    BY <2>1, <2>2, <2>3 DEF Batching!HandOver
<1> QED
  BY <1>1, <1>2, <1>3, FireQueues

LEMMA StepBatching ==
    ASSUME Inv, [Next]_vars PROVE [Batching!Next]_<<Waiting, Taken>>
<1>1. CASE queue' = queue /\ batch' = batch
  BY <1>1 DEF Waiting, Taken, Messages
<1>2. ASSUME NEW m \in Msgs, Enqueue(m) PROVE Batching!Next
  BY <1>2, EnqueueArrives DEF Batching!Next
<1>3. ASSUME NEW m \in Msgs, Fire(m) PROVE [Batching!Next]_<<Waiting, Taken>>
  BY <1>3, FireHandsOver DEF Batching!Next
<1> QED
  BY <1>1, <1>2, <1>3
  DEF Next, Step, vars, Load, Schedule, TimerExpires, ReadHistory, AppendQuestion,
      AppendAnswer, CallbackGivesUp, Refuse, Release

\* Every message is handed to the agent at most once and in one batch, for any
\* number of messages and any threshold: the debounce implements the batching.
THEOREM HandedOverOnce == Spec => ImplementsBatching
<1>1. Init => Batching!Init
  BY InitBatching
<1>2. Inv /\ [Next]_vars => [Batching!Next]_<<Waiting, Taken>>
  BY StepBatching
<1> QED
  BY <1>1, <1>2, InvHolds, PTL DEF Spec, ImplementsBatching, Batching!Spec

------------------------------------------------------------------------------
(* The pool: the inductive invariant *)

\* A call in progress has jobs left, and the one it sends is its own and not taken yet.
SendersInv ==
    /\ accepted \subseteq 1..offered
    /\ \A c \in Callers :
          /\ caller[c].pc \in {"check", "send"} => caller[c].left \in 1..2
          /\ caller[c].pc = "send" => caller[c].job \in 1..offered \ accepted
    /\ \A c, d \in Callers : caller[c].pc = "send" /\ caller[d].pc = "send" /\ caller[c].job = caller[d].job => c = d

Queued(j) == \E i \in DOMAIN poolQueue : poolQueue[i] = j
WithWorker(j) == \E w \in Workers : worker[w] = j

\* The jobs taken are those that have run, wait or are with a worker, each in one place.
PlacesInv ==
    /\ \A j \in Pool!Jobs : j \in accepted <=> j \in done \/ Queued(j) \/ WithWorker(j)
    /\ \A i, m \in DOMAIN poolQueue : poolQueue[i] = poolQueue[m] => i = m
    /\ \A w, v \in Workers : worker[w] \in Pool!Jobs /\ worker[w] = worker[v] => w = v
    /\ \A j \in Pool!Jobs : ~(Queued(j) /\ WithWorker(j))
    /\ \A j \in done : ~Queued(j) /\ ~WithWorker(j)

\* A worker leaves a pool that is closed and drained, and Close waits for all of them.
CloseInv ==
    /\ \A w \in Workers : worker[w] = Pool!Gone => closed /\ poolQueue = <<>>
    /\ \A k \in Closers : closer[k] # "idle" => closed
    /\ \A k \in Closers : closer[k] = "closed" => \A w \in Workers : worker[w] = Pool!Gone

PoolInv == Pool!TypeOK /\ SendersInv /\ PlacesInv /\ CloseInv

------------------------------------------------------------------------------
(* The steps of a call *)

LEMMA JobsUpTo ==
    ASSUME Pool!WorkerPoolAssumption, Pool!TypeOK
    PROVE  /\ offered \in Nat /\ 1..offered \subseteq Pool!Jobs
           /\ offered < MaxJobs => offered + 1 \in Pool!Jobs
BY DEF Pool!WorkerPoolAssumption, Pool!TypeOK, Pool!Jobs

LEMMA OneCallMoves ==
    ASSUME caller \in [Callers -> Pool!Calls], NEW c \in Callers, NEW v \in Pool!Calls, caller' = [caller EXCEPT ![c] = v]
    PROVE  caller' \in [Callers -> Pool!Calls] /\ caller'[c] = v /\ \A d \in Callers : d # c => caller'[d] = caller[d]
OBVIOUS

LEMMA AfterOK ==
    ASSUME NEW call \in Pool!Calls, NEW ok \in BOOLEAN, call.left \in 1..2, ok => call.job \in Pool!Jobs
    PROVE  /\ Pool!After(call, ok) \in Pool!Calls /\ Pool!After(call, ok).pc \in {"check", "wait", "outside"}
           /\ Pool!After(call, ok).pc = "check" => Pool!After(call, ok).left \in 1..2
<1> DEFINE m == IF ok THEN call.mine \cup {call.job} ELSE call.mine
           f == call.refused \/ ~ok
           p == IF call.left - 1 > 0 THEN "check" ELSE IF call.kind = "PreCheck" THEN "wait" ELSE "outside"
           told == [call EXCEPT !.left = @ - 1, !.refused = @ \/ ~ok, !.mine = IF ok THEN @ \cup {call.job} ELSE @]
<1>1. call.left - 1 \in 0..2 /\ m \subseteq Pool!Jobs /\ f \in BOOLEAN
  BY DEF Pool!Calls
<1>2. told = [call EXCEPT !.left = call.left - 1, !.refused = f, !.mine = m]
  BY DEF Pool!Calls
<1>3. told \in Pool!Calls /\ told.left = call.left - 1 /\ told.kind = call.kind
  <2> HIDE DEF m, f, told
  <2> QED
    BY <1>1, <1>2 DEF Pool!Calls
<1>4. Pool!After(call, ok) = [told EXCEPT !.pc = p]
  BY <1>3 DEF Pool!After
<1>5. p \in {"check", "wait", "outside"} /\ (p = "check" => call.left - 1 > 0)
  OBVIOUS
<1> HIDE DEF told, p
<1>6. Pool!After(call, ok) \in Pool!Calls /\ Pool!After(call, ok).pc = p /\ Pool!After(call, ok).left = call.left - 1
  BY <1>3, <1>4, <1>5 DEF Pool!Calls
<1> QED
  BY <1>5, <1>6

OtherCalls(c) == \A d \in Callers : d # c => caller'[d] = caller[d]

\* A call that does not send: where it goes, and that its left jobs are in order.
Elsewhere(c) ==
    /\ caller' \in [Callers -> Pool!Calls] /\ OtherCalls(c) /\ caller'[c].pc # "send"
    /\ caller'[c].pc = "check" => caller'[c].left \in 1..2

LEMMA TellCall ==
    ASSUME Pool!WorkerPoolAssumption, Pool!TypeOK, SendersInv, NEW c \in Callers, caller[c].pc \in {"check", "send"}, NEW ok \in BOOLEAN,
           ok => caller[c].pc = "send", caller' = [caller EXCEPT ![c] = Pool!After(@, ok)]
    PROVE  Elsewhere(c)
<1>1. caller \in [Callers -> Pool!Calls] /\ caller[c] \in Pool!Calls /\ caller[c].left \in 1..2
  BY DEF Pool!TypeOK, SendersInv
<1>2. ok => caller[c].job \in Pool!Jobs
  BY JobsUpTo DEF SendersInv
<1>3. /\ Pool!After(caller[c], ok) \in Pool!Calls /\ Pool!After(caller[c], ok).pc \in {"check", "wait", "outside"}
      /\ Pool!After(caller[c], ok).pc = "check" => Pool!After(caller[c], ok).left \in 1..2
  BY <1>1, <1>2, AfterOK
<1>4. caller' = [caller EXCEPT ![c] = Pool!After(caller[c], ok)]
  BY <1>1
<1> QED
  BY <1>1, <1>3, <1>4 DEF Elsewhere, OtherCalls

LEMMA EnterGoes ==
    ASSUME Pool!WorkerPoolAssumption, Pool!TypeOK, NEW c \in Callers, NEW way \in Kinds, Pool!Enter(c, way)
    PROVE  Elsewhere(c)
<1> DEFINE v == [Pool!Outside EXCEPT !.pc = "check", !.kind = way, !.left = Pool!Parts(way)]
<1>0. Pool!Parts(way) \in 1..2 /\ Pool!Parts(way) \in 0..2
  BY DEF Pool!Parts
<1>1. way \in {"Submit", "TrySubmit", "SubmitCtx", "PreCheck"}
  BY DEF Pool!WorkerPoolAssumption
<1>2. Pool!Outside \in Pool!Calls
  BY DEF Pool!Outside, Pool!Calls
<1>3. ASSUME NEW o \in Pool!Calls, NEW n \in 0..2
      PROVE  [o EXCEPT !.pc = "check", !.kind = way, !.left = n] \in Pool!Calls
  BY <1>1 DEF Pool!Calls
<1>4. v \in Pool!Calls
  BY <1>0, <1>2, <1>3
<1>5. v.pc = "check" /\ v.left \in 1..2
  BY <1>0 DEF Pool!Outside
<1> QED
  BY <1>4, <1>5, OneCallMoves DEF Pool!Enter, Pool!TypeOK, Elsewhere, OtherCalls

\* A call that keeps its place, its jobs left and the job it sends.
LEMMA CancelGoes ==
    ASSUME Pool!TypeOK, NEW c \in Callers, Pool!Cancel(c)
    PROVE  /\ caller' \in [Callers -> Pool!Calls] /\ OtherCalls(c)
           /\ caller'[c].pc = caller[c].pc /\ caller'[c].left = caller[c].left /\ caller'[c].job = caller[c].job
<1> DEFINE v == [caller[c] EXCEPT !.cancelled = TRUE]
<1>1. caller \in [Callers -> Pool!Calls] /\ caller[c] \in Pool!Calls /\ caller' = [caller EXCEPT ![c] = v]
  BY DEF Pool!Cancel, Pool!TypeOK
<1>2. v \in Pool!Calls /\ v.pc = caller[c].pc /\ v.left = caller[c].left /\ v.job = caller[c].job
  BY <1>1 DEF Pool!Calls
<1> HIDE DEF v
<1> QED
  BY <1>1, <1>2 DEF OtherCalls

LEMMA EndGoes ==
    ASSUME Pool!TypeOK, NEW c \in Callers, Pool!Panic(c) \/ Pool!PreCheck(c)
    PROVE  Elsewhere(c)
BY SMTT(30) DEF Pool!Panic, Pool!PreCheck, Pool!TypeOK, Pool!Calls, Elsewhere, OtherCalls

LEMMA GiveUpGoes ==
    ASSUME Pool!WorkerPoolAssumption, Pool!TypeOK, SendersInv, NEW c \in Callers, Pool!GiveUp(c)
    PROVE  Elsewhere(c)
BY TellCall DEF Pool!GiveUp

\* The flag is read: the call is told, or has a job of its own to send.
LEMMA CheckGoes ==
    ASSUME Pool!WorkerPoolAssumption, Pool!TypeOK, SendersInv, NEW c \in Callers, Pool!Check(c)
    PROVE  \/ closed /\ Elsewhere(c) /\ offered' = offered
           \/ /\ offered' = offered + 1 /\ offered < MaxJobs
              /\ caller' \in [Callers -> Pool!Calls] /\ OtherCalls(c)
              /\ caller'[c].pc = "send" /\ caller'[c].left = caller[c].left /\ caller'[c].job = offered + 1
<1>1. CASE closed
  BY <1>1, TellCall DEF Pool!Check
<1>2. CASE ~closed
  <2>1. offered \in Nat /\ offered + 1 \in Pool!Jobs
    BY <1>2, JobsUpTo DEF Pool!Check
  <2>2. caller' = [caller EXCEPT ![c].pc = "send", ![c].job = offered + 1]
        /\ offered' = offered + 1 /\ offered < MaxJobs
    BY <1>2 DEF Pool!Check
  <2>3. caller \in [Callers -> Pool!Calls]
    BY DEF Pool!TypeOK
  <2>4. caller[c] \in Pool!Calls /\ offered + 1 \in Pool!Jobs \cup {0}
    BY <2>1, <2>3
  <2>5. [caller[c] EXCEPT !.pc = "send", !.job = offered + 1] \in Pool!Calls
    BY <2>4 DEF Pool!Calls
  <2>6. caller' = [caller EXCEPT ![c] = [caller[c] EXCEPT !.pc = "send", !.job = offered + 1]]
    BY <2>2, <2>3
  <2>7. caller'[c] = [caller[c] EXCEPT !.pc = "send", !.job = offered + 1]
        /\ caller' \in [Callers -> Pool!Calls] /\ OtherCalls(c)
    BY <2>3, <2>5, <2>6 DEF OtherCalls
  <2> QED
    BY <2>2, <2>4, <2>7 DEF Pool!Calls
<1> QED
  BY <1>1, <1>2

LEMMA AcceptedGoes ==
    ASSUME Pool!WorkerPoolAssumption, Pool!TypeOK, SendersInv, NEW c \in Callers, Pool!Accepted(c)
    PROVE  /\ Elsewhere(c) /\ caller[c].pc = "send" /\ ~closed
           /\ caller[c].job \in Pool!Jobs /\ caller[c].job \in 1..offered \ accepted
           /\ accepted' = accepted \cup {caller[c].job}
<1>1. caller[c].job \in 1..offered \ accepted
  BY DEF Pool!Accepted, SendersInv
<1>2. caller[c].job \in Pool!Jobs
  BY <1>1, JobsUpTo
<1> QED
  BY <1>1, <1>2, TellCall DEF Pool!Accepted

------------------------------------------------------------------------------
(* The channel *)

LEMMA AppendOK ==
    ASSUME NEW q \in Seq(Pool!Jobs), NEW j \in Pool!Jobs
    PROVE  /\ Append(q, j) \in Seq(Pool!Jobs) /\ Len(Append(q, j)) = Len(q) + 1
           /\ DOMAIN Append(q, j) = DOMAIN q \cup {Len(q) + 1} /\ Len(q) + 1 \notin DOMAIN q
           /\ Append(q, j)[Len(q) + 1] = j /\ \A i \in DOMAIN q : Append(q, j)[i] = q[i]
<1>1. DOMAIN q = 1..Len(q) /\ Len(q) \in Nat
  OBVIOUS
<1>2. Append(q, j) \in Seq(Pool!Jobs) /\ Len(Append(q, j)) = Len(q) + 1
  OBVIOUS
<1>3. DOMAIN Append(q, j) = 1..(Len(q) + 1)
  BY <1>2
<1>4. Append(q, j)[Len(q) + 1] = j /\ \A i \in 1..Len(q) : Append(q, j)[i] = q[i]
  OBVIOUS
<1> QED
  BY <1>1, <1>2, <1>3, <1>4

LEMMA TailOK ==
    ASSUME NEW q \in Seq(Pool!Jobs), q # <<>>
    PROVE  /\ Tail(q) \in Seq(Pool!Jobs) /\ Len(Tail(q)) = Len(q) - 1
           /\ Head(q) = q[1] /\ 1 \in DOMAIN q
           /\ \A i \in DOMAIN Tail(q) : i + 1 \in DOMAIN q /\ Tail(q)[i] = q[i + 1] /\ i + 1 # 1
           /\ \A i \in DOMAIN q : i # 1 => i - 1 \in DOMAIN Tail(q) /\ Tail(q)[i - 1] = q[i]
<1>1. DOMAIN q = 1..Len(q) /\ Len(q) \in Nat /\ Len(q) # 0
  OBVIOUS
<1>2. Tail(q) \in Seq(Pool!Jobs) /\ Len(Tail(q)) = Len(q) - 1 /\ Head(q) = q[1]
  BY <1>1
<1>3. DOMAIN Tail(q) = 1..(Len(q) - 1)
  BY <1>2
<1>4. \A i \in 1..(Len(q) - 1) : Tail(q)[i] = q[i + 1]
  BY <1>1
<1> QED
  BY <1>1, <1>2, <1>3, <1>4

------------------------------------------------------------------------------
(* It holds from the start *)

LEMMA InitPool == Pool!WorkerPoolAssumption /\ Pool!Init => PoolInv
<1> SUFFICES ASSUME Pool!WorkerPoolAssumption, Pool!Init PROVE PoolInv
  OBVIOUS
<1>1. Pool!Outside \in Pool!Calls /\ Pool!Outside.pc = "outside"
  BY DEF Pool!Outside, Pool!Calls
<1>2. Pool!TypeOK
  <2>1. <<>> \in Seq(Pool!Jobs) /\ Len(<<>>) = 0
    OBVIOUS
  <2>2. poolQueue \in Seq(Pool!Jobs) /\ Len(poolQueue) <= queueSize /\ offered \in 0..MaxJobs
    BY <2>1 DEF Pool!Init, Pool!WorkerPoolAssumption
  <2> QED
    BY <1>1, <2>2 DEF Pool!Init, Pool!TypeOK
<1>3. SendersInv
  BY <1>1 DEF Pool!Init, SendersInv
<1>4. \A w \in Workers : worker[w] = Pool!Idle /\ Pool!Idle # Pool!Gone /\ Pool!Idle \notin Pool!Jobs
  BY DEF Pool!Init, Pool!Idle, Pool!Gone, Pool!Jobs
<1>5. DOMAIN poolQueue = {}
  BY DEF Pool!Init
<1>6. PlacesInv
  BY <1>4, <1>5 DEF Pool!Init, PlacesInv, Queued, WithWorker
<1>7. CloseInv
  BY <1>4 DEF Pool!Init, CloseInv
<1> QED
  BY <1>2, <1>3, <1>6, <1>7 DEF PoolInv

------------------------------------------------------------------------------
(* Calls that do not reach the channel *)

\* The call moves and takes nothing.
Waits(c) ==
    /\ UNCHANGED <<poolQueue, accepted, Pool!callerless>>
    /\ \/ Elsewhere(c)
       \/ /\ caller' \in [Callers -> Pool!Calls] /\ OtherCalls(c)
          /\ caller'[c].pc = caller[c].pc /\ caller'[c].left = caller[c].left /\ caller'[c].job = caller[c].job

LEMMA SendersMove ==
    ASSUME SendersInv, NEW c \in Callers, Waits(c)
    PROVE  SendersInv'
<1>1. \A d \in Callers : caller'[d].pc = "send" => caller[d].pc = "send" /\ caller'[d].job = caller[d].job
  BY DEF Waits, Elsewhere, OtherCalls
<1>2. \A d \in Callers : caller'[d].pc \in {"check", "send"} => caller'[d].left \in 1..2
  BY DEF Waits, Elsewhere, OtherCalls, SendersInv
<1>3. accepted' = accepted /\ offered' = offered
  BY DEF Waits, Pool!callerless
<1> QED
  BY <1>1, <1>2, <1>3 DEF SendersInv

LEMMA WaitsKeeps ==
    ASSUME PoolInv, NEW c \in Callers, Waits(c)
    PROVE  PoolInv'
<1>1. caller' \in [Callers -> Pool!Calls] /\ UNCHANGED <<poolQueue, accepted, closed, worker, closer, offered, done>>
  BY DEF Waits, Elsewhere, Pool!callerless
<1>2. Pool!TypeOK'
  BY <1>1 DEF PoolInv, Pool!TypeOK
<1>3. PlacesInv' /\ CloseInv'
  BY <1>1 DEF PoolInv, PlacesInv, CloseInv, Queued, WithWorker
<1> QED
  BY <1>2, <1>3, SendersMove DEF PoolInv

LEMMA CheckKeeps ==
    ASSUME Pool!WorkerPoolAssumption, PoolInv, NEW c \in Callers, Pool!Check(c)
    PROVE  PoolInv'
<1>1. UNCHANGED <<poolQueue, closed, worker, closer, accepted, done>>
  BY DEF Pool!Check
<1>2. Pool!TypeOK /\ SendersInv
  BY DEF PoolInv
<1>3. CASE Elsewhere(c) /\ offered' = offered
  BY <1>1, <1>3, WaitsKeeps DEF Waits, Pool!callerless
<1>4. CASE /\ offered' = offered + 1 /\ offered < MaxJobs
           /\ caller' \in [Callers -> Pool!Calls] /\ OtherCalls(c)
           /\ caller'[c].pc = "send" /\ caller'[c].left = caller[c].left /\ caller'[c].job = offered + 1
  <2>1. offered \in Nat /\ offered' \in 0..MaxJobs
    BY <1>2, <1>4, JobsUpTo DEF Pool!WorkerPoolAssumption
  <2>2. Pool!TypeOK'
    BY <1>1, <1>2, <1>4, <2>1 DEF Pool!TypeOK
  <2>3. PlacesInv' /\ CloseInv'
    BY <1>1 DEF PoolInv, PlacesInv, CloseInv, Queued, WithWorker
  <2>4. \A d \in Callers : d # c => caller'[d] = caller[d]
    BY <1>4 DEF OtherCalls
  <2>5. \A j \in 1..offered : j \in 1..offered' /\ j # offered + 1
    BY <1>4, <2>1
  <2>6. offered + 1 \in 1..offered' /\ offered + 1 \notin accepted /\ accepted' = accepted /\ accepted \subseteq 1..offered
    BY <1>1, <1>2, <1>4, <2>1, <2>5 DEF SendersInv
  <2>7. caller[c].left \in 1..2
    BY <1>2 DEF SendersInv, Pool!Check
  <2>8. SendersInv'
    <3>1. accepted' \subseteq 1..offered'
      BY <2>5, <2>6
    <3>2. \A d \in Callers : /\ caller'[d].pc \in {"check", "send"} => caller'[d].left \in 1..2
                             /\ caller'[d].pc = "send" => caller'[d].job \in 1..offered' \ accepted'
      BY <1>2, <1>4, <2>4, <2>5, <2>6, <2>7 DEF SendersInv
    <3>3. \A d, e \in Callers :
             caller'[d].pc = "send" /\ caller'[e].pc = "send" /\ caller'[d].job = caller'[e].job => d = e
      BY <1>2, <1>4, <2>4, <2>5 DEF SendersInv
    <3> QED
      BY <3>1, <3>2, <3>3 DEF SendersInv
  <2> QED
    BY <2>2, <2>3, <2>8 DEF PoolInv
<1> QED
  BY <1>2, <1>3, <1>4, CheckGoes

------------------------------------------------------------------------------
(* A job is taken: by the buffer, or by a worker that waits *)

LEMMA SendersAccept ==
    ASSUME Pool!WorkerPoolAssumption, Pool!TypeOK, SendersInv, NEW c \in Callers, Pool!Accepted(c), offered' = offered
    PROVE  SendersInv' /\ caller' \in [Callers -> Pool!Calls] /\ accepted' \subseteq Pool!Jobs
<1>1. /\ Elsewhere(c) /\ caller[c].pc = "send"
      /\ caller[c].job \in Pool!Jobs /\ caller[c].job \in 1..offered /\ accepted' = accepted \cup {caller[c].job}
  BY AcceptedGoes
<1>2. \A d \in Callers : caller'[d].pc = "send" => d # c /\ caller'[d] = caller[d]
  BY <1>1 DEF Elsewhere, OtherCalls
<1>3. \A d \in Callers : caller'[d].pc \in {"check", "send"} => caller'[d].left \in 1..2
  BY <1>1 DEF Elsewhere, OtherCalls, SendersInv
<1>4. \A d \in Callers : caller'[d].pc = "send" => caller'[d].job \in 1..offered \ accepted'
  BY <1>1, <1>2 DEF SendersInv
<1>5. accepted' \subseteq 1..offered' /\ accepted' \subseteq Pool!Jobs
  BY <1>1 DEF SendersInv, Pool!TypeOK
<1>6. \A d, e \in Callers :
         caller'[d].pc = "send" /\ caller'[e].pc = "send" /\ caller'[d].job = caller'[e].job => d = e
  BY <1>2 DEF SendersInv
<1> QED
  BY <1>1, <1>3, <1>4, <1>5, <1>6 DEF SendersInv, Elsewhere

LEMMA SendKeeps ==
    ASSUME Pool!WorkerPoolAssumption, PoolInv, NEW c \in Callers, Pool!Send(c)
    PROVE  PoolInv'
<1> DEFINE j == caller[c].job
<1>1. Pool!TypeOK /\ SendersInv /\ Pool!Accepted(c) /\ poolQueue' = Append(poolQueue, j) /\ Len(poolQueue) < queueSize
      /\ UNCHANGED <<closed, worker, closer, offered, done>>
  BY DEF PoolInv, Pool!Send, Pool!callerless
<1>2. j \in Pool!Jobs /\ j \notin accepted /\ accepted' = accepted \cup {j} /\ ~closed
  BY <1>1, AcceptedGoes
<1>3. poolQueue \in Seq(Pool!Jobs)
  BY <1>1 DEF Pool!TypeOK
<1>4. /\ poolQueue' \in Seq(Pool!Jobs) /\ Len(poolQueue') = Len(poolQueue) + 1
      /\ DOMAIN poolQueue' = DOMAIN poolQueue \cup {Len(poolQueue) + 1} /\ Len(poolQueue) + 1 \notin DOMAIN poolQueue
      /\ poolQueue'[Len(poolQueue) + 1] = j /\ \A i \in DOMAIN poolQueue : poolQueue'[i] = poolQueue[i]
  BY <1>1, <1>2, <1>3, AppendOK
<1>5. SendersInv' /\ caller' \in [Callers -> Pool!Calls] /\ accepted' \subseteq Pool!Jobs
  BY <1>1, SendersAccept
<1>6. Pool!TypeOK'
  <2>1. Len(poolQueue') <= queueSize
    BY <1>1, <1>3, <1>4 DEF Pool!WorkerPoolAssumption
  <2> QED
    BY <1>1, <1>4, <1>5, <2>1 DEF Pool!TypeOK
<1>7. \A k : Queued(k)' <=> Queued(k) \/ k = j
  BY <1>4 DEF Queued
<1>8. \A k : WithWorker(k)' <=> WithWorker(k)
  BY <1>1 DEF WithWorker
<1>9. PlacesInv
  BY DEF PoolInv
<1>10. ~Queued(j) /\ ~WithWorker(j) /\ j \notin done
  BY <1>2, <1>9 DEF PlacesInv
<1>11. PlacesInv'
  <2>1. \A k \in Pool!Jobs : k \in accepted' <=> k \in done' \/ Queued(k)' \/ WithWorker(k)'
    BY <1>1, <1>2, <1>7, <1>8, <1>9 DEF PlacesInv
  <2>2. \A i, m \in DOMAIN poolQueue' : poolQueue'[i] = poolQueue'[m] => i = m
    BY <1>4, <1>9, <1>10 DEF PlacesInv, Queued
  <2>3. \A w, v \in Workers : worker'[w] \in Pool!Jobs /\ worker'[w] = worker'[v] => w = v
    BY <1>1, <1>9 DEF PlacesInv
  <2>4. \A k \in Pool!Jobs : ~(Queued(k)' /\ WithWorker(k)')
    BY <1>7, <1>8, <1>9, <1>10 DEF PlacesInv
  <2>5. \A k \in done' : ~Queued(k)' /\ ~WithWorker(k)'
    BY <1>1, <1>7, <1>8, <1>9, <1>10 DEF PlacesInv
  <2> QED
    BY <2>1, <2>2, <2>3, <2>4, <2>5 DEF PlacesInv
<1>12. CloseInv'
  BY <1>1, <1>2 DEF PoolInv, CloseInv
<1> QED
  BY <1>5, <1>6, <1>11, <1>12 DEF PoolInv

LEMMA HandKeeps ==
    ASSUME Pool!WorkerPoolAssumption, PoolInv, NEW c \in Callers, NEW w \in Workers, Pool!Hand(c, w)
    PROVE  PoolInv'
<1> DEFINE j == caller[c].job
<1>1. Pool!TypeOK /\ SendersInv /\ Pool!Accepted(c) /\ worker[w] = Pool!Idle /\ worker' = [worker EXCEPT ![w] = j]
      /\ UNCHANGED <<poolQueue, closed, closer, offered, done>>
  BY DEF PoolInv, Pool!Hand
<1>2. j \in Pool!Jobs /\ j \notin accepted /\ accepted' = accepted \cup {j} /\ ~closed
  BY <1>1, AcceptedGoes
<1>3. SendersInv' /\ caller' \in [Callers -> Pool!Calls] /\ accepted' \subseteq Pool!Jobs
  BY <1>1, SendersAccept
<1>4. /\ worker' \in [Workers -> Pool!Jobs \cup {Pool!Idle, Pool!Gone}] /\ worker'[w] = j
      /\ \A v \in Workers : v # w => worker'[v] = worker[v]
  BY <1>1, <1>2 DEF Pool!TypeOK
<1>5. Pool!TypeOK'
  BY <1>1, <1>3, <1>4 DEF Pool!TypeOK
<1>6. Pool!Idle \notin Pool!Jobs /\ Pool!Gone \notin Pool!Jobs /\ Pool!Idle # Pool!Gone
  BY DEF Pool!Idle, Pool!Gone, Pool!Jobs
<1>7. \A k \in Pool!Jobs : WithWorker(k)' <=> WithWorker(k) \/ k = j
  BY <1>1, <1>4, <1>6 DEF WithWorker
<1>8. \A k : Queued(k)' <=> Queued(k)
  BY <1>1 DEF Queued
<1>9. PlacesInv
  BY DEF PoolInv
<1>10. ~Queued(j) /\ ~WithWorker(j) /\ j \notin done
  BY <1>2, <1>9 DEF PlacesInv
<1>11. PlacesInv'
  <2>1. \A k \in Pool!Jobs : k \in accepted' <=> k \in done' \/ Queued(k)' \/ WithWorker(k)'
    BY <1>1, <1>2, <1>7, <1>8, <1>9 DEF PlacesInv
  <2>2. \A i, m \in DOMAIN poolQueue' : poolQueue'[i] = poolQueue'[m] => i = m
    BY <1>1, <1>9 DEF PlacesInv
  <2>3. \A u, v \in Workers : worker'[u] \in Pool!Jobs /\ worker'[u] = worker'[v] => u = v
    BY <1>4, <1>9, <1>10 DEF PlacesInv, WithWorker
  <2>4. \A k \in Pool!Jobs : ~(Queued(k)' /\ WithWorker(k)')
    BY <1>7, <1>8, <1>9, <1>10 DEF PlacesInv
  <2>5. \A k \in done' : ~Queued(k)' /\ ~WithWorker(k)'
    <3>1. done' = done /\ done \subseteq Pool!Jobs
      BY <1>1 DEF Pool!TypeOK
    <3> QED
      BY <3>1, <1>7, <1>8, <1>9, <1>10 DEF PlacesInv
  <2> QED
    BY <2>1, <2>2, <2>3, <2>4, <2>5 DEF PlacesInv
<1>12. CloseInv'
  BY <1>1, <1>2, <1>4, <1>6 DEF PoolInv, CloseInv
<1> QED
  BY <1>3, <1>5, <1>11, <1>12 DEF PoolInv

------------------------------------------------------------------------------
(* Workers *)

\* A worker takes the first job of the channel.
LEMMA TakeKeeps ==
    ASSUME Pool!WorkerPoolAssumption, PoolInv, NEW w \in Workers, Pool!Take(w)
    PROVE  PoolInv'
<1> DEFINE j == poolQueue[1]
<1>1. Pool!TypeOK /\ SendersInv /\ PlacesInv /\ CloseInv /\ worker[w] = Pool!Idle /\ poolQueue # <<>>
      /\ worker' = [worker EXCEPT ![w] = Head(poolQueue)] /\ poolQueue' = Tail(poolQueue)
      /\ UNCHANGED <<closed, caller, closer, offered, accepted, done>>
  BY DEF PoolInv, Pool!Take, Pool!Rest
<1>2. poolQueue \in Seq(Pool!Jobs)
  BY <1>1 DEF Pool!TypeOK
<1>3. /\ poolQueue' \in Seq(Pool!Jobs) /\ Len(poolQueue') = Len(poolQueue) - 1
      /\ Head(poolQueue) = j /\ 1 \in DOMAIN poolQueue
      /\ \A i \in DOMAIN poolQueue' : i + 1 \in DOMAIN poolQueue /\ poolQueue'[i] = poolQueue[i + 1] /\ i + 1 # 1
      /\ \A i \in DOMAIN poolQueue : i # 1 => i - 1 \in DOMAIN poolQueue' /\ poolQueue'[i - 1] = poolQueue[i]
  BY <1>1, <1>2, TailOK
<1>4. j \in Pool!Jobs
  BY <1>2, <1>3
<1>5. /\ worker' \in [Workers -> Pool!Jobs \cup {Pool!Idle, Pool!Gone}] /\ worker'[w] = j
      /\ \A v \in Workers : v # w => worker'[v] = worker[v]
  BY <1>1, <1>3, <1>4 DEF Pool!TypeOK
<1>6. Pool!TypeOK'
  <2>1. Len(poolQueue) \in Nat /\ Len(poolQueue) <= queueSize /\ queueSize \in Nat
    BY <1>1, <1>2 DEF Pool!TypeOK, Pool!WorkerPoolAssumption
  <2>2. Len(poolQueue') = Len(poolQueue) - 1
    BY <1>3
  <2>3. Len(poolQueue') <= queueSize
    BY <2>1, <2>2
  <2>4. closed' \in BOOLEAN /\ caller' \in [Callers -> Pool!Calls]
        /\ closer' \in [Closers -> {"idle", "waiting", "closed", "returned"}]
        /\ offered' \in 0..MaxJobs /\ accepted' \subseteq Pool!Jobs /\ done' \subseteq Pool!Jobs
    BY <1>1 DEF Pool!TypeOK
  <2> QED
    BY <1>3, <1>5, <2>3, <2>4 DEF Pool!TypeOK
<1>7. Pool!Idle \notin Pool!Jobs /\ Pool!Gone \notin Pool!Jobs /\ Pool!Idle # Pool!Gone
  BY DEF Pool!Idle, Pool!Gone, Pool!Jobs
<1>8. \A k \in Pool!Jobs : WithWorker(k)' <=> WithWorker(k) \/ k = j
  BY <1>1, <1>5, <1>7 DEF WithWorker
<1>9. \A k : Queued(k)' <=> Queued(k) /\ k # j
  <2>1. \A i \in DOMAIN poolQueue' : poolQueue'[i] # j
    BY <1>1, <1>3 DEF PlacesInv
  <2>2. \A k : Queued(k)' => Queued(k)
    BY <1>3 DEF Queued
  <2>3. ASSUME NEW k, Queued(k), k # j PROVE Queued(k)'
    <3>1. PICK i \in DOMAIN poolQueue : poolQueue[i] = k
      BY <2>3 DEF Queued
    <3> QED
      BY <1>3, <2>3, <3>1 DEF Queued
  <2> QED
    BY <2>1, <2>2, <2>3 DEF Queued
<1>10. Queued(j) /\ ~WithWorker(j) /\ j \notin done
  BY <1>1, <1>3, <1>4 DEF PlacesInv, Queued
<1>11. PlacesInv'
  <2>1. \A k \in Pool!Jobs : k \in accepted' <=> k \in done' \/ Queued(k)' \/ WithWorker(k)'
    BY <1>1, <1>8, <1>9, <1>10 DEF PlacesInv
  <2>2. \A i, m \in DOMAIN poolQueue' : poolQueue'[i] = poolQueue'[m] => i = m
    <3> SUFFICES ASSUME NEW i \in DOMAIN poolQueue', NEW m \in DOMAIN poolQueue', poolQueue'[i] = poolQueue'[m] PROVE i = m
      OBVIOUS
    <3>1. i + 1 = m + 1
      BY <1>1, <1>3 DEF PlacesInv
    <3>2. i \in Int /\ m \in Int
      BY <1>3
    <3> QED
      BY <3>1, <3>2
  <2>3. \A u, v \in Workers : worker'[u] \in Pool!Jobs /\ worker'[u] = worker'[v] => u = v
    BY <1>1, <1>5, <1>10 DEF PlacesInv, WithWorker
  <2>4. \A k \in Pool!Jobs : ~(Queued(k)' /\ WithWorker(k)')
    BY <1>1, <1>8, <1>9 DEF PlacesInv
  <2>5. \A k \in done' : ~Queued(k)' /\ ~WithWorker(k)'
    <3>1. done' = done /\ done \subseteq Pool!Jobs
      BY <1>1 DEF Pool!TypeOK
    <3> QED
      BY <3>1, <1>1, <1>8, <1>9, <1>10 DEF PlacesInv
  <2> QED
    BY <2>1, <2>2, <2>3, <2>4, <2>5 DEF PlacesInv
<1>12. CloseInv'
  <2>1. \A v \in Workers : worker[v] # Pool!Gone
    BY <1>1 DEF CloseInv
  <2>2. \A v \in Workers : worker'[v] # Pool!Gone
    BY <1>4, <1>5, <1>7, <2>1
  <2> QED
    BY <1>1, <2>1, <2>2 DEF CloseInv
<1>13. SendersInv'
  BY <1>1 DEF SendersInv
<1> QED
  BY <1>6, <1>11, <1>12, <1>13 DEF PoolInv

\* A job has run, whether it panicked or not, and its worker is free.
LEMMA RunKeeps ==
    ASSUME PoolInv, NEW w \in Workers, NEW panics \in BOOLEAN, Pool!runJob(w, panics)
    PROVE  PoolInv'
<1> DEFINE j == worker[w]
<1>1. Pool!TypeOK /\ SendersInv /\ PlacesInv /\ CloseInv /\ j \in Pool!Jobs
      /\ worker' = [worker EXCEPT ![w] = Pool!Idle] /\ done' = done \cup {j}
      /\ UNCHANGED <<poolQueue, closed, caller, closer, offered, accepted>>
  BY DEF PoolInv, Pool!runJob, Pool!AfterJob
<1>2. /\ worker' \in [Workers -> Pool!Jobs \cup {Pool!Idle, Pool!Gone}] /\ worker'[w] = Pool!Idle
      /\ \A v \in Workers : v # w => worker'[v] = worker[v]
  BY <1>1 DEF Pool!TypeOK
<1>3. Pool!TypeOK'
  BY <1>1, <1>2 DEF Pool!TypeOK
<1>4. Pool!Idle \notin Pool!Jobs /\ Pool!Gone \notin Pool!Jobs /\ Pool!Idle # Pool!Gone
  BY DEF Pool!Idle, Pool!Gone, Pool!Jobs
<1>5. \A k \in Pool!Jobs : WithWorker(k)' <=> WithWorker(k) /\ k # j
  BY <1>1, <1>2, <1>4 DEF WithWorker, PlacesInv
<1>6. \A k : Queued(k)' <=> Queued(k)
  BY <1>1 DEF Queued
<1>7. WithWorker(j) /\ ~Queued(j)
  BY <1>1 DEF PlacesInv, WithWorker
<1>8. PlacesInv'
  <2>1. \A k \in Pool!Jobs : k \in accepted' <=> k \in done' \/ Queued(k)' \/ WithWorker(k)'
    <3> SUFFICES ASSUME NEW k \in Pool!Jobs PROVE k \in accepted <=> k \in done \cup {j} \/ Queued(k)' \/ WithWorker(k)'
      BY <1>1
    <3>1. k \in accepted <=> k \in done \/ Queued(k) \/ WithWorker(k)
      BY <1>1 DEF PlacesInv
    <3> QED
      BY <3>1, <1>5, <1>6, <1>7
  <2>2. \A i, m \in DOMAIN poolQueue' : poolQueue'[i] = poolQueue'[m] => i = m
    BY <1>1 DEF PlacesInv
  <2>3. \A u, v \in Workers : worker'[u] \in Pool!Jobs /\ worker'[u] = worker'[v] => u = v
    BY <1>1, <1>2, <1>4 DEF PlacesInv
  <2>4. \A k \in Pool!Jobs : ~(Queued(k)' /\ WithWorker(k)')
    BY <1>1, <1>5, <1>6 DEF PlacesInv
  <2>5. \A k \in done' : ~Queued(k)' /\ ~WithWorker(k)'
    <3>1. done' \subseteq Pool!Jobs
      BY <1>3 DEF Pool!TypeOK
    <3> QED
      BY <3>1, <1>1, <1>5, <1>6, <1>7 DEF PlacesInv
  <2> QED
    BY <2>1, <2>2, <2>3, <2>4, <2>5 DEF PlacesInv
<1>9. CloseInv'
  BY <1>1, <1>2, <1>4 DEF CloseInv
<1>10. SendersInv'
  BY <1>1 DEF SendersInv
<1> QED
  BY <1>3, <1>8, <1>9, <1>10 DEF PoolInv

------------------------------------------------------------------------------
(* Close *)

LEMMA LeaveKeeps ==
    ASSUME PoolInv, NEW w \in Workers, Pool!Leave(w)
    PROVE  PoolInv'
<1>1. Pool!TypeOK /\ SendersInv /\ PlacesInv /\ CloseInv /\ worker[w] = Pool!Idle /\ closed /\ poolQueue = <<>>
      /\ worker' = [worker EXCEPT ![w] = Pool!Gone]
      /\ UNCHANGED <<poolQueue, closed, caller, closer, offered, accepted, done>>
  BY DEF PoolInv, Pool!Leave, Pool!Drained
<1>2. /\ worker' \in [Workers -> Pool!Jobs \cup {Pool!Idle, Pool!Gone}] /\ worker'[w] = Pool!Gone
      /\ \A v \in Workers : v # w => worker'[v] = worker[v]
  BY <1>1 DEF Pool!TypeOK
<1>3. Pool!Idle \notin Pool!Jobs /\ Pool!Gone \notin Pool!Jobs
  BY DEF Pool!Idle, Pool!Gone, Pool!Jobs
<1>4. \A k \in Pool!Jobs : WithWorker(k)' <=> WithWorker(k)
  BY <1>1, <1>2, <1>3 DEF WithWorker
<1>5. \A k : Queued(k)' <=> Queued(k)
  BY <1>1 DEF Queued
<1>6. \A u, v \in Workers : worker'[u] \in Pool!Jobs /\ worker'[u] = worker'[v] => u = v
  BY <1>1, <1>2, <1>3 DEF PlacesInv
<1>7. PlacesInv'
  <2>1. done' = done /\ done \subseteq Pool!Jobs
    BY <1>1 DEF Pool!TypeOK
  <2> QED
    BY <1>1, <1>4, <1>5, <1>6, <2>1 DEF PlacesInv
<1>8. Pool!TypeOK' /\ SendersInv' /\ CloseInv'
  BY <1>1, <1>2 DEF Pool!TypeOK, SendersInv, CloseInv
<1> QED
  BY <1>7, <1>8 DEF PoolInv

LEMMA CloserKeeps ==
    ASSUME PoolInv, NEW k \in Closers, Pool!Close(k) \/ Pool!Wait(k)
    PROVE  PoolInv'
<1>1. UNCHANGED <<poolQueue, caller, worker, offered, accepted, done>>
  BY DEF Pool!Close, Pool!Wait
<1>2. Pool!TypeOK' /\ SendersInv' /\ PlacesInv'
  BY <1>1 DEF PoolInv, Pool!TypeOK, SendersInv, PlacesInv, Queued, WithWorker, Pool!Close, Pool!Wait
<1>3. closer \in [Closers -> {"idle", "waiting", "closed", "returned"}]
  BY DEF PoolInv, Pool!TypeOK
<1>4. CloseInv'
  BY <1>1, <1>3 DEF PoolInv, CloseInv, Pool!Close, Pool!Wait
<1> QED
  BY <1>2, <1>4 DEF PoolInv

------------------------------------------------------------------------------

LEMMA StepPool == Pool!WorkerPoolAssumption /\ PoolInv /\ [Pool!Next]_Pool!vars => PoolInv'
<1> SUFFICES ASSUME Pool!WorkerPoolAssumption, PoolInv, [Pool!Next]_Pool!vars PROVE PoolInv'
  OBVIOUS
<1>1. Pool!TypeOK /\ SendersInv
  BY DEF PoolInv
<1>2. ASSUME NEW c \in Callers, Pool!GiveUp(c) \/ Pool!Panic(c) \/ Pool!PreCheck(c) \/ Pool!Cancel(c) PROVE PoolInv'
  <2>1. Waits(c)
    BY <1>1, <1>2, GiveUpGoes, EndGoes, CancelGoes DEF Waits, Pool!GiveUp, Pool!Panic, Pool!PreCheck, Pool!Cancel
  <2> QED
    BY <2>1, WaitsKeeps
<1>3. ASSUME NEW c \in Callers, NEW way \in Kinds, Pool!Enter(c, way) PROVE PoolInv'
  <2>1. Waits(c)
    BY <1>1, <1>3, EnterGoes DEF Waits, Pool!Enter
  <2> QED
    BY <2>1, WaitsKeeps
<1>4. CASE UNCHANGED Pool!vars
  BY <1>4 DEF Pool!vars, PoolInv, Pool!TypeOK, SendersInv, PlacesInv, CloseInv, Queued, WithWorker
<1> QED
  BY <1>2, <1>3, <1>4, CheckKeeps, SendKeeps, HandKeeps, TakeKeeps, RunKeeps, LeaveKeeps, CloserKeeps DEF Pool!Next

LEMMA PoolInvTells == Pool!WorkerPoolAssumption /\ PoolInv => Pool!JobsOnce
<1> SUFFICES ASSUME Pool!WorkerPoolAssumption, PoolInv PROVE Pool!JobsOnce
  OBVIOUS
<1>1. Pool!TypeOK /\ PlacesInv /\ CloseInv
  BY DEF PoolInv
<1>2. Pool!TakenOnce
  <2> SUFFICES ASSUME NEW j \in accepted
               PROVE  \/ j \in done /\ (\A i \in DOMAIN poolQueue : poolQueue[i] # j) /\ \A w \in Workers : worker[w] # j
                      \/ j \notin done
                         /\ (\E i \in DOMAIN poolQueue : poolQueue[i] = j /\ \A m \in DOMAIN poolQueue \ {i} : poolQueue[m] # j)
                         /\ \A w \in Workers : worker[w] # j
                      \/ j \notin done /\ (\A i \in DOMAIN poolQueue : poolQueue[i] # j)
                         /\ \E w \in Workers : worker[w] = j /\ \A v \in Workers \ {w} : worker[v] # j
    BY DEF Pool!TakenOnce
  <2>1. j \in Pool!Jobs
    BY <1>1 DEF Pool!TypeOK
  <2>2. CASE j \in done
    BY <1>1, <2>2 DEF PlacesInv, Queued, WithWorker
  <2>3. CASE Queued(j)
    <3>1. PICK i \in DOMAIN poolQueue : poolQueue[i] = j
      BY <2>3 DEF Queued
    <3>2. \A m \in DOMAIN poolQueue \ {i} : poolQueue[m] # j
      BY <1>1, <3>1 DEF PlacesInv
    <3>3. j \notin done /\ \A w \in Workers : worker[w] # j
      BY <1>1, <2>1, <2>3 DEF PlacesInv, WithWorker
    <3> QED
      BY <3>1, <3>2, <3>3
  <2>4. CASE WithWorker(j)
    <3>1. PICK w \in Workers : worker[w] = j
      BY <2>4 DEF WithWorker
    <3>2. \A v \in Workers \ {w} : worker[v] # j
      BY <1>1, <2>1, <3>1 DEF PlacesInv
    <3>3. j \notin done /\ \A i \in DOMAIN poolQueue : poolQueue[i] # j
      BY <1>1, <2>1, <2>4 DEF PlacesInv, Queued
    <3> QED
      BY <3>1, <3>2, <3>3
  <2> QED
    BY <1>1, <2>1, <2>2, <2>3, <2>4 DEF PlacesInv
<1>3. Pool!CloseDrains
  <2> SUFFICES ASSUME NEW k \in Closers, closer[k] = "closed" PROVE accepted \subseteq done
    BY DEF Pool!CloseDrains
  <2>1. \A w \in Workers : worker[w] = Pool!Gone
    BY <1>1 DEF CloseInv
  <2>2. poolQueue = <<>>
    BY <1>1, <2>1 DEF CloseInv, Pool!WorkerPoolAssumption
  <2>3. \A j \in Pool!Jobs : ~Queued(j) /\ ~WithWorker(j)
    BY <2>1, <2>2 DEF Queued, WithWorker, Pool!Gone, Pool!Jobs
  <2> QED
    BY <1>1, <2>3 DEF PlacesInv, Pool!TypeOK
<1> QED
  BY <1>1, <1>2, <1>3 DEF Pool!JobsOnce


\* For any number of callers, workers, closers and jobs: a job the pool has taken is queued, with a
\* worker or done, in one place only, so it is neither lost nor run twice, panics and cancelled callers
\* included; and the Close that closed the pool returns when all of them have run (pool/pool.go).
THEOREM JobsRunOnce == PartSpec => []JobsOnce
<1> USE PoolAssumption
<1>1. PartInit => PoolInv
  BY InitPool DEF PartInit, PoolOff
<1>2. PoolInv /\ [PartNext]_allVars => PoolInv'
  <2> SUFFICES ASSUME PoolInv, [PartNext]_allVars PROVE PoolInv'
    OBVIOUS
  <2>1. [Pool!Next]_Pool!vars
    BY DEF PartNext, allVars, PoolVars, Pool!vars
  <2> QED
    BY <2>1, StepPool
<1>3. PoolInv => JobsOnce
  BY PoolInvTells DEF JobsOnce
<1> QED
  BY <1>1, <1>2, <1>3, PTL DEF PartSpec
==============================================================================
