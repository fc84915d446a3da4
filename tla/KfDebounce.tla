----------------------------- MODULE KfDebounce -----------------------------
(***************************************************************************)
(* The per-session debounce of server/kf_debounce.go, for one session, and *)
(* what a batch does to the history of the session (processAgentMessage).  *)
(*                                                                         *)
(* Every message m has one goroutine at a time: the caller that enqueues   *)
(* it, then the timer it arms or the goroutine it starts to fire the       *)
(* batch.  A step is one critical section of the state's mutex, one access *)
(* to the sync.Map, or one access to the session's history.                *)
(***************************************************************************)
EXTENDS Naturals, Sequences

CONSTANTS
    Msgs,           \* messages of the session
    MaxMsgs,        \* kfDebounceMaxMsgs
    First,          \* the state the first message of the session allocates
    NoMsg, NoState

ASSUME DebounceAssumption ==
    /\ NoMsg \notin Msgs
    /\ First \notin Msgs
    /\ NoState \notin Msgs \cup {First}
    /\ MaxMsgs \in Nat \ {0}

VARIABLES
    current,        \* the state the map holds for the session
    queue,          \* state.msgs
    processing,     \* state.processing
    timer,          \* state.timer: the message whose timer it is
    pc,             \* what the goroutine of each message does next
    at,             \* the state that goroutine works on
    batch,          \* the messages it has taken to its callback
    history,        \* the messages of the session
    seen            \* the history its run has read

vars == <<current, queue, processing, timer, pc, at, batch, history, seen>>

\* A state made because another one is running is named for the message it was
\* made for.
States == Msgs \cup {First}

Labels == {"new", "append", "schedule", "armed", "stopped", "expired", "fire",
           "read", "ask", "answer", "release", "done"}

Messages(q) == {q[i] : i \in DOMAIN q}

Init ==
    /\ current = NoState
    /\ queue = [s \in States |-> <<>>]
    /\ processing = [s \in States |-> FALSE]
    /\ timer = [s \in States |-> NoMsg]
    /\ pc = [m \in Msgs |-> "new"]
    /\ at = [m \in Msgs |-> NoState]
    /\ batch = [m \in Msgs |-> <<>>]
    /\ history = <<>>
    /\ seen = [m \in Msgs |-> <<>>]

Goto(m, label) == pc' = [pc EXCEPT ![m] = label]

------------------------------------------------------------------------------
(* kfDebounceEnqueue and kfScheduleProcess *)

\* Mutant: the value that was in the map before is used.
Load_OldValue(m) ==
    /\ pc[m] = "new"
    /\ current' = IF current = NoState THEN First ELSE current
    /\ at' = [at EXCEPT ![m] = current]
    /\ Goto(m, "append")
    /\ UNCHANGED <<queue, processing, timer, batch, history, seen>>

\* LoadOrStore: the pointer is read here and used two steps later.
Load(m) ==
    /\ pc[m] = "new"
    /\ current' = IF current = NoState THEN First ELSE current
    /\ at' = [at EXCEPT ![m] = current']
    /\ Goto(m, "append")
    /\ UNCHANGED <<queue, processing, timer, batch, history, seen>>

\* Mutant: a message that comes in during a run joins the state that is running.
Enqueue_JoinRunning(m) ==
    /\ pc[m] = "append"
    /\ queue' = [queue EXCEPT ![at[m]] = Append(@, m)]
    /\ UNCHANGED <<current, at>>
    /\ Goto(m, "schedule")
    /\ UNCHANGED <<processing, timer, batch, history, seen>>

\* A state whose callback runs is replaced by a new one.
Enqueue(m) ==
    /\ pc[m] = "append"
    /\ IF processing[at[m]]
          THEN /\ current' = m
               /\ at' = [at EXCEPT ![m] = m]
               /\ queue' = [queue EXCEPT ![m] = <<m>>]
          ELSE /\ queue' = [queue EXCEPT ![at[m]] = Append(@, m)]
               /\ UNCHANGED <<current, at>>
    /\ Goto(m, "schedule")
    /\ UNCHANGED <<processing, timer, batch, history, seen>>

\* Stop does nothing to a timer whose function has started.
Schedule(m) ==
    LET s == at[m]
        old == timer[s]
    IN  /\ pc[m] = "schedule"
        /\ IF processing[s] THEN Goto(m, "done") /\ UNCHANGED timer
           ELSE IF Len(queue[s]) >= MaxMsgs THEN Goto(m, "fire") /\ UNCHANGED timer
           ELSE /\ timer' = [timer EXCEPT ![s] = m]
                /\ pc' = [n \in Msgs |-> IF n = m THEN "armed"
                                         ELSE IF n = old /\ pc[n] = "armed" THEN "stopped"
                                         ELSE pc[n]]
        /\ UNCHANGED <<current, queue, processing, at, batch, history, seen>>

TimerExpires(m) ==
    /\ pc[m] = "armed"
    /\ Goto(m, "expired")
    /\ UNCHANGED <<current, queue, processing, timer, at, batch, history, seen>>

------------------------------------------------------------------------------
(* kfFireProcess *)

\* Mutant: the taken messages stay in the state.
Fire_KeepQueue(m) ==
    LET s == at[m]
    IN  /\ pc[m] \in {"expired", "fire"}
        /\ IF processing[s]
              THEN Goto(m, "done") /\ UNCHANGED <<queue, processing, timer, batch>>
              ELSE /\ processing' = [processing EXCEPT ![s] = TRUE]
                   /\ batch' = [batch EXCEPT ![m] = queue[s]]
                   /\ UNCHANGED queue
                   /\ timer' = [timer EXCEPT ![s] = NoMsg]
                   /\ Goto(m, IF queue[s] = <<>> THEN "release" ELSE "read")
        /\ UNCHANGED <<current, at, history, seen>>

\* The timer field is cleared; a timer still armed behind it is not stopped.
Fire(m) ==
    LET s == at[m]
    IN  /\ pc[m] \in {"expired", "fire"}
        /\ IF processing[s]
              THEN Goto(m, "done") /\ UNCHANGED <<queue, processing, timer, batch>>
              ELSE /\ processing' = [processing EXCEPT ![s] = TRUE]
                   /\ batch' = [batch EXCEPT ![m] = queue[s]]
                   /\ queue' = [queue EXCEPT ![s] = <<>>]
                   /\ timer' = [timer EXCEPT ![s] = NoMsg]
                   /\ Goto(m, IF queue[s] = <<>> THEN "release" ELSE "read")
        /\ UNCHANGED <<current, at, history, seen>>

\* The callback: the run reads the history, and appends its question and answer
\* when the agent has answered.
ReadHistory(m) ==
    /\ pc[m] = "read"
    /\ seen' = [seen EXCEPT ![m] = history]
    /\ Goto(m, "ask")
    /\ UNCHANGED <<current, queue, processing, timer, at, batch, history>>

AppendQuestion(m) ==
    /\ pc[m] = "ask"
    /\ history' = Append(history, <<"user", m>>)
    /\ Goto(m, "answer")
    /\ UNCHANGED <<current, queue, processing, timer, at, batch, seen>>

AppendAnswer(m) ==
    /\ pc[m] = "answer"
    /\ history' = Append(history, <<"assistant", m>>)
    /\ seen' = [seen EXCEPT ![m] = <<>>]
    /\ Goto(m, "release")
    /\ UNCHANGED <<current, queue, processing, timer, at, batch>>

\* The question is not trusted: both messages are appended, no history is read.
Refuse(m) ==
    /\ pc[m] = "read"
    /\ history' = Append(history, <<"user", m>>)
    /\ Goto(m, "answer")
    /\ UNCHANGED <<current, queue, processing, timer, at, batch, seen>>

\* The handler returns early: rate limit, no session.
CallbackGivesUp(m) ==
    /\ pc[m] = "read"
    /\ Goto(m, "release")
    /\ UNCHANGED <<current, queue, processing, timer, at, batch, history, seen>>

Release(m) ==
    /\ pc[m] = "release"
    /\ processing' = [processing EXCEPT ![at[m]] = FALSE]
    /\ Goto(m, "done")
    /\ UNCHANGED <<current, queue, timer, at, batch, history, seen>>

------------------------------------------------------------------------------
Step(m) ==
    \/ Load(m) \/ Enqueue(m) \/ Schedule(m) \/ TimerExpires(m) \/ Fire(m)
    \/ ReadHistory(m) \/ AppendQuestion(m) \/ AppendAnswer(m) \/ Refuse(m)
    \/ CallbackGivesUp(m) \/ Release(m)

Next == \E m \in Msgs : Step(m)

Spec == Init /\ [][Next]_vars

\* Started goroutines run, armed timers expire, callbacks return (the agent's
\* turn has a deadline).  Nothing makes a customer write a message.
Fairness == \A m \in Msgs : WF_vars(Step(m) /\ ~Load(m))

FairSpec == Spec /\ Fairness

------------------------------------------------------------------------------
(* Properties *)

TypeOK ==
    /\ current \in States \cup {NoState}
    /\ queue \in [States -> Seq(Msgs)]
    /\ processing \in [States -> BOOLEAN]
    /\ timer \in [States -> Msgs \cup {NoMsg}]
    /\ pc \in [Msgs -> Labels]
    /\ at \in [Msgs -> States \cup {NoState}]
    /\ batch \in [Msgs -> Seq(Msgs)]
    /\ \A m \in Msgs : pc[m] # "new" => at[m] \in States

Waiting == UNION {Messages(queue[s]) : s \in States}
Taken   == {Messages(batch[m]) : m \in Msgs} \ {{}}

Batching == INSTANCE KfBatching WITH waiting <- Waiting, batches <- Taken

\* The debounce hands every message over exactly once, in one batch, whatever
\* timers, enqueuers and running callbacks do to each other.
ImplementsBatching == Batching!Spec

\* The goroutine of m is going to look at state s again.
Watches(m, s) == at[m] = s /\ pc[m] \in {"schedule", "armed", "expired", "fire"}

\* Messages that wait in a state are watched by somebody who will fire it: no
\* message is stranded by a stopped timer, a finished callback or an early return
\* (the early returns of kfScheduleProcess and kfFireProcess).
NoneForgotten ==
    \A s \in States : queue[s] # <<>> => \E m \in Msgs : Watches(m, s)

\* Every message that has come in reaches the agent.
EveryMessageTaken ==
    \A m \in Msgs : pc[m] # "new" ~> m \in UNION Taken

\* When a run appends its exchange, the history is the one it has read: runs of
\* one session do not overlap and each sees everything before it (server.go:1941,
\* "agent sees the complete, ordered history every time").
SeesWholeHistory ==
    [][\A m \in Msgs : pc[m] = "ask" /\ pc'[m] = "answer" => seen[m] = history]_vars
=============================================================================
