----------------------------- MODULE WorkerPool -----------------------------
(***************************************************************************)
(* The bounded pool of workers (pool/pool.go, panic.go) and the pair of    *)
(* checks that runs on it (pool/precheck.go).                              *)
(*                                                                         *)
(* A caller looks at the flag of the pool with the mutex, releases it, and *)
(* only then sends its job into the channel.  Close sets the flag and      *)
(* closes the channel, so a caller between the two steps sends into a      *)
(* closed channel, which panics.  PreCheck submits two jobs and waits for  *)
(* those that were accepted.                                               *)
(***************************************************************************)
EXTENDS Integers, Sequences, FiniteSets

CONSTANTS
    Callers, Workers, Closers,
    Kinds,          \* the ways of submitting that are used
    queueSize,      \* the capacity of the channel
    MaxJobs         \* bound: jobs ever offered

\* Assumed by the modules that instantiate this one.
WorkerPoolAssumption ==
    /\ IsFiniteSet(Workers) /\ Workers # {} /\ queueSize \in Nat /\ MaxJobs \in Nat
    /\ Kinds \subseteq {"Submit", "TrySubmit", "SubmitCtx", "PreCheck"}

Jobs == 1..MaxJobs
Idle == 0      \* a worker with no job
Gone == -1     \* a worker that has left

VARIABLES
    queue,      \* the channel
    closed,     \* the flag; the channel is closed in the same critical section
    caller,     \* the calls in progress
    worker,     \* the job of each worker
    closer,     \* the calls of Close
    offered,    \* jobs offered so far
    accepted,   \* jobs taken by the channel or a worker
    done        \* jobs that have run

vars == <<queue, closed, caller, worker, closer, offered, accepted, done>>
callerless == <<closed, worker, closer, offered, done>>

Outside == [pc |-> "outside", kind |-> "Submit", job |-> 0, left |-> 0, mine |-> {}, refused |-> FALSE,
            cancelled |-> FALSE]

Calls == [pc : {"outside", "check", "send", "wait", "panicked"},
          kind : {"Submit", "TrySubmit", "SubmitCtx", "PreCheck"},
          job : Jobs \cup {0}, left : 0..2, mine : SUBSET Jobs, refused : BOOLEAN, cancelled : BOOLEAN]

TypeOK ==
    /\ queue \in Seq(Jobs) /\ Len(queue) <= queueSize /\ closed \in BOOLEAN /\ caller \in [Callers -> Calls]
    /\ worker \in [Workers -> Jobs \cup {Idle, Gone}] /\ closer \in [Closers -> {"idle", "waiting", "closed", "returned"}]
    /\ offered \in 0..MaxJobs /\ accepted \subseteq Jobs /\ done \subseteq Jobs

Init ==
    /\ queue = <<>> /\ closed = FALSE /\ caller = [c \in Callers |-> Outside] /\ worker = [w \in Workers |-> Idle]
    /\ closer = [k \in Closers |-> "idle"] /\ offered = 0 /\ accepted = {} /\ done = {}

------------------------------------------------------------------------------
(* Submitting *)

HasCtx(kind) == kind \in {"SubmitCtx", "PreCheck"}

Parts(kind) == IF kind = "PreCheck" THEN 2 ELSE 1

\* Mutant: a job that was refused is waited for with those that were taken.
After_AwaitsRefused(call, ok) ==
    LET told == [call EXCEPT !.left = @ - 1, !.refused = @ \/ ~ok, !.mine = @ \cup ({call.job} \ {0})]
    IN  [told EXCEPT !.pc = IF told.left > 0 THEN "check" ELSE IF call.kind = "PreCheck" THEN "wait" ELSE "outside"]

\* The call after one of its jobs was taken or refused: on to the next, to waiting, or back.
After(call, ok) ==
    LET told == [call EXCEPT !.left = @ - 1, !.refused = @ \/ ~ok, !.mine = IF ok THEN @ \cup {call.job} ELSE @]
    IN  [told EXCEPT !.pc = IF told.left > 0 THEN "check" ELSE IF call.kind = "PreCheck" THEN "wait" ELSE "outside"]

Enter(c, kind) ==
    /\ caller[c].pc = "outside"
    /\ caller' = [caller EXCEPT ![c] = [Outside EXCEPT !.pc = "check", !.kind = kind, !.left = Parts(kind)]]
    /\ UNCHANGED <<queue, accepted, callerless>>

\* The flag is read with the mutex.
Check(c) ==
    /\ caller[c].pc = "check" /\ (~closed => offered < MaxJobs)
    /\ IF closed
       THEN caller' = [caller EXCEPT ![c] = After(@, FALSE)] /\ UNCHANGED offered
       ELSE /\ offered' = offered + 1
            /\ caller' = [caller EXCEPT ![c].pc = "send", ![c].job = offered + 1]
    /\ UNCHANGED <<queue, closed, worker, closer, accepted, done>>

\* The channel takes the job: into its buffer, or straight to a worker that waits.
Accepted(c) ==
    /\ caller[c].pc = "send" /\ ~closed /\ caller' = [caller EXCEPT ![c] = After(@, TRUE)]
    /\ accepted' = accepted \cup {caller[c].job}

Send(c) ==
    /\ Accepted(c) /\ Len(queue) < queueSize /\ queue' = Append(queue, caller[c].job)
    /\ UNCHANGED callerless

Hand(c, w) ==
    /\ Accepted(c) /\ queue = <<>> /\ worker[w] = Idle /\ worker' = [worker EXCEPT ![w] = caller[c].job]
    /\ UNCHANGED <<queue, closed, closer, offered, done>>

\* TrySubmit does not wait, SubmitCtx stops waiting when its context ends.
GiveUp(c) ==
    /\ caller[c].pc = "send"
    /\ \/ caller[c].kind = "TrySubmit" /\ Len(queue) >= queueSize /\ ~closed
       \/ HasCtx(caller[c].kind) /\ caller[c].cancelled
    /\ caller' = [caller EXCEPT ![c] = After(@, FALSE)]
    /\ UNCHANGED <<queue, accepted, callerless>>

\* Sending into a closed channel panics.
Panic(c) ==
    /\ caller[c].pc = "send" /\ closed /\ caller' = [caller EXCEPT ![c].pc = "panicked"]
    /\ UNCHANGED <<queue, accepted, callerless>>

\* PreCheck waits for the jobs it has handed over, whatever becomes of its context.
PreCheck(c) ==
    /\ caller[c].pc = "wait" /\ caller[c].mine \subseteq done /\ caller' = [caller EXCEPT ![c].pc = "outside"]
    /\ UNCHANGED <<queue, accepted, callerless>>

Cancel(c) ==
    /\ HasCtx(caller[c].kind) /\ caller[c].pc \in {"check", "send", "wait"} /\ ~caller[c].cancelled
    /\ caller' = [caller EXCEPT ![c].cancelled = TRUE]
    /\ UNCHANGED <<queue, accepted, callerless>>

------------------------------------------------------------------------------
(* Workers and Close *)

Rest(q) == Tail(q)

Take(w) ==
    /\ worker[w] = Idle /\ queue # <<>>
    /\ worker' = [worker EXCEPT ![w] = Head(queue)] /\ queue' = Rest(queue)
    /\ UNCHANGED <<closed, caller, closer, offered, accepted, done>>

\* runJob recovers from the panic of a job.
AfterJob(panics) == Idle

runJob(w, panics) ==
    /\ worker[w] \in Jobs /\ worker' = [worker EXCEPT ![w] = AfterJob(panics)] /\ done' = done \cup {worker[w]}
    /\ UNCHANGED <<queue, closed, caller, closer, offered, accepted>>

\* Mutant: a worker leaves as soon as the pool is closed.
Drained_AtOnce == closed

\* A closed channel still gives what it holds.
Drained == closed /\ queue = <<>>

Leave(w) ==
    /\ worker[w] = Idle /\ Drained /\ worker' = [worker EXCEPT ![w] = Gone]
    /\ UNCHANGED <<queue, closed, caller, closer, offered, accepted, done>>

Close(k) ==
    /\ closer[k] = "idle" /\ closer' = [closer EXCEPT ![k] = IF closed THEN "returned" ELSE "waiting"] /\ closed' = TRUE
    /\ UNCHANGED <<queue, caller, worker, offered, accepted, done>>

Wait(k) ==
    /\ closer[k] = "waiting" /\ \A w \in Workers : worker[w] = Gone
    /\ closer' = [closer EXCEPT ![k] = "closed"]
    /\ UNCHANGED <<queue, closed, caller, worker, offered, accepted, done>>

Next ==
    \/ \E c \in Callers :
        \/ Check(c) \/ Send(c) \/ GiveUp(c) \/ Panic(c) \/ PreCheck(c) \/ Cancel(c)
        \/ \E w \in Workers : Hand(c, w)
        \/ \E kind \in Kinds : Enter(c, kind)
    \/ \E w \in Workers : Take(w) \/ Leave(w) \/ \E panics \in BOOLEAN : runJob(w, panics)
    \/ \E k \in Closers : Close(k) \/ Wait(k)

\* Goroutines go on and jobs end.  A blocked sender is served in its turn; nobody need call, cancel or close.
Fairness ==
    /\ \A c \in Callers :
        /\ WF_vars(Check(c)) /\ WF_vars(GiveUp(c)) /\ WF_vars(Panic(c)) /\ WF_vars(PreCheck(c))
        /\ SF_vars(Send(c) \/ \E w \in Workers : Hand(c, w))
    /\ \A w \in Workers : WF_vars(Take(w)) /\ WF_vars(Leave(w)) /\ WF_vars(\E panics \in BOOLEAN : runJob(w, panics))
    /\ \A k \in Closers : WF_vars(Wait(k))

Spec == Init /\ [][Next]_vars /\ Fairness

------------------------------------------------------------------------------
(* Properties *)

Running == {w \in Workers : worker[w] \in Jobs}

\* A job that was taken is in the queue, with a worker, or has run, and is in one place only: no job
\* is lost and none runs twice.
TakenOnce ==
    \A j \in accepted :
        \/ j \in done /\ (\A i \in DOMAIN queue : queue[i] # j) /\ \A w \in Workers : worker[w] # j
        \/ j \notin done /\ (\E i \in DOMAIN queue : queue[i] = j /\ \A m \in DOMAIN queue \ {i} : queue[m] # j)
                         /\ \A w \in Workers : worker[w] # j
        \/ j \notin done /\ (\A i \in DOMAIN queue : queue[i] # j)
                         /\ \E w \in Workers : worker[w] = j /\ \A v \in Workers \ {w} : worker[v] # j

\* When the Close that closed the pool returns, every job taken has run.
CloseDrains == (\E k \in Closers : closer[k] = "closed") => accepted \subseteq done

\* A job that was taken is in one place, runs once, and before the pool is closed.
JobsOnce == TypeOK /\ TakenOnce /\ CloseDrains

\* A call that is waiting for the pool gets an end, whoever closes the pool meanwhile and whichever jobs panic.
CallsEnd == \A c \in Callers : caller[c].pc \in {"send", "wait"} ~> caller[c].pc \notin {"send", "wait"}

\* A caller is told when the pool is closed.  (Not so: one that has read the flag panics.)
RefusedNotPanicked == \A c \in Callers : caller[c].pc # "panicked"

\* A pair of checks that comes back has run both.  (Not so: a part that was refused keeps its zero result.)
BothChecksRun ==
    [][\A c \in Callers : caller[c].pc = "wait" /\ caller'[c].pc = "outside" => ~caller[c].refused]_vars

=============================================================================
