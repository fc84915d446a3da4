---------------------------------- MODULE MCTurns ---------------------------
(***************************************************************************)
(* What has to come to an end in the server, for TLC: the batches of the   *)
(* customer-service channel (KfDebounce) and the jobs of the pool          *)
(* (WorkerPool).  They share no state: a behaviour is about the one or the *)
(* other, and what it is not about is as at first, when no step that       *)
(* either is fair to is possible.                                          *)
(***************************************************************************)
EXTENDS KfDebounce, TLC

\* of WorkerPool
CONSTANTS
    Callers, Workers, Closers, Kinds, queueSize, MaxJobs

VARIABLES
    part,   \* the component this behaviour is about
    poolQueue, closed, caller, worker, closer, offered, accepted, done    \* of WorkerPool

Pool == INSTANCE WorkerPool WITH
    queue <- poolQueue

ASSUME PoolAssumption == Pool!WorkerPoolAssumption

Off == "off"

\* Its invariants are checked by their own names: where it is not studied, it is as at first.
KfDebounceOff == Init

PoolVars == <<poolQueue, closed, caller, worker, closer, offered, accepted, done>>
PoolOff == Pool!Init

PartInit ==
    \/ part = "debounce" /\ Init /\ PoolOff
    \/ part = "pool" /\ Pool!Init /\ KfDebounceOff

PartNext ==
    \/ part = "debounce" /\ Next /\ UNCHANGED <<part, PoolVars>>
    \/ part = "pool" /\ Pool!Next /\ UNCHANGED <<part, vars>>

allVars == <<part, vars, PoolVars>>

PartSpec == PartInit /\ [][PartNext]_allVars /\ Fairness /\ Pool!Fairness

------------------------------------------------------------------------------

CONSTANTS m1, m2, m3, c1, c2, w1, w2, x1

------------------------------------------------------------------------------
\* A job that was taken is in one place, runs once, and before the pool is closed.
JobsOnce == Pool!JobsOnce

\* A call that waits for the pool gets an end, whoever closes the pool meanwhile and
\* whichever jobs panic.
CallsEnd == Pool!CallsEnd
=============================================================================
