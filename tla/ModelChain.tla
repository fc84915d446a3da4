----------------------------- MODULE ModelChain -----------------------------
(***************************************************************************)
(* The chain of model providers and the turn of the agent that uses it     *)
(* (chatmodel/fallback.go, usage.go, degradation_alert.go, stub.go,        *)
(* helpers/retry.go, helpers/middleware.go, internal/agent/agent.go).      *)
(*                                                                         *)
(* At start the first provider of the chain whose client can be built is   *)
(* taken, the stub if there is none.  A call of the model is repeated a    *)
(* few times on the same provider and then goes to the others; every       *)
(* answer and error is counted in a window, which raises and withdraws an  *)
(* alert.  A tool the model asks for is run again after a passing error if *)
(* it only reads.                                                          *)
(* That a call is repeated and handed on as configured, starts from the    *)
(* provider in use, ends with the error of a client that cannot be built,  *)
(* and reports each attempt once is the agent library's part.              *)
(***************************************************************************)
EXTENDS Integers, Sequences, FiniteSets, SequencesExt, FiniteSetsExt

CONSTANTS
    Providers,
    Lists,                 \* the values of OPENBOOK_LLM_CHAIN considered: sequences of names
    maxModelRetriesPerProvider,
    MaxIteration,          \* model calls in a turn
    degradationWindow, degradationMinCalls, degradationAlertDelay,
    AlertShare,            \* the alert is raised when more than one call in AlertShare is a switch
    MaxTime, MaxRecords    \* bounds: ticks of the clock, counted calls

\* Assumed by the modules that instantiate this one.
ModelChainAssumption ==
    /\ IsFiniteSet(Providers) /\ (\A l \in Lists : l \in Seq(ToSet(l)))
    /\ {AlertShare, MaxIteration} \subseteq Nat \ {0}
    /\ {maxModelRetriesPerProvider, degradationWindow, degradationMinCalls,
        degradationAlertDelay, MaxTime, MaxRecords} \subseteq Nat

Stub == "stub"
None == "none"

\* An error of a provider: one both lists of markers know, one that only the list which ignores the
\* case of letters knows, and the rest (a wrong key, an exhausted quota, a provider silent too long).
Errors == {"passing", "passing in other letters", "lasting"}

VARIABLES
    chain, buildable,   \* the environment: the chain, and the providers whose client can be built
    used,               \* the provider in use from the start on
    turn,               \* the turn of the agent
    now, monitor,
    notices,            \* messages of the monitor on their way
    heard               \* the last message that has arrived

vars == <<chain, buildable, used, turn, now, monitor, notices, heard>>

NoTurn == [phase |-> "idle", asked |-> <<>>, failovers |-> 0, err |-> None, left |-> 0,
           tool |-> None, runs |-> 0, cancelled |-> FALSE]

Kinds == {"read", "write"}

TypeOK ==
    /\ chain \in Seq(Providers) /\ buildable \subseteq Providers /\ used \in Providers \cup {Stub, None}
    /\ turn.phase \in {"idle", "model", "tool", "answered", "failed"} /\ turn.asked \in Seq(Providers \cup {Stub})
    /\ turn.failovers \in 0..Len(chain) /\ turn.err \in Errors \cup {None} /\ turn.left \in 0..MaxIteration
    /\ turn.tool \in Kinds \cup {None} /\ turn.runs \in 0..2 /\ turn.cancelled \in BOOLEAN
    /\ now \in 0..MaxTime /\ monitor.active \in BOOLEAN /\ monitor.lastAlertSent \in 0..MaxTime
    /\ \A f \in {"attempts", "fallbacks"} : monitor[f] \in Seq(0..MaxTime)
    /\ monitor.said \in Seq({"alert", "recovered"} \X (0..MaxTime))

\* The elements of a list that are in S, one after the other.
Chosen(list, S) ==
    LET out[n \in 0..Len(list)] ==
            IF n = 0 THEN <<>> ELSE IF list[n] \in S THEN Append(out[n - 1], list[n]) ELSE out[n - 1]
    IN  out[Len(list)]

\* Names nobody knows are left out, which may leave no provider.
parseProviderList(names) == Chosen(names, Providers)

Init ==
    /\ chain \in {parseProviderList(names) : names \in Lists} /\ buildable \in SUBSET Providers /\ used = None /\ turn = NoTurn /\ now = 0
    /\ monitor = [attempts |-> <<>>, fallbacks |-> <<>>, active |-> FALSE, lastAlertSent |-> 0,
                  said |-> <<>>, records |-> 0]
    /\ notices = {} /\ heard = None

------------------------------------------------------------------------------
(* Start: the first provider that can be built, or the stub. *)

\* A client is made from the settings of the process, which do not change.
buildProvider(p) == p \in buildable

NewModelWithFallback ==
    LET able == {i \in DOMAIN chain : buildProvider(chain[i])}
    IN  IF able = {} THEN Stub ELSE chain[CHOOSE i \in able : \A j \in able : i <= j]

\* The tools and the model are put together once, with the provider found now.
BuildTyped ==
    /\ used = None /\ used' = NewModelWithFallback
    /\ UNCHANGED <<chain, buildable, turn, now, monitor, notices, heard>>

remaining == Chosen(chain, Providers \ {used})

------------------------------------------------------------------------------
(* The monitor of switches. *)

\* The events are in the order of time.
pruneTimes(events) ==
    LET fresh == {i \in DOMAIN events : events[i] >= now - degradationWindow}
    IN  IF fresh = {} THEN <<>> ELSE SubSeq(events, Min(fresh), Len(events))

High(m) ==
    /\ Len(m.attempts) >= degradationMinCalls
    /\ AlertShare * Len(m.fallbacks) > Len(m.attempts)

CountedNow(m, fallback) ==
    [m EXCEPT !.records = @ + 1, !.attempts = Append(pruneTimes(@), now),
              !.fallbacks = IF fallback THEN Append(pruneTimes(@), now) ELSE pruneTimes(@)]

MustAlert(m) == High(m) /\ (~m.active \/ now - m.lastAlertSent >= degradationAlertDelay)

\* Mutant: too few calls do not withdraw the alert.
MustRecover_Busy(m) == m.active /\ ~High(m) /\ Len(m.attempts) >= degradationMinCalls

MustRecover(m) == m.active /\ ~High(m)

\* Mutant: the time of an alert is not kept.
Alerted_NoTime(m) == [m EXCEPT !.active = TRUE, !.said = Append(@, <<"alert", now>>)]

Alerted(m) == [m EXCEPT !.active = TRUE, !.lastAlertSent = now, !.said = Append(@, <<"alert", now>>)]

record(m, fallback) ==
    LET counted == CountedNow(m, fallback)
    IN  IF MustAlert(counted) THEN Alerted(counted)
        ELSE IF MustRecover(counted)
        THEN [counted EXCEPT !.active = FALSE, !.said = Append(@, <<"recovered", now>>)]
        ELSE counted

RecordAttempt(m) == record(m, FALSE)
RecordFallback(m) == record(m, TRUE)

\* What record() decides is sent by a goroutine of its own.
Recorded(m) ==
    /\ monitor' = m
    /\ notices' = notices \cup {i \in DOMAIN m.said : i > Len(monitor.said)}
    /\ UNCHANGED heard

send(i) ==
    /\ i \in notices /\ notices' = notices \ {i} /\ heard' = monitor.said[i][1]
    /\ UNCHANGED <<chain, buildable, used, turn, now, monitor>>

------------------------------------------------------------------------------
(* A call of the model. *)

IsRetryAble(err) == err = "passing"

isTransientProviderError(err) == err \in {"passing", "passing in other letters"}

Tries(p) == Cardinality({i \in DOMAIN turn.asked : turn.asked[i] = p})

Current == Last(turn.asked)

MayRetry(err) == IsRetryAble(err) /\ Tries(Current) <= maxModelRetriesPerProvider

\* Mutant: the last provider of the chain is never asked.
ShouldFailover_OneFewer(err) ==
    used # Stub /\ ~turn.cancelled /\ isTransientProviderError(err) /\ turn.failovers + 1 < Len(remaining)

ShouldFailover(err) ==
    used # Stub /\ ~turn.cancelled /\ isTransientProviderError(err) /\ turn.failovers < Len(remaining)

Asked(t) == [t EXCEPT !.phase = "model", !.asked = <<used>>, !.failovers = 0, !.err = None,
                      !.tool = None, !.runs = 0, !.left = @ - 1]

Begin ==
    /\ used # None /\ turn.phase \in {"idle", "answered", "failed"}
    /\ turn' = Asked([NoTurn EXCEPT !.left = MaxIteration])
    /\ UNCHANGED <<chain, buildable, used, now, monitor, notices, heard>>

\* The model answers, or asks for a tool.
Generate(ask) ==
    /\ turn.phase = "model" /\ ~turn.cancelled /\ Current # Stub
    /\ turn' = IF ask = None THEN [turn EXCEPT !.phase = "answered"] ELSE [turn EXCEPT !.phase = "tool", !.tool = ask]
    /\ Recorded(RecordAttempt(monitor))
    /\ UNCHANGED <<chain, buildable, used, now>>

\* The stub calls nobody and asks for no tool.
GenerateStub ==
    /\ turn.phase = "model" /\ Current = Stub /\ turn' = [turn EXCEPT !.phase = "answered"]
    /\ UNCHANGED <<chain, buildable, used, now, monitor, notices, heard>>

\* The provider fails: it is asked again, or the next one is, or the call fails.
Fail(err) ==
    /\ turn.phase = "model" /\ Current # Stub /\ (turn.cancelled => err = "lasting")
    /\ LET next == remaining[turn.failovers + 1]
       IN  CASE MayRetry(err) ->
                    /\ turn' = [turn EXCEPT !.asked = Append(@, Current)] /\ Recorded(RecordAttempt(monitor))
             [] ~MayRetry(err) /\ ShouldFailover(err) /\ buildProvider(next) ->
                    /\ turn' = [turn EXCEPT !.asked = Append(@, next), !.failovers = @ + 1]
                    /\ Recorded(RecordFallback(RecordAttempt(monitor)))
             [] OTHER ->
                    /\ turn' = [turn EXCEPT !.phase = "failed", !.err = err] /\ Recorded(RecordAttempt(monitor))
    /\ UNCHANGED <<chain, buildable, used, now>>

------------------------------------------------------------------------------
(* A tool. *)

\* Mutant: a writing tool has the policy of a reading one.
MaxAttempts_Alike(kind) == 2

MaxAttempts(kind) == IF kind = "read" THEN 2 ELSE 1

\* One run of the tool.  Its effect may have happened whatever it returns; an error that stays becomes
\* a text for the model.
Run(outcome) ==
    /\ turn.phase = "tool"
    /\ LET again == outcome = "passing" /\ turn.runs + 1 < MaxAttempts(turn.tool) /\ ~turn.cancelled
           ran == [turn EXCEPT !.runs = @ + 1]
       IN  turn' = IF again THEN ran
                   ELSE IF turn.left = 0 THEN [ran EXCEPT !.phase = "failed"] ELSE Asked(ran)
    /\ UNCHANGED <<chain, buildable, used, now, monitor, notices, heard>>

Cancel ==
    /\ turn.phase \in {"model", "tool"} /\ ~turn.cancelled /\ turn' = [turn EXCEPT !.cancelled = TRUE]
    /\ UNCHANGED <<chain, buildable, used, now, monitor, notices, heard>>

Tick ==
    /\ now < MaxTime /\ now' = now + 1
    /\ UNCHANGED <<chain, buildable, used, turn, monitor, notices, heard>>

Next ==
    \/ BuildTyped \/ Begin \/ GenerateStub \/ Cancel \/ Tick
    \/ \E ask \in Kinds \cup {None} : monitor.records < MaxRecords /\ Generate(ask)
    \/ \E err \in Errors : monitor.records < MaxRecords /\ Fail(err)
    \/ \E outcome \in {"result", "passing", "lasting"} : Run(outcome)
    \/ \E i \in notices : send(i)

Spec == Init /\ [][Next]_vars

------------------------------------------------------------------------------
(* Properties *)

\* A call that fails although each error could pass has asked every provider of the chain, when the
\* clients of all of them can be built and nobody cancelled it.
FailsOnlyWhenAllTried ==
    turn.phase = "failed" /\ isTransientProviderError(turn.err) /\ ~turn.cancelled /\ ToSet(chain) \subseteq buildable
        => ToSet(turn.asked) = ToSet(chain)

\* The same when only one of the clients can be built besides the one in use.  (Not so: a provider the
\* start has passed over comes first among the others and ends the search.)
FailoverReachesAll ==
    turn.phase = "failed" /\ isTransientProviderError(turn.err) /\ ~turn.cancelled
        => ToSet(turn.asked) = ToSet(chain) \cap buildable

\* One request of the model for a tool that writes runs it at most once, whatever the error.
WritesOnce == turn.tool = "write" => turn.runs <= 1

\* Two alerts with no recovery between them are the delay apart.
AlertsApart ==
    \A i \in 1..Len(monitor.said) - 1 :
        monitor.said[i][1] = "alert" /\ monitor.said[i + 1][1] = "alert"
            => monitor.said[i + 1][2] - monitor.said[i][2] >= degradationAlertDelay

\* The alert stands exactly while the last calls counted were above the share.
AlertTellsShare == monitor.active <=> High(monitor)

\* What was heard last is so.  (Not so: the message of the recovery may overtake the alert's.)
HeardIsTrue == notices = {} /\ heard # None => (heard = "alert") = monitor.active

=============================================================================
