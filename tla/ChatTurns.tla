----------------------------- MODULE ChatTurns -----------------------------
(***************************************************************************)
(* One conversation of the web console (server/server.go): the HTTP        *)
(* handlers of chat, approve and abort, the turn loops that run the agent, *)
(* and the channels between them.                                          *)
(*                                                                         *)
(* sessionTurnState holds the loop and one generation of channels.  A new  *)
(* message replaces the channels and preempts the turn in progress, in two *)
(* steps; each turn picks up whatever channels it finds when its agent     *)
(* starts.  The loop itself is a library (eino): its queue, its preemption *)
(* and the context it cancels are modelled from how the server uses them.  *)
(***************************************************************************)
EXTENDS Integers, Sequences, FiniteSets, SequencesExt

CONSTANTS
    Chats,          \* chat requests; each stands for its message as well
    Approvals,      \* approve requests
    MaxLoops,       \* bound: loops ever made
    MaxAborts       \* bound: abort requests

ChatTurnsAssumption ==
    /\ IsFiniteSet(Chats) /\ IsFiniteSet(Approvals) /\ Chats \cap Approvals = {}
    /\ MaxLoops \in Nat /\ MaxAborts \in Nat

Handlers == Chats \cup Approvals
Loops  == 1..MaxLoops
MaxGen == 2 * Cardinality(Handlers)
Gens   == 1..MaxGen     \* generations of iterReady, iterDone and handlerDone; 0 is none

None == "none"

VARIABLES
    cur, gen,       \* sessionTurnState: its loop (0 is nil) and its channels
    made,           \* loops made
    loop,           \* the loops
    ready, done,    \* the channels of each generation, both with room for one
    closes,         \* how often each handlerDone was closed
    hand,           \* the handlers
    pending,        \* Session.pendingInterruptID is set
    owed,           \* interrupts raised less approvals that went ahead
    history,        \* Session.messages: [by, of]
    aborts,
    alone,          \* chats that met no other request and no turn still at work
    crossed         \* turns that took the result of another for their own

bridge == <<gen, ready, done, closes>>
talk   == <<pending, owed, history>>
vars   == <<cur, made, loop, bridge, hand, talk, aborts, alone, crossed>>

NewLoop == [state |-> "made", queue |-> <<>>, turn |-> None, stage |-> "idle", gen |-> 0,
            cancelled |-> FALSE, kept |-> TRUE]
NoLoop  == [NewLoop EXCEPT !.state = "none"]
Fresh   == [pc |-> "start", gen |-> 0, loop |-> 0, of |-> None]

Results == [of : Handlers, how : {"answer", "interrupt", "error"}]

TypeOK ==
    /\ cur \in 0..MaxLoops /\ gen \in 0..MaxGen /\ made \in 0..MaxLoops
    /\ \A l \in Loops : /\ loop[l].state \in {"none", "made", "live", "dead"}
                        /\ loop[l].stage \in {"idle", "run", "offer", "wait"}
                        /\ loop[l].turn \in Handlers \cup {None} /\ loop[l].gen \in 0..MaxGen
    /\ ready \in [Gens -> Handlers \cup {None}] /\ done \in [Gens -> Results \cup {[of |-> None]}]
    /\ \A h \in Handlers : hand[h].pc \in
          {"start", "push", "dead", "begin", "wait", "stream", "stalled", "clear", "resume", "over"}
    /\ pending \in BOOLEAN /\ alone \subseteq Chats /\ crossed \subseteq Handlers

Empty == [of |-> None]

Init ==
    /\ cur = 0 /\ gen = 0 /\ made = 0
    /\ loop = [l \in Loops |-> NoLoop]
    /\ ready = [g \in Gens |-> None] /\ done = [g \in Gens |-> Empty] /\ closes = [g \in Gens |-> 0]
    /\ hand = [h \in Handlers |-> Fresh]
    /\ pending = FALSE /\ owed = 0 /\ history = <<>>
    /\ aborts = 0 /\ alone = {} /\ crossed = {}

Active(h) == hand[h].pc \notin {"start", "over"}

\* Requests under way, those that only a turn at work or waiting to be still stands for included.
Engaged == {h \in Handlers : Active(h)} \cup
    {h \in Handlers : \E l \in Loops : \/ loop[l].stage # "idle" /\ loop[l].turn = h
                                       \/ loop[l].state # "dead" /\ h \in ToSet(loop[l].queue)}

Company(h) == alone' = IF Engaged = {} THEN alone \cup ({h} \cap Chats) ELSE alone \ (Engaged \cup {h})

\* Mutant: the channels of the last turn serve the next one too.
NewChannels_Kept == gen' = IF gen = 0 THEN 1 ELSE gen

\* The next generation of channels, for which room is left.
NewChannels == gen < MaxGen /\ gen' = gen + 1

\* close(ts.handlerDone), in the critical section that replaces it.
Supersede == closes' = IF gen = 0 THEN closes ELSE [closes EXCEPT ![gen] = @ + 1]

------------------------------------------------------------------------------
(* Chat *)

\* The rate limiter or the check of the input refuses the request.
Refuse(c) ==
    /\ hand[c].pc = "start" /\ hand' = [hand EXCEPT ![c].pc = "over"]
    /\ UNCHANGED <<cur, made, loop, bridge, talk, aborts, alone, crossed>>

\* A loop exists: its channels are replaced, the handler that waits on them is told to leave.
Preempt(c) ==
    /\ hand[c].pc = "start" /\ cur # 0
    /\ Supersede /\ NewChannels
    /\ hand' = [hand EXCEPT ![c] = [@ EXCEPT !.pc = "push", !.gen = gen', !.loop = cur]]
    /\ Company(c)
    /\ UNCHANGED <<cur, made, loop, ready, done, talk, aborts, crossed>>

Launch(h, pc) ==
    /\ made < MaxLoops /\ made' = made + 1 /\ cur' = made' /\ NewChannels
    /\ hand' = [hand EXCEPT ![h] = [@ EXCEPT !.pc = pc, !.gen = gen', !.loop = made']]

Open(c) ==
    /\ hand[c].pc = "start" /\ cur = 0
    /\ Launch(c, "begin") /\ loop' = [loop EXCEPT ![made'] = NewLoop]
    /\ Company(c)
    /\ UNCHANGED <<ready, done, closes, talk, aborts, crossed>>

\* loop.Push with preemption, after the lock was given up.  A turn in progress is cancelled.
Push(c) ==
    /\ hand[c].pc = "push"
    /\ LET l == hand[c].loop IN
       IF loop[l].state = "dead"
       THEN loop' = loop /\ hand' = [hand EXCEPT ![c].pc = "dead"]
       ELSE /\ loop' = [loop EXCEPT ![l].queue = Append(@, c),
                                    ![l].cancelled = @ \/ loop[l].stage # "idle"]
            /\ hand' = [hand EXCEPT ![c].pc = "wait"]
    /\ UNCHANGED <<cur, made, bridge, talk, aborts, alone, crossed>>

\* The loop had stopped: another is made, whatever the session has got in the meantime.
Replace(c) ==
    /\ hand[c].pc = "dead"
    /\ Launch(c, "begin") /\ loop' = [loop EXCEPT ![made'] = NewLoop]
    /\ UNCHANGED <<ready, done, closes, talk, aborts, alone, crossed>>

\* loop.Push and loop.Run on the loop the handler made.
Begin(h) ==
    /\ hand[h].pc = "begin"
    /\ LET l == hand[h].loop IN
       loop' = [loop EXCEPT ![l].queue = Append(@, h),
                            ![l].state = IF @ = "made" THEN "live" ELSE @]
    /\ hand' = [hand EXCEPT ![h].pc = "wait"]
    /\ UNCHANGED <<cur, made, bridge, talk, aborts, alone, crossed>>

\* The handler takes the events of a turn from its own channel, ...
TakeEvents(h) ==
    /\ hand[h].pc = "wait" /\ ready[hand[h].gen] # None
    /\ hand' = [hand EXCEPT ![h].pc = "stream", ![h].of = ready[hand[h].gen]]
    /\ ready' = [ready EXCEPT ![hand[h].gen] = None]
    /\ UNCHANGED <<cur, gen, made, loop, done, closes, talk, aborts, alone, crossed>>

\* ... leaves when a newer request took over, ...
Bail(h) ==
    /\ hand[h].pc = "wait" /\ closes[hand[h].gen] > 0
    /\ hand' = [hand EXCEPT ![h].pc = "over"]
    /\ UNCHANGED <<cur, made, loop, bridge, talk, aborts, alone, crossed>>

\* Mutant: there is no limit to the wait.
GiveUp_Never(h) == FALSE /\ UNCHANGED vars

\* ... or gives up after a minute.
GiveUp(h) ==
    /\ hand[h].pc = "wait"
    /\ hand' = [hand EXCEPT ![h].pc = "over"]
    /\ UNCHANGED <<cur, made, loop, bridge, talk, aborts, alone, crossed>>

Streams(h) == hand[h].pc \in {"stream", "stalled"}

\* The provider of the model stalls.  The context of a web turn has no deadline (webSessionContext)
\* and the client of the provider no timeout (chatmodel): nothing here says when it goes on.
Stall(h) ==
    /\ hand[h].pc = "stream" /\ hand' = [hand EXCEPT ![h].pc = "stalled"]
    /\ UNCHANGED <<cur, made, loop, bridge, talk, aborts, alone, crossed>>

\* StreamToWriter ends with the events, or StreamContinue; the result goes to the done channel that
\* came with them.
Report(h) ==
    /\ Streams(h) /\ done[hand[h].gen] = Empty
    /\ \E how \in {"answer", "interrupt", "error"} :
          /\ (how = "interrupt" => Approvals # {})
          /\ done' = [done EXCEPT ![hand[h].gen] = [of |-> hand[h].of, how |-> how]]
    /\ hand' = [hand EXCEPT ![h].pc = "over"]
    /\ UNCHANGED <<cur, gen, made, loop, ready, closes, talk, aborts, alone, crossed>>

------------------------------------------------------------------------------
(* Approve and abort *)

\* The pending interrupt is read, ...
Approve(p) ==
    /\ hand[p].pc = "start"
    /\ hand' = [hand EXCEPT ![p].pc = IF pending THEN "clear" ELSE "over"]
    /\ Company(p)
    /\ UNCHANGED <<cur, made, loop, bridge, talk, aborts, crossed>>

\* ... and cleared in a step of its own.
ClearPending(p) ==
    /\ hand[p].pc = "clear" /\ pending' = FALSE /\ owed' = owed - 1
    /\ hand' = [hand EXCEPT ![p].pc = "resume"]
    /\ UNCHANGED <<cur, made, loop, bridge, history, aborts, alone, crossed>>

Stopped(l) == [loop EXCEPT ![l].state = "dead", ![l].cancelled = TRUE]

\* The old loop is stopped without waiting for it, and one that resumes takes its place.
Resume(p) ==
    /\ hand[p].pc = "resume"
    /\ Supersede /\ Launch(p, "begin")
    /\ loop' = [(IF cur = 0 THEN loop ELSE Stopped(cur)) EXCEPT ![made'] = NewLoop]
    /\ UNCHANGED <<ready, done, talk, aborts, alone, crossed>>

Abort ==
    /\ aborts < MaxAborts /\ aborts' = aborts + 1
    /\ cur # 0 /\ cur' = 0 /\ loop' = Stopped(cur)
    /\ UNCHANGED <<made, bridge, hand, talk, alone, crossed>>

------------------------------------------------------------------------------
(* The loop *)

Says(by, of) == [by |-> by, of |-> of]

\* GenInput takes the first message and writes it to the history; GenResume takes an approval.
GenInput(l) ==
    /\ loop[l].state = "live" /\ loop[l].stage = "idle" /\ loop[l].queue # <<>>
    /\ LET i == Head(loop[l].queue) IN
       /\ loop' = [loop EXCEPT ![l] = [@ EXCEPT !.queue = Tail(loop[l].queue), !.turn = i, !.stage = "run", !.cancelled = FALSE]]
       /\ history' = IF i \in Chats THEN Append(history, Says("user", i)) ELSE history
    /\ UNCHANGED <<cur, made, bridge, hand, pending, owed, aborts, alone, crossed>>

\* OnAgentEvents looks up the channels of the session.
FindChannels(l) ==
    /\ loop[l].stage = "run"
    /\ loop' = [loop EXCEPT ![l].stage = "offer", ![l].gen = gen]
    /\ UNCHANGED <<cur, made, bridge, hand, talk, aborts, alone, crossed>>

OfferEvents(l) ==
    /\ loop[l].stage = "offer" /\ ready[loop[l].gen] = None
    /\ ready' = [ready EXCEPT ![loop[l].gen] = loop[l].turn]
    /\ loop' = [loop EXCEPT ![l].stage = "wait"]
    /\ UNCHANGED <<cur, gen, made, done, closes, hand, talk, aborts, alone, crossed>>

\* What a turn writes to the history: the answer, if there is one and it is not the last entry already.
Persisted(r) ==
    IF r.how = "answer" /\ (history = <<>> \/ Last(history) # Says("agent", r.of))
    THEN Append(history, Says("agent", r.of)) ELSE history

\* The result comes back.  An interrupt or an error ends the loop.
TakeResult(l) ==
    /\ loop[l].stage = "wait" /\ done[loop[l].gen] # Empty
    /\ LET r == done[loop[l].gen] IN
       /\ history' = Persisted(r)
       /\ pending' = (pending \/ r.how = "interrupt")
       /\ owed' = IF r.how = "interrupt" THEN owed + 1 ELSE owed
       /\ crossed' = IF r.of # loop[l].turn THEN crossed \cup {loop[l].turn} ELSE crossed
       /\ loop' = [loop EXCEPT ![l] = [@ EXCEPT !.stage = "idle", !.turn = None,
                                                !.state = IF r.how = "answer" THEN loop[l].state ELSE "dead"]]
    /\ done' = [done EXCEPT ![loop[l].gen] = Empty]
    /\ UNCHANGED <<cur, gen, made, ready, closes, hand, aborts, alone>>

\* The context of the turn is cancelled, by a preemption or a stop.
Cancelled(l) ==
    /\ loop[l].cancelled /\ loop[l].stage \in {"run", "offer", "wait"}
    /\ loop' = [loop EXCEPT ![l] = [@ EXCEPT !.stage = "idle", !.turn = None, !.cancelled = FALSE]]
    /\ UNCHANGED <<cur, made, bridge, hand, talk, aborts, alone, crossed>>

\* Mutant: the goroutine does not look whose loop the session has.
Forget_Any(l) == cur' = 0

\* The goroutine of startLoopCleanup forgets the loop it waited for, and no other.
Forget(l) == cur' = IF cur = l THEN 0 ELSE cur

Cleanup(l) ==
    /\ loop[l].state = "dead" /\ loop[l].stage = "idle" /\ loop[l].kept
    /\ Forget(l)
    /\ loop' = [loop EXCEPT ![l].kept = FALSE]
    /\ UNCHANGED <<made, bridge, hand, talk, aborts, alone, crossed>>

ChatStep(c) == Refuse(c) \/ Preempt(c) \/ Open(c)
ApproveStep(p) == Approve(p) \/ ClearPending(p) \/ Resume(p)
HandlerStep(h) == TakeEvents(h) \/ Bail(h) \/ GiveUp(h) \/ Report(h) \/ Begin(h)
LoopStep(l) == GenInput(l) \/ FindChannels(l) \/ OfferEvents(l) \/ TakeResult(l) \/ Cleanup(l)

Next ==
    \/ \E c \in Chats : ChatStep(c) \/ Push(c) \/ Replace(c)
    \/ \E p \in Approvals : ApproveStep(p)
    \/ \E h \in Handlers : HandlerStep(h) \/ Stall(h)
    \/ \E l \in Loops : LoopStep(l) \/ Cancelled(l)
    \/ Abort

\* What the handler does of its own: all but to wait for a provider that stalls.
Proceeds(h) == hand[h].pc # "stalled" /\ HandlerStep(h)

\* Goroutines run; a request that has begun goes on, the timer of a minute goes off, and events that
\* come are passed on.  When a cancelled turn stops is up to the agent in it.
Fairness ==
    /\ \A c \in Chats : WF_vars(Push(c)) /\ WF_vars(Replace(c))
    /\ \A p \in Approvals : WF_vars(ClearPending(p)) /\ WF_vars(Resume(p))
    /\ \A h \in Handlers : WF_vars(Proceeds(h))
    /\ \A l \in Loops : WF_vars(LoopStep(l))

Spec == Init /\ [][Next]_vars /\ Fairness

------------------------------------------------------------------------------
(* Properties *)

\* A user who waits for each answer gets the answers to the questions asked, and the history pairs
\* them the same way.
AloneGetsOwn == \A c \in alone : (Streams(c) => hand[c].of = c) /\ c \notin crossed

\* No handlerDone is closed twice, which would panic.
ClosedOnce == \A g \in Gens : closes[g] <= 1

\* A handler that has streamed can hand over its result at once: the slot is free.
ResultFits == \A h \in Handlers : Streams(h) => done[hand[h].gen] = Empty

\* A request that was begun is answered, preempted or given up, unless its provider stalls: then
\* nothing ends it.
HandlersReturn == \A h \in Handlers : Active(h) ~> (hand[h].pc \in {"stalled", "over"})

\* A loop the session has is not forgotten while it can still serve.
LiveLoopKept == [][\A l \in Loops : cur = l /\ cur' = 0 => loop'[l].state = "dead"]_vars

------------------------------------------------------------------------------
(* What comments in server.go say and the code does not keep; see the README. *)

\* "the handler always sends results back to the correct OnAgentEvents invocation": a handler streams
\* its own turn, and a turn takes its own result.
OwnAnswers == \A h \in Handlers : (Streams(h) => hand[h].of = h) /\ h \notin crossed

\* "a double-approve returns 400": an interrupt is approved at most once.
ApprovedOnce == owed >= 0

\* "session history order is guaranteed correct": one loop at a time serves the session.
OneLoop == Cardinality({l \in Loops : loop[l].state = "live"}) <= 1
==============================================================================
