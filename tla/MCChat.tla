----------------------------------- MODULE MCChat ---------------------------
(***************************************************************************)
(* Answers on their way, for TLC: the requests and loops of the web chat   *)
(* (ChatTurns) and the messages to WeCom (WecomClient).  They share no     *)
(* state: a behaviour is about the one or the other, whose variables alone *)
(* have a value.                                                           *)
(***************************************************************************)
EXTENDS Integers, FiniteSets, Sequences, TLC

CONSTANTS
    Chats, Approvals, MaxLoops, MaxAborts,    \* of ChatTurns
    Replies, Notices, Parties, AutoModes, Life, Margin, clientMaxAttempts, MaxTime    \* of WecomClient

VARIABLES
    part,   \* the component this behaviour is about
    cur, gen, loopsMade, loop, ready, done, closes, hand, pending, owed, history, aborts, alone,
    crossed,    \* of ChatTurns
    kfAutoTakeover, now, tok, fetcher, rate, s, human, takeovers, delivered, stale    \* of WecomClient

Turns == INSTANCE ChatTurns WITH made <- loopsMade
Client == INSTANCE WecomClient WITH MaxAttempts <- clientMaxAttempts

ASSUME TurnsAssumption == Turns!ChatTurnsAssumption
ASSUME ClientAssumption == Client!WecomClientAssumption

Off == "off"

TurnsVars ==
    <<cur, gen, loopsMade, loop, ready, done, closes, hand, pending, owed, history, aborts, alone, crossed>>
TurnsOff ==
    /\ cur = Off /\ gen = Off /\ loopsMade = Off /\ loop = Off /\ ready = Off /\ done = Off
    /\ closes = Off /\ hand = Off /\ pending = Off /\ owed = Off /\ history = Off
    /\ aborts = Off /\ alone = Off /\ crossed = Off

ClientVars ==
    <<kfAutoTakeover, now, tok, fetcher, rate, s, human, takeovers, delivered, stale>>
ClientOff ==
    /\ kfAutoTakeover = Off /\ now = Off /\ tok = Off /\ fetcher = Off /\ rate = Off /\ s = Off
    /\ human = Off /\ takeovers = Off /\ delivered = Off /\ stale = Off

\* The steps the two are fair to.  Weak fairness to all those of a module together is less
\* than its own, which is to each of them and, in WecomClient, strong for the locks.
MovesOn ==
    /\ part = "turns"
    /\ \/ \E c \in Chats : Turns!Push(c) \/ Turns!Replace(c)
       \/ \E p \in Approvals : Turns!ClearPending(p) \/ Turns!Resume(p)
       \/ \E h \in Turns!Handlers : Turns!Proceeds(h)
       \/ \E l \in Turns!Loops : Turns!LoopStep(l)
    /\ UNCHANGED <<part, ClientVars>>

SendsGoOn ==
    /\ part = "client"
    /\ \E x \in Client!Senders : Client!Step(x)
    /\ UNCHANGED <<part, TurnsVars>>

PartInit ==
    \/ part = "turns" /\ Turns!Init /\ ClientOff
    \/ part = "client" /\ Client!Init /\ TurnsOff

PartNext ==
    \/ part = "turns" /\ Turns!Next /\ UNCHANGED <<part, ClientVars>>
    \/ part = "client" /\ Client!Next /\ UNCHANGED <<part, TurnsVars>>

allVars == <<part, TurnsVars, ClientVars>>

PartSpec == PartInit /\ [][PartNext]_allVars /\ WF_allVars(MovesOn) /\ WF_allVars(SendsGoOn)

------------------------------------------------------------------------------

CONSTANTS q1, q2, p1, m1, m2, n1

OnePair == {{m1, m2}, {m1, n1}}

------------------------------------------------------------------------------
\* The web chat: a user who waits for each answer gets the answers to the questions asked; a channel
\* is closed once; and a handler never waits to hand over what it has streamed.  WeCom: a token is
\* used only while it is accepted, and a customer gets a reply at most once.
AnswersKeepApart ==
    /\ part = "turns" => Turns!TypeOK /\ Turns!AloneGetsOwn /\ Turns!ClosedOnce /\ Turns!ResultFits
    /\ part = "client" => Client!TypeOK /\ Client!TokenAccepted /\ Client!RepliedOnce

\* A request that was begun is answered, preempted or given up, whatever dies or is aborted around it,
\* or its provider stalls while it answers; and every message to WeCom is sent or given up, whatever
\* locks are on its way.
AnswersEnd ==
    /\ \A h \in Turns!Handlers :
          (part = "turns" /\ Turns!Active(h)) ~> (part = "turns" /\ hand[h].pc \in {"stalled", "over"})
    /\ (part = "client") ~> (part = "client" /\ \A x \in Client!Senders : Client!Finished(x))

\* A person keeps the conversation taken over, unless the deployment said otherwise.
PersonKeeps == [][part = "client" => Client!MayTakeAway]_allVars
=============================================================================
