---------------------------- MODULE TurnHistory ----------------------------
(***************************************************************************)
(* What a turn of the agent leaves in the history of its session, and what *)
(* of the history the next turn shows to the model.                        *)
(*                                                                         *)
(* streamEvents (a2ui/streamer.go) folds the events of a run into the text *)
(* of the last answer and the messages in between; makeOnAgentEvents       *)
(* (server/server.go) persists them.  compactHistory cuts the history down *)
(* to a window, to a budget of characters and to whole units of tool calls *)
(* with their results, without which the model's API refuses the request.  *)
(* The agent itself is external: it answers every call it makes, unless    *)
(* the run fails, is interrupted for an approval, or is cancelled.         *)
(***************************************************************************)
EXTENDS Integers, Sequences, FiniteSets, SequencesExt

CONSTANTS
    Channels,       \* "web" (chat and approve), "wecom" (processAgentMessage)
    Texts, NoText,  \* what the assistant says; NoText is the empty text
    Ids,            \* ids of tool calls; a run never uses one twice
    Sizes,          \* sizes of messages, in the unit of MaxChars
    MaxMessages, MaxChars, SummaryTrigger,      \* the limits of compactHistory
    MaxTurns, MaxEvents                         \* bounds: turns, and messages of a turn

\* Assumed by the modules that instantiate this one.
TurnHistoryAssumption ==
    /\ Channels \subseteq {"web", "wecom"} /\ NoText \notin Texts /\ Sizes \subseteq Nat \ {0}
    /\ IsFiniteSet(Ids)
    /\ MaxMessages \in Nat \ {0} /\ MaxChars \in Nat /\ SummaryTrigger >= MaxMessages
    /\ {MaxTurns, MaxEvents} \subseteq Nat

VARIABLES
    channel,        \* which entry the session belongs to
    history,        \* Session.messages
    phase,          \* "idle", "run", or "paused": an interrupt waits for its approval
    inter, last,    \* the run's messages so far, and the text of its last answer
    open,           \* calls not yet answered
    resumed,        \* the run continues an interrupted one
    asked,          \* the message of the customer, which wecom persists last
    turns,
    said            \* the answer the last finished turn gave

run  == <<inter, last, open, resumed, asked>>
vars == <<channel, history, phase, run, turns, said>>

Msg(role, text, calls, results, size) ==
    [role |-> role, text |-> text, calls |-> calls, results |-> results, size |-> size]

User(n)         == Msg("user", NoText, {}, {}, n)
Assistant(t, c) == Msg("assistant", t, c, {}, 1)
ToolResult(i, n) == Msg("tool", NoText, {}, {i}, n)
Summary         == Msg("system", NoText, {}, {}, 1)
Nobody          == Msg("none", NoText, {}, {}, 1)

TypeOK ==
    /\ channel \in Channels /\ phase \in {"idle", "run", "paused"}
    /\ \A m \in Range(history) \cup Range(inter) :
          m.role \in {"user", "assistant", "tool"} /\ m.calls \subseteq Ids /\ m.results \subseteq Ids
    /\ last \in Texts \cup {NoText} /\ open \subseteq Ids /\ resumed \in BOOLEAN /\ turns \in 0..MaxTurns

------------------------------------------------------------------------------
(* What the model is shown *)

\* Mutant: a unit at the end of the window is let through although some of its results are missing.
Closed_Open(s) == s.out

\* discardPending: what was kept of a unit goes when the unit breaks off.
Closed(s) == IF s.start = 0 THEN s.out ELSE SubSeq(s.out, 1, s.start - 1)

\* One message of sanitizeToolHistory.  start is where the open unit began in out, 0 for none.
Keep(s, m) ==
    IF m.calls # {} THEN
        [out |-> Append(Closed(s), m), pending |-> m.calls, start |-> Len(Closed(s)) + 1]
    ELSE IF m.results # {} THEN
        IF s.start = 0 THEN s
        ELSE LET left == s.pending \ m.results IN
             [out |-> Append(s.out, m), pending |-> left, start |-> IF left = {} THEN 0 ELSE s.start]
    ELSE [out |-> Append(Closed(s), m), pending |-> {}, start |-> 0]

SanitizeToolHistory(h) ==
    LET kept[n \in 0..Len(h)] ==
            IF n = 0 THEN [out |-> <<>>, pending |-> {}, start |-> 0] ELSE Keep(kept[n - 1], h[n])
    IN  Closed(kept[Len(h)])

\* The newest n messages.
Newest(h, n) == SubSeq(h, IF Len(h) > n THEN Len(h) - n + 1 ELSE 1, Len(h))

\* How many messages fit the budget, counted from the newest.
Fits(h) ==
    LET chars[k \in 0..Len(h)] == IF k = 0 THEN 0 ELSE chars[k - 1] + h[Len(h) - k + 1].size
    IN  CHOOSE n \in 0..Len(h) : chars[n] <= MaxChars /\ (n < Len(h) => chars[n + 1] > MaxChars)

\* Mutant: the budget is spent on the oldest messages.
TrimHistory_Oldest(h) ==
    SanitizeToolHistory(SubSeq(Newest(h, MaxMessages), 1, Fits(Newest(h, MaxMessages))))

TrimHistory(h) == SanitizeToolHistory(Newest(Newest(h, MaxMessages), Fits(Newest(h, MaxMessages))))

\* The summary keeps texts of the customer and the assistant and nothing else.
Summarized(h) == IF \E m \in Range(h) : m.role = "user" \/ m.text # NoText THEN <<Summary>> ELSE <<>>

CompactHistory(h) ==
    IF Len(h) <= SummaryTrigger THEN TrimHistory(h)
    ELSE Summarized(SubSeq(h, 1, Len(h) - MaxMessages)) \o TrimHistory(Newest(h, MaxMessages))

\* The messages of the request, without the date and the rules around them.
Prompt == IF channel = "web" THEN CompactHistory(history) ELSE Append(CompactHistory(history), asked)

------------------------------------------------------------------------------
(* A turn *)

Init ==
    /\ channel \in Channels
    /\ history = <<>> /\ phase = "idle" /\ turns = 0 /\ said = NoText
    /\ inter = <<>> /\ last = NoText /\ open = {} /\ resumed = FALSE /\ asked = Nobody

NewRun == phase' = "run" /\ inter' = <<>> /\ last' = NoText

\* GenInput persists the message before the run, processAgentMessage after it.
Ask(n) ==
    /\ phase \in {"idle", "paused"} /\ turns < MaxTurns /\ turns' = turns + 1
    /\ NewRun /\ open' = {} /\ resumed' = FALSE /\ asked' = User(n)
    /\ history' = IF channel = "web" THEN Append(history, User(n)) ELSE history
    /\ UNCHANGED <<channel, said>>

\* Input that is not trusted is answered without a run.
Reject(n, t) ==
    /\ channel = "wecom" /\ phase = "idle" /\ turns < MaxTurns /\ turns' = turns + 1
    /\ history' = history \o <<User(n), Assistant(t, {})>> /\ said' = t
    /\ UNCHANGED <<channel, phase, run>>

Room == phase = "run" /\ Len(inter) < MaxEvents

\* An answer without calls, ...
Speak(t) ==
    /\ Room /\ open = {}
    /\ last' = t /\ inter' = Append(inter, Assistant(t, {}))
    /\ UNCHANGED <<channel, history, phase, open, resumed, asked, turns, said>>

UsedIds == UNION {m.calls : m \in Range(history) \cup Range(inter)}

\* ... or with some; its text counts as an answer too.
CallTools(t, c) ==
    /\ Room /\ open = {} /\ c # {} /\ c \cap UsedIds = {}
    /\ last' = (IF t = NoText THEN last ELSE t) /\ inter' = Append(inter, Assistant(t, c)) /\ open' = c
    /\ UNCHANGED <<channel, history, phase, resumed, asked, turns, said>>

ToolAnswers(i, n) ==
    /\ Room /\ i \in open
    /\ inter' = Append(inter, ToolResult(i, n)) /\ open' = open \ {i}
    /\ UNCHANGED <<channel, history, phase, last, resumed, asked, turns, said>>

\* The messages at the places in S, one after the other.
Chosen(h, S) ==
    LET out[n \in 0..Len(h)] ==
            IF n = 0 THEN <<>> ELSE IF n \in S THEN Append(out[n - 1], h[n]) ELSE out[n - 1]
    IN  out[Len(h)]

\* Answers without calls are left out; the last of them is persisted by itself.
ShouldPersist(m) == m.role # "assistant" \/ m.calls # {}

\* Mutant: the answer is taken for persisted when it was said anywhere before.
AlreadyFinal_Anywhere(h) == \E m \in Range(h) : m.role = "assistant" /\ m.text = last

AlreadyFinal(h) == h # <<>> /\ Last(h).role = "assistant" /\ Last(h).text = last

Persisted ==
    LET h == history \o Chosen(inter, {i \in DOMAIN inter : ShouldPersist(inter[i])})
    IN IF last = NoText \/ AlreadyFinal(h) THEN h ELSE Append(h, Assistant(last, {}))

\* StreamContinue gives no messages back: a run that resumes persists its answer only.
PersistedAnswer == IF last = NoText \/ AlreadyFinal(history) THEN history ELSE Append(history, Assistant(last, {}))

Written == IF resumed THEN PersistedAnswer ELSE Persisted

Forget(o) == inter' = <<>> /\ last' = NoText /\ open' = o /\ resumed' = FALSE /\ asked' = Nobody

\* The events are over, or one of them is an error: what there is so far is persisted the same way.
Finish ==
    /\ channel = "web" /\ phase = "run"
    /\ history' = Written /\ said' = last
    /\ phase' = "idle" /\ Forget({})
    /\ UNCHANGED <<channel, turns>>

\* The answer of wecom: the last text of the run, or an apology.
Answer(apology) == IF last = NoText THEN apology ELSE last

\* wecom persists the question and the answer alone.
Reply(apology) ==
    /\ channel = "wecom" /\ phase = "run"
    /\ said' = Answer(apology)
    /\ history' = history \o <<asked, Assistant(said', {})>>
    /\ phase' = "idle" /\ Forget({})
    /\ UNCHANGED <<channel, turns>>

\* A tool wants an approval: the messages are persisted, with a call that has no result yet.
Interrupt ==
    /\ channel = "web" /\ phase = "run" /\ open # {}
    /\ history' = Written /\ said' = last /\ phase' = "paused" /\ Forget(open)
    /\ UNCHANGED <<channel, turns>>

Approve ==
    /\ phase = "paused" /\ turns < MaxTurns /\ turns' = turns + 1
    /\ NewRun /\ resumed' = TRUE
    /\ UNCHANGED <<channel, history, open, asked, said>>

\* A preemption or an abort: nothing of the run is persisted.
Cancel ==
    /\ channel = "web" /\ phase = "run" /\ phase' = "idle" /\ Forget({})
    /\ UNCHANGED <<channel, history, turns, said>>

Next ==
    \/ \E n \in Sizes : Ask(n) \/ (\E t \in Texts : Reject(n, t)) \/ (\E i \in Ids : ToolAnswers(i, n))
    \/ \E t \in Texts : Speak(t) \/ Reply(t)
    \/ \E t \in Texts \cup {NoText}, c \in SUBSET Ids : CallTools(t, c)
    \/ Finish \/ Interrupt \/ Approve \/ Cancel

Spec == Init /\ [][Next]_vars

------------------------------------------------------------------------------
(* Properties *)

\* What the API accepts: between a message with calls and the next message that is not a result
\* stand results for all of its calls, and there are no results elsewhere.
ResultsAfter(h, i) ==
    {j \in i+1..Len(h) : \A k \in i+1..j : h[k].results # {}}

WellFormed(h) ==
    /\ \A i \in DOMAIN h : h[i].calls \subseteq UNION {h[j].results : j \in ResultsAfter(h, i)}
    /\ \A j \in DOMAIN h : h[j].results # {} =>
          \E i \in 1..j-1 : j \in ResultsAfter(h, i) /\ h[j].results \subseteq h[i].calls

\* However a turn ended before, and wherever the window cuts, the model is never sent half a unit.
PromptWellFormed == WellFormed(Prompt)

\* The sanitised history by another definition: the messages without calls or results, and the units
\* whose calls are all answered, in their order.
Complete(h, i) == h[i].calls # {} /\ h[i].calls \subseteq UNION {h[j].results : j \in ResultsAfter(h, i)}

\* Results of a unit after its last call was answered belong to nothing.
Whole(h) ==
    LET InUnit(j) == \E i \in 1..j-1 : Complete(h, i) /\ j \in ResultsAfter(h, i)
    IN  Chosen(h, {i \in DOMAIN h : IF h[i].calls # {} THEN Complete(h, i)
                                    ELSE h[i].results # {} => InUnit(i)})

\* The sanitiser removes what cannot be sent and nothing else, from every window of the history.
SanitizeIsExact == \A n \in 0..Len(history) : SanitizeToolHistory(Newest(history, n)) = Whole(Newest(history, n))

\* The model is shown the message it is to answer, if that fits the budget at all.
QuestionShown ==
    phase = "run" /\ inter = <<>> /\ ~resumed /\ (channel = "web" => asked.size <= MaxChars) =>
        Prompt # <<>> /\ Last(Prompt) = asked

\* The answer the customer saw is in the history, as the last thing of its turn.
AnswerRemembered == phase = "idle" /\ said # NoText /\ turns > 0 =>
    \E i \in DOMAIN history : history[i].role = "assistant" /\ history[i].text = said
                              /\ \A j \in i+1..Len(history) : history[j].role = "user"

------------------------------------------------------------------------------
(* What comments in server.go say and the code does not keep; see the README. *)

\* "the latest six original messages" are preserved.
LatestPreserved == IsSuffix(Newest(history, MaxMessages), CompactHistory(history))

\* An answer "already stored with the intermediates" is not stored again.
AnswerStoredOnce ==
    \A i, j \in DOMAIN history :
        i < j /\ history[i].role = "assistant" /\ history[i].text # NoText /\ history[j] = Assistant(history[i].text, {})
            => \E k \in i..j : history[k].role = "user"

\* Tool calls and results are kept: once its turn is over, a call has its results in the history.
CallsKeepResults == phase = "idle" => WellFormed(history)
=============================================================================
