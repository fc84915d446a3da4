---------------------------------- MODULE MCServer --------------------------
(***************************************************************************)
(* The way of a message through the server to the model, for TLC: the rate *)
(* limiter (RateLimiter), the screening of messages (MessageScreen), what  *)
(* the model is shown and what is remembered (TurnHistory), and the chain  *)
(* of models (ModelChain).                                                 *)
(* None shares state with another: a behaviour is about one of them, whose *)
(* variables alone have a value.                                           *)
(***************************************************************************)
EXTENDS Integers, FiniteSets, Sequences, TLC

\* of RateLimiter
CONSTANTS
    Requests, Keys, Cap, burst, globalBurst, MaxAsks, MaxTime, MaxBuckets

\* of ModelChain
CONSTANTS
    Providers, Lists, maxModelRetriesPerProvider, MaxIteration, degradationWindow,
    degradationMinCalls, degradationAlertDelay, AlertShare, chainMaxTime, MaxRecords

\* of MessageScreen
CONSTANTS
    Letters, small(_), Cats, Counted, Rank(_), Files, MaxText, LLMMinLength, Threshold, Checks,
    MaxChecks

\* of TurnHistory
CONSTANTS
    Channels, Texts, NoText, Ids, Sizes, MaxMessages, MaxChars, SummaryTrigger, MaxTurns,
    MaxEvents

VARIABLES
    part,   \* the component this behaviour is about
    now, asks, global, bucket, ll, evictedLL, found, due, over, forgotten, torn,   \* of RateLimiter
    chain, buildable, used, turn, chainNow, monitor, notices, heard,    \* of ModelChain
    words, trie, hasModel, check, metrics, asked, gate,    \* of MessageScreen
    channel, history, phase, inter, last, open, resumed, histAsked, turns, said    \* of TurnHistory

Limit == INSTANCE RateLimiter WITH
    held <- found
Chain == INSTANCE ModelChain WITH
    MaxTime <- chainMaxTime, now <- chainNow
Screen == INSTANCE MessageScreen
Hist == INSTANCE TurnHistory WITH
    asked <- histAsked

ASSUME LimitAssumed == Limit!RateLimiterAssumption
ASSUME ChainAssumed == Chain!ModelChainAssumption
ASSUME ScreenAssumed == Screen!MessageScreenAssumption
ASSUME HistAssumed == Hist!TurnHistoryAssumption

Off == "off"

LimitVars ==
    <<now, asks, global, bucket, ll, evictedLL, found, due, over, forgotten, torn>>
LimitOff ==
    /\ now = Off /\ asks = Off /\ global = Off /\ bucket = Off /\ ll = Off /\ evictedLL = Off
    /\ found = Off /\ due = Off /\ over = Off /\ forgotten = Off /\ torn = Off

ChainVars == <<chain, buildable, used, turn, chainNow, monitor, notices, heard>>
ChainOff ==
    /\ chain = Off /\ buildable = Off /\ used = Off /\ turn = Off /\ chainNow = Off
    /\ monitor = Off /\ notices = Off /\ heard = Off

ScreenVars == <<words, trie, hasModel, check, metrics, asked, gate>>
ScreenOff ==
    /\ words = Off /\ trie = Off /\ hasModel = Off /\ check = Off /\ metrics = Off
    /\ asked = Off /\ gate = Off

HistVars ==
    <<channel, history, phase, inter, last, open, resumed, histAsked, turns, said>>
HistOff ==
    /\ channel = Off /\ history = Off /\ phase = Off /\ inter = Off /\ last = Off /\ open = Off
    /\ resumed = Off /\ histAsked = Off /\ turns = Off /\ said = Off

PartInit ==
    \/ part = "limiter" /\ Limit!Init /\ ChainOff /\ ScreenOff /\ HistOff
    \/ part = "chain" /\ Chain!Init /\ LimitOff /\ ScreenOff /\ HistOff
    \/ part = "screen" /\ Screen!Init /\ LimitOff /\ ChainOff /\ HistOff
    \/ part = "history" /\ Hist!Init /\ LimitOff /\ ChainOff /\ ScreenOff

PartNext ==
    \/ part = "limiter" /\ Limit!Next /\ UNCHANGED <<part, ChainVars, ScreenVars, HistVars>>
    \/ part = "chain" /\ Chain!Next /\ UNCHANGED <<part, LimitVars, ScreenVars, HistVars>>
    \/ part = "screen" /\ Screen!Next /\ UNCHANGED <<part, LimitVars, ChainVars, HistVars>>
    \/ part = "history" /\ Hist!Next /\ UNCHANGED <<part, LimitVars, ChainVars, ScreenVars>>

allVars == <<part, LimitVars, ChainVars, ScreenVars, HistVars>>

PartSpec == PartInit /\ [][PartNext]_allVars

------------------------------------------------------------------------------

CONSTANTS g1, g2, k1, k2, k3, deepseek, openai, ark, other,
    A, B, i1, i2, none

TwoOrThree == {<<deepseek, openai, ark>>, <<other, openai, ark>>}

SmallOf(l) == IF l = "A" THEN "a" ELSE l
RankOf(cat) == CASE cat = "violence" -> 0 [] cat = "ad" -> 4 [] OTHER -> 6
Lexicons ==
    LET Of(v, a, g) == [c \in Cats |-> CASE c = "violence" -> v [] c = "ad" -> a [] OTHER -> g]
    IN  {Of({<<"a", "b">>}, {<<"a">>}, {<<"b", "b">>}), Of({<<"b">>}, {<<"a", "a">>, <<"b", "a">>}, {<<"a", "a", "b">>}),
         Of({}, {<<"A">>}, {<<"a", "b">>, <<"A", "b">>}), Of({<<"a">>}, {<<"a">>, <<"b">>}, {})}
DefaultThreshold == -2

\* The threshold and the filter share nothing: a behaviour looks at one of them.
Bounds == part = "screen" => gate = Screen!Untried \/ asked = 0

Symmetry == UNION {Permutations(S) : S \in {Texts, Ids}}

------------------------------------------------------------------------------
\* The limiter keeps its lists short, and gives nobody more by forgetting than it excuses.
LimitsKept == Limit!TypeOK /\ Limit!ListsBounded /\ Limit!WithinAllowance

\* The whole chain is asked before a call fails, a writing tool runs once a request, and the
\* alerts tell the share of the switches and keep apart.
ChainKept ==
    Chain!TypeOK /\ Chain!FailsOnlyWhenAllTried /\ Chain!WritesOnce /\ Chain!AlertsApart /\ Chain!AlertTellsShare

\* The filter finds exactly the words registered in small letters, the model only adds to it,
\* every message is counted once, and what is usual passes.
ScreenKept ==
    Screen!TypeOK /\ Screen!MatchIsExact /\ Screen!ModelOnlyAdds /\ Screen!EveryCheckCounted /\ Screen!UsualPasses

\* The prompt is well-formed, shows the question, and the history keeps the answer.
HistoryTells ==
    Hist!TypeOK /\ Hist!PromptWellFormed /\ Hist!SanitizeIsExact /\ Hist!QuestionShown /\ Hist!AnswerRemembered

\* What a message passes on its way to the model and back keeps each of these four promises.
WayKept ==
    /\ part = "limiter" => LimitsKept
    /\ part = "chain" => ChainKept
    /\ part = "screen" => ScreenKept
    /\ part = "history" => HistoryTells
=============================================================================
