---------------------------- MODULE WecomClient ----------------------------
(***************************************************************************)
(* Sending through WeCom (wecom/client.go, and sendReply of                *)
(* server/server.go).                                                      *)
(*                                                                         *)
(* A client keeps one access token for everybody: whoever finds it too old *)
(* fetches another while the rest wait.  Replies of the agent go out one   *)
(* at a time with a pause before each; a reply WeCom refuses for its rate  *)
(* is sent again, up to three times.  Notifications of a leave go out on   *)
(* their own and are sent again after any failure (SendWithRetry).  A      *)
(* conversation a person has taken over refuses the agent's messages; the  *)
(* client may take it back.                                                *)
(* WeCom and the network are external: a request is served, refused, or    *)
(* lost before or after it was served.                                     *)
(***************************************************************************)
EXTENDS Integers, FiniteSets

CONSTANTS
    Replies,            \* replies of the agent, each sent by a goroutine of its own
    Notices,            \* notifications of a leave, which wait for nobody
    Parties,            \* which of them may have something to send in one execution
    AutoModes,          \* the values kfAutoTakeover may have
    Life, Margin,       \* how long a token is good for, and how much earlier it is replaced
    MaxAttempts,        \* 3
    MaxTime             \* bound: ticks of the clock

Senders == Replies \cup Notices

\* Assumed by the modules that instantiate this one.
WecomClientAssumption ==
    /\ IsFiniteSet(Senders) /\ Replies \cap Notices = {}
    /\ Parties \subseteq SUBSET Senders /\ AutoModes \subseteq BOOLEAN /\ MaxAttempts \in Nat \ {0} /\ MaxTime \in Nat
    \* A request ends within one tick, the client's timeout; the margin covers two of them, and a
    \* token lives longer than the margin (7200 s and 300 s).
    /\ Life \in Nat /\ Margin \in Nat /\ Margin >= 2 /\ Life > Margin

None == "none"

VARIABLES
    kfAutoTakeover, \* the deployment's setting
    now,
    tok,            \* the cached token: [from, exp], when it was issued and when it counts as old
    fetcher,        \* who holds accessTokenLock for writing
    rate,           \* who holds sendKfRateMu
    s,              \* the senders: [pc, attempt, from, since]
    human,          \* a person has taken the conversation over
    takeovers,      \* bound on how often that happens
    delivered,      \* how often the customer got the message
    stale           \* a token was used that WeCom no longer accepts

vars == <<kfAutoTakeover, now, tok, fetcher, rate, s, human, takeovers, delivered, stale>>

PCs == {"start", "pause", "token", "fetch", "send", "transfer", "resend", "backoff", "ok", "failed"}

TypeOK ==
    /\ now \in 0..MaxTime /\ fetcher \in Senders \cup {None} /\ rate \in Replies \cup {None}
    /\ tok.from \in -1..MaxTime /\ tok.exp \in -1..(MaxTime + Life)
    /\ \A x \in Senders : s[x].pc \in PCs /\ s[x].attempt \in 0..MaxAttempts
    /\ {kfAutoTakeover, human} \subseteq BOOLEAN /\ stale \in BOOLEAN /\ delivered \in [Senders -> Nat]

Init ==
    /\ kfAutoTakeover \in AutoModes
    /\ now = 0 /\ tok = [from |-> -1, exp |-> -1] /\ fetcher = None /\ rate = None
    /\ \E party \in Parties :
          s = [x \in Senders |-> [pc |-> IF x \in party THEN "start" ELSE "ok", attempt |-> 0, from |-> -1, since |-> 0, then |-> "send"]]
    /\ human = FALSE /\ takeovers = 0 /\ delivered = [x \in Senders |-> 0] /\ stale = FALSE

Finished(x) == s[x].pc \in {"ok", "failed"}

InFlight == {"fetch", "send", "resend", "transfer"}

\* since and from are kept while they matter: the one for a request under way, the other with a token.
Put(x, pc, then, from, attempt) ==
    s' = [s EXCEPT ![x] = [pc |-> pc, attempt |-> attempt, then |-> then, from |-> from,
                           since |-> IF pc \in InFlight THEN now ELSE 0]]

Go(x, pc) == Put(x, pc, "send", -1, s[x].attempt)

\* Mutant: the lock of the replies is kept when one has failed.
End_KeepsLock(x, pc) == Go(x, pc) /\ rate' = IF rate = x /\ pc = "ok" THEN None ELSE rate

\* Back to the caller, which gives up the lock of the replies if it holds it.
End(x, pc) == Go(x, pc) /\ rate' = IF rate = x THEN None ELSE rate

------------------------------------------------------------------------------
(* sendReply *)

\* sendKfRateMu.Lock()
Enter(x) ==
    /\ x \in Replies /\ s[x].pc = "start" /\ rate = None
    /\ rate' = x /\ Go(x, "pause")
    /\ UNCHANGED <<kfAutoTakeover, now, tok, fetcher, human, takeovers, delivered, stale>>

NextAttempt(x) == Put(x, "token", "send", -1, s[x].attempt + 1)

\* The pause of 200 ms is over, or the one before another attempt; a notification has none.
Attempt(x) ==
    /\ \/ s[x].pc \in {"pause", "backoff"}
       \/ x \in Notices /\ s[x].pc = "start"
    /\ NextAttempt(x)
    /\ UNCHANGED <<kfAutoTakeover, now, tok, fetcher, rate, human, takeovers, delivered, stale>>

\* Mutant: whatever failed is sent again.
Retries_Any(x, limited) == TRUE

\* For sendReply only a refusal for the rate is worth another attempt; SendWithRetry asks nothing.
Retries(x, limited) == limited \/ x \in Notices

\* An attempt failed.  After the last one the loop pauses once more and reports the failure.
Fail(x, limited) ==
    IF Retries(x, limited) /\ s[x].attempt < MaxAttempts
    THEN Go(x, "backoff") /\ rate' = rate
    ELSE End(x, "failed")

------------------------------------------------------------------------------
(* GetAccessToken *)

\* Mutant: the margin was forgotten.
Expiry_Full(t) == t + Life

Expiry(t) == t + Life - Margin

Fresh == tok.from >= 0 /\ now < tok.exp

\* Both looks at the cache, the second of them with the lock.
UseToken(x) ==
    /\ s[x].pc = "token" /\ fetcher = None /\ Fresh
    /\ Put(x, s[x].then, s[x].then, tok.from, s[x].attempt)
    /\ UNCHANGED <<kfAutoTakeover, now, tok, fetcher, rate, human, takeovers, delivered, stale>>

Fetch(x) ==
    /\ s[x].pc = "token" /\ fetcher = None /\ ~Fresh
    /\ fetcher' = x /\ Put(x, "fetch", s[x].then, now, s[x].attempt)
    /\ UNCHANGED <<kfAutoTakeover, now, tok, rate, human, takeovers, delivered, stale>>

\* The new token was issued some time after the request was made; its life counts from the answer.
Fetched(x) ==
    /\ s[x].pc = "fetch"
    /\ tok' = [from |-> s[x].from, exp |-> Expiry(now)] /\ fetcher' = None
    /\ Put(x, s[x].then, s[x].then, s[x].from, s[x].attempt)
    /\ UNCHANGED <<kfAutoTakeover, now, rate, human, takeovers, delivered, stale>>

FetchFails(x) ==
    /\ s[x].pc = "fetch" /\ fetcher' = None /\ Fail(x, FALSE)
    /\ UNCHANGED <<kfAutoTakeover, now, tok, human, takeovers, delivered, stale>>

------------------------------------------------------------------------------
(* SendKfTextMessage *)

\* Mutant: the client always takes a conversation back.
MayTakeOver_Always == TRUE

MayTakeOver == kfAutoTakeover

\* WeCom sees the request.
Served(x) == stale' = (stale \/ now >= s[x].from + Life)

Again(x, then) == Put(x, "token", then, -1, s[x].attempt) /\ rate' = rate

\* The message goes through.
Delivered(x) ==
    /\ s[x].pc \in {"send", "resend"} /\ ~human /\ Served(x)
    /\ delivered' = [delivered EXCEPT ![x] = @ + 1]
    /\ End(x, "ok")
    /\ UNCHANGED <<kfAutoTakeover, now, tok, fetcher, human, takeovers>>

\* The message goes through and the answer is lost.
AnswerLost(x) ==
    /\ s[x].pc \in {"send", "resend"} /\ ~human /\ Served(x)
    /\ delivered' = [delivered EXCEPT ![x] = @ + 1]
    /\ Fail(x, FALSE)
    /\ UNCHANGED <<kfAutoTakeover, now, tok, fetcher, human, takeovers>>

\* The request is lost, or refused for another reason.
Lost(x) ==
    /\ s[x].pc \in {"send", "resend", "transfer"} /\ Fail(x, FALSE)
    /\ UNCHANGED <<kfAutoTakeover, now, tok, fetcher, human, takeovers, delivered, stale>>

\* 95001 send msg count limit
Limited(x) ==
    /\ s[x].pc \in {"send", "resend"} /\ Served(x) /\ Fail(x, TRUE)
    /\ UNCHANGED <<kfAutoTakeover, now, tok, fetcher, human, takeovers, delivered>>

\* 95018: a person has the conversation.  One transfer, then one more try.
Refused(x) ==
    /\ s[x].pc \in {"send", "resend"} /\ human /\ Served(x)
    /\ IF MayTakeOver /\ s[x].pc = "send" THEN Again(x, "transfer") ELSE Fail(x, FALSE)
    /\ UNCHANGED <<kfAutoTakeover, now, tok, fetcher, human, takeovers, delivered>>

Transfer(x) ==
    /\ s[x].pc = "transfer" /\ Served(x)
    /\ human' = FALSE /\ Again(x, "resend")
    /\ UNCHANGED <<kfAutoTakeover, now, tok, fetcher, takeovers, delivered>>

------------------------------------------------------------------------------
(* The surroundings *)

\* A person takes the conversation over.
TakenOver ==
    /\ takeovers < 1 /\ takeovers' = takeovers + 1 /\ ~human /\ human' = TRUE
    /\ UNCHANGED <<kfAutoTakeover, now, tok, fetcher, rate, s, delivered, stale>>

\* Time passes, but no request outlives its timeout.
Tick ==
    /\ now < MaxTime /\ now' = now + 1
    /\ \A x \in Senders : s[x].pc \in InFlight => s[x].since = now
    /\ UNCHANGED <<kfAutoTakeover, tok, fetcher, rate, s, human, takeovers, delivered, stale>>

Step(x) ==
    \/ Enter(x) \/ Attempt(x) \/ UseToken(x) \/ Fetch(x) \/ Fetched(x) \/ FetchFails(x)
    \/ Delivered(x) \/ AnswerLost(x) \/ Lost(x) \/ Limited(x) \/ Refused(x) \/ Transfer(x)

Next == (\E x \in Senders : Step(x)) \/ TakenOver \/ Tick

\* Goroutines run and requests end; a mutex is granted to somebody who waits for it, and to
\* everybody who keeps waiting.
Fairness == \A x \in Senders : WF_vars(Step(x)) /\ SF_vars(Enter(x)) /\ SF_vars(UseToken(x) \/ Fetch(x))

Spec == Init /\ [][Next]_vars /\ Fairness

------------------------------------------------------------------------------
(* Properties *)

\* A token is never used after WeCom stopped accepting it: the margin covers the time a request may
\* take to fetch it and the time the next one may take to use it.
TokenAccepted == ~stale

\* However often it is tried, the customer gets a reply at most once.
RepliedOnce == \A x \in Replies : delivered[x] <= 1

\* A conversation a person has taken over stays with that person, unless the deployment said otherwise.
MayTakeAway == human => human' \/ kfAutoTakeover

PersonKeeps == [][MayTakeAway]_vars

\* Every message is sent or given up, whatever locks are on its way.
EverySendEnds == \A x \in Senders : <>Finished(x)

------------------------------------------------------------------------------
(* What comments say and the code does not keep; see the README. *)

\* A notification reaches the customer once.
NotifiedOnce == \A x \in Notices : delivered[x] <= 1

\* The pause is for "the whole sending path of the customer service": one request at a time.
OneAtATime == \A x, y \in Senders : x # y => ~(s[x].pc \in {"send", "resend"} /\ s[y].pc \in {"send", "resend"})
=============================================================================
