---------------------------- MODULE RateLimiter ----------------------------
(***************************************************************************)
(* The rate limiter in front of the agent (server/ratelimit.go).           *)
(*                                                                         *)
(* A request takes a token of the global bucket and then one of its        *)
(* customer's.  The buckets of customers are kept in a list of bounded     *)
(* length; the one not used for longest is dropped, and a list of the same *)
(* length remembers the customers it happened to, who start again with an  *)
(* empty bucket.  A request finds its bucket with the lock and takes the   *)
(* token without it.                                                       *)
(***************************************************************************)
EXTENDS Integers, Sequences, FiniteSets, SequencesExt

CONSTANTS
    Requests,           \* goroutines, each asking a bounded number of times
    Keys,               \* customers within their shop or channel
    Cap,                \* the length of both lists
    burst, globalBurst, \* what the buckets hold; one token comes back in a tick, globalBurst in the global one
    MaxAsks, MaxTime,   \* bounds: questions altogether, ticks of the clock
    MaxBuckets          \* bound: buckets ever made

\* Assumed by the modules that instantiate this one.
RateLimiterAssumption ==
    /\ IsFiniteSet(Requests) /\ IsFiniteSet(Keys)
    /\ {Cap, burst, globalBurst} \subseteq Nat \ {0} /\ {MaxAsks, MaxTime, MaxBuckets} \subseteq Nat

None == 0

VARIABLES
    now, asks,
    global,     \* tokens of the global bucket
    bucket,     \* the buckets made so far: [key, tokens]
    ll,         \* the live buckets, the one used last in front
    evictedLL,  \* the customers remembered
    held,       \* the bucket a request has found and not asked yet
    due,        \* what each customer would have left, had its bucket never been dropped
    over,       \* customers let through with nothing left
    forgotten,  \* customers whose mark was dropped
    torn        \* customers whose bucket was dropped while a request held it

vars == <<now, asks, global, bucket, ll, evictedLL, held, due, over, forgotten, torn>>

TypeOK ==
    /\ now \in 0..MaxTime /\ asks \in 0..MaxAsks /\ global \in 0..globalBurst
    /\ bucket \in Seq([key : Keys, tokens : 0..burst]) /\ Len(bucket) <= MaxBuckets
    /\ ll \in Seq(DOMAIN bucket) /\ evictedLL \in Seq(Keys)
    /\ held \in [Requests -> {None} \cup DOMAIN bucket] /\ due \in [Keys -> 0..burst]
    /\ over \cup forgotten \cup torn \subseteq Keys

Init ==
    /\ now = 0 /\ asks = 0 /\ global = globalBurst
    /\ bucket = <<>> /\ ll = <<>> /\ evictedLL = <<>> /\ held = [r \in Requests |-> None]
    /\ due = [k \in Keys |-> burst] /\ over = {} /\ forgotten = {} /\ torn = {}

------------------------------------------------------------------------------
(* limiterFor *)

InFront(q, x) == <<x>> \o RemoveFirst(q, x)

Live == {bucket[b].key : b \in ToSet(ll)}

Find(k) == CHOOSE b \in ToSet(ll) : bucket[b].key = k

\* Mutant: whoever comes back starts with a full bucket.
Cold_Never(k) == FALSE

Cold(k) == k \in ToSet(evictedLL)

NewCustomerLimiter(k) == [key |-> k, tokens |-> IF Cold(k) THEN 0 ELSE burst]

\* Mutant: the marks are never dropped.
Shorten_Never(q) == q

\* A list that is full loses its last element.
Shorten(q) == IF Len(q) >= Cap THEN Front(q) ELSE q

RememberEvicted(q, k) == IF k \in ToSet(q) THEN InFront(q, k) ELSE <<k>> \o Shorten(q)

Touch(r, k) ==
    /\ k \in Live /\ ll' = InFront(ll, Find(k)) /\ held' = [held EXCEPT ![r] = Find(k)]
    /\ UNCHANGED <<bucket, evictedLL, forgotten, torn>>

\* The mark is taken before the list makes room, and the room may cost another customer's mark.
Insert(r, k) ==
    LET marks == RemoveFirst(evictedLL, k) IN
    /\ k \notin Live /\ Len(bucket) < MaxBuckets
    /\ bucket' = Append(bucket, NewCustomerLimiter(k))
    /\ held' = [held EXCEPT ![r] = Len(bucket) + 1]
    /\ IF Len(ll) >= Cap
       THEN LET gone == bucket[Last(ll)].key IN
            /\ ll' = <<Len(bucket) + 1>> \o Front(ll)
            /\ evictedLL' = RememberEvicted(marks, gone)
            /\ forgotten' = forgotten \cup (ToSet(marks) \ ToSet(evictedLL'))
            /\ torn' = IF Last(ll) \in {held[o] : o \in Requests} THEN torn \cup {gone} ELSE torn
       ELSE /\ ll' = <<Len(bucket) + 1>> \o ll /\ evictedLL' = marks
            /\ UNCHANGED <<forgotten, torn>>

------------------------------------------------------------------------------
(* AllowDecision *)

GlobalRefusal(r) ==
    /\ held[r] = None /\ global = 0 /\ asks < MaxAsks /\ asks' = asks + 1
    /\ UNCHANGED <<now, global, bucket, ll, evictedLL, held, due, over, forgotten, torn>>

\* The global token is gone even when the customer's bucket turns out to be empty.
Ask(r, k) ==
    /\ held[r] = None /\ global > 0 /\ asks < MaxAsks /\ asks' = asks + 1
    /\ global' = global - 1
    /\ Touch(r, k) \/ Insert(r, k)
    /\ UNCHANGED <<now, due, over>>

\* Mutant: the bucket is looked at and the token stays.
Take_Not(n) == n

Take(n) == n - 1

Allowed(r) ==
    /\ held[r] # None /\ bucket[held[r]].tokens > 0
    /\ LET k == bucket[held[r]].key IN
       /\ bucket' = [bucket EXCEPT ![held[r]].tokens = Take(@)]
       /\ over' = IF due[k] = 0 THEN over \cup {k} ELSE over
       /\ due' = [due EXCEPT ![k] = IF @ = 0 THEN 0 ELSE @ - 1]
    /\ held' = [held EXCEPT ![r] = None]
    /\ UNCHANGED <<now, asks, global, ll, evictedLL, forgotten, torn>>

CustomerRefusal(r) ==
    /\ held[r] # None /\ bucket[held[r]].tokens = 0
    /\ held' = [held EXCEPT ![r] = None]
    /\ UNCHANGED <<now, asks, global, bucket, ll, evictedLL, due, over, forgotten, torn>>

More(n) == IF n < burst THEN n + 1 ELSE n

Tick ==
    /\ now < MaxTime /\ now' = now + 1
    /\ global' = globalBurst
    /\ bucket' = [b \in DOMAIN bucket |-> [bucket[b] EXCEPT !.tokens = More(@)]]
    /\ due' = [k \in Keys |-> More(due[k])]
    /\ UNCHANGED <<asks, ll, evictedLL, held, over, forgotten, torn>>

Next ==
    \/ \E r \in Requests : GlobalRefusal(r) \/ Allowed(r) \/ CustomerRefusal(r) \/ \E k \in Keys : Ask(r, k)
    \/ Tick

Spec == Init /\ [][Next]_vars

------------------------------------------------------------------------------
(* Properties *)

\* Memory is bounded: both lists keep to their length, and nobody is in both or twice in one.
ListsBounded ==
    /\ Len(ll) <= Cap /\ Len(evictedLL) <= Cap
    /\ Cardinality(Live) = Len(ll) /\ Cardinality(ToSet(evictedLL)) = Len(evictedLL)
    /\ Live \cap ToSet(evictedLL) = {}

\* Dropping and coming back gives nobody more than a bucket that was never dropped would have,
\* except who was forgotten, or was dropped under a request's hands.
WithinAllowance == over \subseteq forgotten \cup torn

------------------------------------------------------------------------------
(* What the source says and the code does not keep; see the README. *)

\* "who is dropped comes back to an empty bucket, so that nobody's burst starts afresh by rotating
\* identities".
BurstNeverAfresh == over = {}
=============================================================================
