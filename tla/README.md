# OpenBook: TLA+ models, checks and proofs

OpenBook is a booking assistant for small shops. Customers write to a WeCom customer-service
account or to a web console; an agent (a chain of language models with tools) answers and books;
merchants use an admin API; jobs remind, report and clean up. This directory models the parts of
the Go code in which concurrency, failures and retries decide whether the system is right.

    tlc -workers 2 -config MCBookingCore_locks.cfg MCBookingCore      # check a run
    tlapm RequestProofs.tla                                           # check the proofs of a module

`PROJECT.json` lists the components, the runs, the source lines behind every definition, a
mutant for every checked property, the hazards, the theorems and the findings.

## 1. The system's parts

| Component | State it keeps | Operations | What is hard | Module |
|---|---|---|---|---|
| Booking kernel, outcomes, locks: `storage/booking_core.go`, `operation_outcome.go`, `lock/` | booking rows, outbox, one record per idempotency key, keys in Redis with a TTL | create, cancel, reschedule, reconcile | interleaved requests, phantom rows, lost locks, an error around the commit, replay | BookingCore, abstract BookingLedger |
| Debounce: `server/kf_debounce.go` | a queue, a flag and a timer per session | enqueue, schedule, fire | timers against callbacks | KfDebounce, abstract KfBatching |
| Inbox: `storage/kf_inbox.go`, `server/kf_inbox.go` | rows with status, attempts, lease; the cursor | save, claim, mark, replay, purge | a crash anywhere, double claim, expired lease | KfInbox |
| Cards: `storage/customer_card.go`, `card_crud.go` | products, balances, journal | sell, use, adjust, archive; create and edit | values read outside the transaction that writes them | CustomerCards, CardDesk |
| Legacy appointments: `storage/repo.go`, `tools/`, `cancel_policy.go`, `cron/noshow.go` | appointments, slot keys, counters of a customer | create, cancel, reschedule, complete, no-show, undo | check-then-act, penalties, two-part reschedule | Appointments |
| Staff leave: `storage/barber_leave.go` | leaves, barbers | make, end, dismiss | appointments read outside the transaction | Staff (extends Appointments) |
| Outreach: `cron/`, `storage/notification.go` | marks on rows, notices | remind, warn, offer, notify, retry | sent but not marked, retries that meet | Outreach |
| Migration: `storage/booking_migration*.go` | audit mapping | plan, execute | writes between plan and execution, a lost answer of the commit | BookingMigration |
| Identity: `smsverify/`, `storage/repo.go` | codes in Redis, customers | send, check, bind, upsert, backfill | two reads before a write | CustomerIdentity |
| Back office: `api/`, `auth/`, `storage/permissions.go` | members, tokens, permissions, subscriptions, cached verdicts | change roles, renew, gate | requests that count each other, stale cache | BackOffice |
| Master data: `storage/*_crud.go`, `customer_tags.go` | barbers, branches, services, tags | make, edit, import, tag | limit or name checked before an insert | MasterData |
| Reports: `storage/usage_report.go`, dashboards | none (computed) | weekly, phases, chain, alerts | edges of windows | Reports |
| Start: `storage/db.go` and its steps, `cmd/migrate` | the schema's data | backfill keys, seed | a crash or a second process between steps | Startup |
| Ingress: `wecom/router.go`, `dedup.go` | the router, the log of messages | callback, restart | repeated callbacks, a router older than the table | WecomIngress |
| Sending: `wecom/client.go`, `sendReply` | token, pacing lock | send, retry, take over | expiry under way, a lost answer | WecomClient |
| Web chat: `server/server.go` | loop and channels per session | chat, approve, abort | preemption, a loop that dies | ChatTurns |
| Prompt and memory: `server/server.go`, `a2ui/`, `mem/` | the history of a session | persist a turn, cut a window | units of tool calls cut in two | TurnHistory |
| Screening: `sensitive/`, `server/input_trust*.go` | a trie, counters | load, check | overlapping words, a failing second layer | MessageScreen |
| Model chain: `chatmodel/`, `internal/agent` | counts in a window | call, retry, fail over, alert | what may be repeated, the last provider | ModelChain |
| Rate limiter: `server/ratelimit.go` | buckets, LRU, evicted keys | allow | eviction, a bounded memory of it | RateLimiter |
| Worker pool: `pool/` | queue, flag | submit, run, close | a submit between flag and channel | WorkerPool |

How they meet. A WeCom callback finds its shop in the router and is deduplicated
(WecomIngress); for customer service it pulls messages from a cursor, saves them to the inbox
together with the new cursor, claims them (KfInbox) and hands them to the debounce (KfDebounce),
which runs one turn of the agent per batch. A turn passes the limiter and the filter
(RateLimiter, MessageScreen), shows the model a window of the history (TurnHistory), calls models
and tools (ModelChain) and replies (WecomClient). A tool creates or cancels bookings, in the
kernel (BookingCore) or in the legacy table (Appointments, with CustomerIdentity before it). The
web console does the same through ChatTurns. The admin API calls the storage operations from
concurrent handlers (BackOffice, MasterData, CardDesk, Staff). Jobs read and mark the same rows
(Outreach, Reports, the no-show job in Appointments).

## 2. The modules and the code

A step is one Redis command, one SQL statement or transaction whose effect others can see, one
section under a mutex, or one request to the outside; what lies between two such points of one
goroutine belongs to the step. Definitions keep the names of the code.

**BookingCore** (abstract: **BookingLedger**). A worker is one request in flight; `pc` says what it does next:

    idle -Begin-> load -LoadKeys-> lock -Acquire*-> lock -AllAcquired-> read [-TakeSnapshot-> scan] -Read...-> commit
      -Commit-> settle -Settle-> verify -Verify-> unlock -Unlock-> idle, or -> reject -> idle

`Begin` writes the pending outcome row; a key seen before only `Replay`s its record. `Acquire` takes
the keys in the order of `bookingLockKeys`; `AcquireFails` covers a busy lock, a Redis error and the
read-only mode. `ReadForCreate`, `ReadForCancel`, `ReadForReschedule` and `FindPrior` are the locking
reads with their early returns; `rows` are the row locks they take. A create begins its transaction with
a plain lookup (`TakeSnapshot`), which fixes the snapshot of all plain reads after it: the occupied rows are then
locked, hence read as they are, but their allocations are those of the snapshot, so that of a booking in
`unseen`, committed in between, only the staff member is seen (`SeenClaims`). A reschedule begins with
locking reads, so its snapshot is younger than every row it has locked. `Commit` writes rows, allocations
(`Details[b].locks`) and the outbox event. `Unlock` compares tokens; a lost lock turns any
result into `unknown`. The environment may `Crash` a request, let an orphaned key expire, let
a key vanish under its holder, or make a renewal fail. `ReconcileStart / Observe / Write` are the
steps of `ReconcileOperationOutcome` with its external reader. Three constants select what
lies outside the code: `GapLocks` (a locking read blocks inserts into the range it read, as InnoDB does),
`AmbiguousCommit` (a commit may take effect and report an error), `ReaderRejects`. BookingLedger
is the store with no processes: `Take`, `GiveBack`, `Move`, one event each, and no step that makes two
live bookings clash.

**KfDebounce** (abstract: **KfBatching**). One session. A message's goroutine is `new -> enqueue ->
schedule -> (armed -> expired ->) fire -> read -> ask -> answer -> release`. A state is named after the
message that created it; `current` is what the map holds. `Load` and `Enqueue` are two steps
because the code looks the state up before it takes its mutex. KfBatching: a message arrives
once, waits, and leaves once, in a batch.

**KfInbox**. Messages are numbered in stream order, so a cursor is a number. `Save` is one
transaction for rows and cursor; `Claim` succeeds if the row still looks as selected; `Overrun`
ends a lease whose holder works on. A claim updates by the condition it selected
by, at the same `now`, so any later write makes it miss (`changed`), except a `Replay`, whose own `now` may be the
earlier one. The debounce is there with KfBatching's promise only.

**CustomerCards**, **CardDesk**. An operator's request is a read-and-validate step and then the
transaction; `Book` stores what was read plus the delta. History variables: `booked`, the sum of a card's
journal; `crowded`, the cards two requests worked on at once; `late`, those whose sale met a request that takes the
product off sale. CardDesk
has the definitions of products, which CustomerCards takes as given.

**Appointments**, **Staff**. An appointment is named after the request that may create it. The
clock ticks in steps longer than the five minutes of the undo buttons. Staff adds leaves and
dismissals; `FindAffected`, `CommitLeave` and `Notify` are separate steps, as the code reads, writes and tells one after the other. `excused` names the
appointments that slipped in during a race the code has, or were made after a lookup of the leaves that failed;
section 5 describes both. A create whose commit is ambiguous, or whose reading-back fails, leaves the
customer `unsure`: the row may exist.

**CustomerIdentity**. One call of create_appointment per messaging identity: every Redis command
is a step, every transaction is its reads on one snapshot and its writes.

**BackOffice**, **MasterData**, **Reports**, **Startup**. Requests pass the chain session, cached
verdict, permission, handler; a handler's checks and writes are separate statements. Startup is a list
of steps per process, any of which can fail or be the last; a count of services that fails is taken for zero
(`MiscountServices`), a name that fails is passed over (`SkipName`).

**Outreach**, **BookingMigration**. A message and its record are two steps. The planner reads
the old table and then the new one; the executor is one transaction whose answer may be lost.

**WecomIngress**, **WecomClient**, **ChatTurns**, **TurnHistory**, **MessageScreen**,
**ModelChain**, **RateLimiter**, **WorkerPool**. Each is headed by a comment that says what is a step
and what is external (WeCom, the agent library, the models). In ChatTurns a turn may `Stall`: its loop
runs on a context without a deadline and the clients of the models have none. In WecomIngress `Reload` is the closed form of the
loop `ReloadLoop`, and MCIdentity assumes (`ReloadIsLoop`), so that TLC evaluates it, that the two agree.

**Composites.** Modules that share no variable with each other are checked in one run: MCShopDay
(Staff, Outreach, BookingMigration), MCShopTables (CustomerCards, CardDesk, MasterData, Reports), MCOffice
(BackOffice, Startup), MCIdentity (WecomIngress, CustomerIdentity), MCServer (RateLimiter, ModelChain,
MessageScreen, TurnHistory), MCChat (ChatTurns, WecomClient), MCTurns (KfDebounce, WorkerPool). A variable `part` chosen at the start
says whom the behaviour is about; the others stand still with a fixed value. As they share
nothing, an interleaving of two of them adds no behaviour of either, so nothing is lost, and the
state space is the sum instead of the product. Their properties are conjunctions `part = ... => P`
of the modules' own.

## 3. Runs

| Run | Shows |
|---|---|
| `core_locks` | Redis locks alone (`GapLocks = FALSE`) exclude double booking (`Exclusion`, which implies NoDoubleBooking), no circular wait, outbox explains rows, answers agree with outcomes, refinement of the ledger. |
| `core_db` | A lock vanishes under its holder: nobody releases a key of somebody else, and range locks leave one way to a double booking, a create whose snapshot is older than the other booking; what is then promised twice is a resource, not a staff member. |
| `core_outcome` | A key commits at most once, rejected means nothing was written, confirmed is true, final outcomes stay, with a crash, a reused key and two passes of the reconciler. |
| `turns` | Debounce: each message is handed over once and none is stranded, each reaches the agent. Pool: a job taken runs once, Close drains, every call ends. |
| `inbox` | Nothing the cursor has passed is lost; whoever works within the lease owns the row; answered stays answered; everything settles. |
| `tables` | Journal and balance agree, off sale means unused, empty is not active, with two requests at a time; products, limits, names and tags (two at a time); figures agree. |
| `day` | Slot key, status, completions and answers of an appointment agree; nobody is sent to an absent barber; outreach is true; the migration is faithful. |
| `identity` | A callback is handled once and for the shop of its account. A phone belongs to one customer, who verified it; an appointment is on a row with an id of whoever asked for it, where none of his ids is shared, and on the row of the very identity he asked with, where no other has one of its ids. |
| `office` | An owner remains; the plan is the one paid for and is served; starts end in order, and a second start changes nothing, unless an appointment changed while its key was filled or a count of services failed; nobody past grace gets in later than the cache allows. |
| `server` | Limiter, filter, window and chain keep their promises. |
| `chat` | Questions get their own answers, requests end unless the provider stalls, WeCom gets no reply twice and no expired token, a person keeps the conversation. |
| `shared_account` (violation) | A branch made by the program shares the account of its main shop; the next start registers no shop at all. |

Where a property excuses something (`excused`, `unsure`, `raced`, `alone`, `crowded`, `late`,
`miscounted`), the excuse is set by the one race or fault of the code that breaks the plain form, and only for
what it touches; section 5 lists the plain form. What such a property shows is that nothing else
breaks it: it does not catch the race itself.

**Bounds**, and why they are enough.

* *Core*: two requests at a time is the smallest number that interferes, and every guard is about a
  pair; further calls let a third request act on what the race left behind. The calls collide:
  `bkB` and `bkN` want one chair, `bkB` and `bkN3` the same two keys, `bkN` overlaps the
  booking it replaces. Intervals that only touch are among them. `MaxLosses`, `MaxCrashes`,
  `MaxPasses` bound faults and the reconciler.
* *Turns*: a threshold of two (the code has 5) and three messages reach a fired threshold with a timer
  still armed, a message during a callback and a replaced state. Two callers, two workers and a queue of one
  make the queue full and let Close come between flag and channel.
* *Inbox*: one callback and the worker, one-message pages, one fault. `Bounds` keeps
  two messages to day 0 and first attempts, where they race for claims; the life of a row across four
  days (retention 2 plus window 1) and a dead letter is about one message.
* *Day*: two appointments of one customer, two barbers, one leave; `FewUnusual` allows two of the
  unusual events in a day, so that every pair of them meets. `OneArea`: one job of Outreach
  at a time. The migration has two old overlapping appointments and a new one between them.
* *Tables, office*: two requests race; the areas (`MasterArea`, `MembersArea`, `AccessArea`,
  `PlanArea`, `StartupArea`) separate what shares no state. Two operators in CustomerCards:
  `CardsArea` lets them meet on one card, or gives one of them several cards.
* *Identity*: two people of one name, three ways to write, two phones; at most two calls at once. Two shops
  with one or two accounts, a callback of each kind, three faults or restarts.
* *Server, chat*: two requests, two or three keys, providers, letters: the least that fills a list of
  length one, exhausts a chain and overlaps two words.

Symmetry is used in runs without liveness only, over sets the modules treat alike. `CHECK_DEADLOCK FALSE`
stands where the parts may stop: all requests of a bounded behaviour done, or the clock at its end.

**Fairness.** *Debounce*: weak fairness on each goroutine's next step: Go runs started goroutines,
timers fire, a turn has a deadline. *Pool*: weak fairness of workers and callers. *Inbox*:
weak fairness on thread steps (the worker polls by a ticker), on handing over (what `EveryMessageTaken` shows
for the debounce), on the agent's return and marks, on time passing for back-off and leases; not on
arrivals, faults, the operator, the days. So `Settles` is about messages already in the inbox, and it
holds because faults are finitely many: a message whose turn crashes the process every time would
be claimed for ever (`ClaimKfInboxDue` does not look at the attempts). *Chat*: weak fairness of all steps
of a part together, less than each of its goroutines has. Not of a stalled provider: a request it holds may
never end (section 5), and `AnswersEnd` says no more of it. Nor of the end of a turn that was cancelled, which is
up to the agent library. That the jobs of the pool end is assumed; they are the callers'.

## 4. Proofs

Eight modules hold theorems. They hold for any number of requests, bookings, messages, rows, threads,
cards, shops, members, barbers, callers and for any bound, under the assumptions the modules state about
their constants (TLC evaluates each in a run) and those named here. Every invariant below was
checked by TLC before it was proved. A proof is laid out the same way everywhere: types first, then one
lemma per action or group of actions, then one lemma per conjunct of the invariant that a step can
disturb, then the theorem by PTL. The theorems about parts of a composite are theorems of `PartSpec`,
so they are about the very formulas the runs check.

**RequestProofs** (BookingCore: types, locks, outcomes; ChatTurns and WecomClient: answers)

* `TypeCorrect`: TypeOK is inductive.
* `ExclusionHolds`, under `MaxLosses = 0`: as long as no Redis lock vanishes under its holder, no two
  live bookings clash, with or without range locks. `Exclusion` is NoDoubleBooking with its reasons
  (`SafeReads`): handles of locks are owned (`HoldersOwn`), they cover what the request will insert
  (`LocksCover`), what its snapshot is too old to show shares no key with it (`UnseenApart`), and what its
  reads have shown stays true until the commit (`ReadsFresh`). The hard step is a Commit against
  another request that has read and not committed (`WritersApart`): two such requests whose
  bookings clash share a key, which one of them does not own, or the insert of one is
  blocked by the range the other has read.
* `OnlyOvertaken`, `StaffBookedOnce`, under `GapLocks`, whatever locks vanish: the one way to a double
  booking is a create that took its snapshot before the other booking was committed and read its row
  afterwards, and a staff member is never booked twice. Without range locks and with vanishing
  locks the code does double book anything. `ReadsStaySafe` is SafeReads under `OneGuardHolds == GapLocks \/
  MaxLosses = 0`, from which both cases follow.
* `NoTwoWait`: no two requests wait for each other; a request has every key it needs that sorts
  below the one it waits for (`LocksInOrder`).
* `OutboxIsComplete`: every change of a booking has its event and the reverse. Needs that the row a
  request will replace is row-locked from its read to its commit (`OldRowHeld`), and that two
  requests hold different rows (`RowsApart`).
* `KeysCommitOnce`: one key takes effect at most once; at most one request in flight works for it (`OneCallPerKey`).
* `FinalIsFinal` (action property), `ConfirmedMeansDone`, `AnswersAreStored`: `OutcomeInv` relates three
  things that are written at different times: what the transaction did, what the record says, what the
  caller is told. Its parts: a request that has committed left its booking (`MadeIsTrue`), the
  reconciler writes what its reader told (`ReconTold`), a request answers what it has stored (`ResultTold`,
  `SettledTold`, `OkIsStored`), and nothing is confirmed before its commit (`NotYetConfirmed`).
* `RejectedMeansNothing`, under `HonestCommits == ~AmbiguousCommit /\ ~ReaderRejects`. The assumption is
  needed: with a commit that takes effect and reports an error the code stores "rejected" (section 5).
* `TokensAreOwn` (action property): a key is released by the request that holds it only, however many
  keys have vanished.
* `KernelIsLedger`, under `MaxLosses = 0`: the kernel implements BookingLedger. Init maps to Init,
  Commit to Take, GiveBack or Move, every other step to a stutter; the guard of the abstract step,
  that nothing clashes, is what ExclusionHolds gives.
* `AnswersStayApart`, for any number of handlers, loops, channels and messages. Of the web: channels
  belong to one handler, are handed out once, and are empty and open until then (`ChannelsInv`); a message that was not pushed is with no loop, so it is at
  work once (`UnsentInv`); a chat that meets no other is the only one engaged, so the latest
  channels are its own and only its turn writes to them (`AloneInv`). Of the client: a request ends before its
  token does (`SenderInv`, because the token is renewed a margin before its end), and a reply that may have
  arrived is not tried again.
* `PersonsKeep` (action property): a conversation is taken back only where the deployment allows it.

**TurnsProofs** (KfDebounce, WorkerPool)

* `NobodyStranded`, `HandedOverOnce`. The invariant says where a message is (one queue or one batch),
  that a running state's queue is empty, that a timer belongs to a message waiting at that state, and
  that every non-empty queue is watched. The second is the refinement of KfBatching.
* `JobsRunOnce`: a job taken runs once, and when the Close that closed the pool returns, all have run.
  A job is in one place (`PlacesInv`), a submit that stands between the flag and the channel has its
  job nowhere else (`SendersInv`), and a closed channel takes nothing (`CloseInv`).

**MessageProofs** (KfInbox; of MCServer the RateLimiter, ModelChain and MessageScreen)

* `InboxTypes`, `NothingIsLost`, `DoneIsFinal`, `HoldersKeepTheirRows`, from `Sound` (types and the
  snapshots threads hold), `CoverInv` (pages hold what the cursor will pass), `DoneInv`
  (the message of a deleted row is older than the window; no selection names a finished row) and
  `HolderInv` (an item is in one place; one live item per token). The attempts of an item are those of its
  row, except after a replay between selection and update of the claim, when the row has one.
* The gates before a turn, as lemmas for the theorem of HistoryProofs. The limiter (`LimiterInv`): the two lists
  name each bucket and each key once and share no key, a live bucket holds no more than is due to its
  key unless the key was forgotten or torn, and a key on neither list is due its burst. The chain (`ChainInv`,
  `Follows`): the providers asked are the one in use and those failed over to, and a call that failed
  has asked them all; a writing tool has run at most once; an alert is active exactly while
  the share of switches is high, and the last one was sent when the monitor remembers (`MonitorOK`). The screen (`ScreenInv`): the tree holds what was registered
  (`TreeOf`), so the walk through it ends at a word exactly when a word of the list is in the text
  (`MatchTells`), and the six counters add up to the messages judged.

**HistoryProofs** (TurnHistory; EXTENDS MessageProofs)

* `WaysKept`, under `Threshold < 0` (the default of the server is -2): the composite of limiter, chain, screen
  and history keeps `WayKept`, from `WayInv`, which is the three invariants above and `HistInv`. The
  hypothesis is about one conjunct, that usual messages pass the gate: they score zero.
  A history fits (`Fit`) when a result follows the calls it answers with nothing but results between
  and is given once, or has lost its calls together with all that was before it, as at the start of a window.
  A run keeps this (`RunFits`) although calls, results and answers arrive one by one and a run can pause, be
  resumed or fail in between. For a history that fits, the sanitiser keeps exactly the units that are
  whole, and the API accepts the result (`SanitizeIs`); its loop is followed place by place with what
  it has kept and what it holds back (`Sane`). The newest messages by number
  and size fit too (`FitsIs`, `FitEnd`), so neither trimming (`TrimIs`) nor the summary of what is left out
  (`CompactIs`) shows the model a half unit or loses the question at the end, and the history
  holds the last answer (`Remembers`).

**ShopTablesProofs** (CustomerCards, CardDesk, MasterData, Reports)

* `CardTypes`, `EmptyCardsAreClosed`, `JournalExplainsBalance` and `OffSaleIsUnused`, all for any number of requests at
  once. A card that is not `crowded` has at most one request between read and write, and what that request has
  read is still the balance (`InOneHand`), whatever others do to other cards and the product; a product
  off sale, or counted unused by the request that will take it off, has no active card but those sold in
  between (`OffSale`, `UnusedOffSale`).
* `OwnersTablesAreKept`, for any number of requests. Limits (`StaffInv`): what there is, and
  the requests whose count has left room, together stay below the limit plus the number of requests
  (`RoomLeft`); a request past the gate has seen room, or the plan was changed meanwhile (`SawRoom`). Names
  (`Tidy`): as long as no two edits of services have met, a request that has looked is by itself, and
  what it has found is so still (`Ready`). Tags likewise (`TagsRead`). Products (`DeskInv`): what a
  request has read exists and is of its shop, and is worth its price unless another has written
  since (`Grounded`); a card was sold as its product was offered at some time (`WellSold`).
* `FiguresDoAgree`: an appointment that was not moved is counted by exactly the reports whose window holds
  it (`CountInv`), and two windows that hold one hour are the same (`JobsApart`); the total for
  the week before is what the tables still give (`WeekInv`). The trend is a sum of sums: that a
  sum over a finite set does not depend on the order of the fold is proved by well-founded induction on
  its cardinality (`FoldIsUnique`), and then that the counts of parts add up (`TrendSums`, `SummaryOfBoth`).

**OfficeProofs** (BackOffice, Startup): `OfficeTypes`, with what a request at each stage has read (`RequestsOK`).

* `AnOwnerRemains`: as long as no two demotions or removals have overlapped between count and write
  (`raced`; two that do can leave no owner, section 5), the shop has an owner who can sign in, whatever
  sign-ins, permissions, renewals and the other requests do between. The invariant: what a request has
  counted is still so when it writes (`MembersInv`, `LeavesOwner`).
* `PaidShopsAreServed`: when no renewal is under way and none has met another or a fault, exactly one
  subscription is open and the shop has its plan (`PlanInv`: which part of the change each step of a
  renewal has made); and a shop that has paid is not refused by a verdict cached before, or
  a renewal on its way will clear it (`VerdictInv`, `WillClear`), unless a verdict was kept that had become
  untrue between its reading and its keeping.
* `FrozenShopsAreRefused` (action property): with the same exception, nobody gets past the gate later
  than grace and the lifetime of the cache allow. Needs that no end of a subscription lies more than
  a month ahead (`ExpiryInv`).

* `StartedInOrder`, `StepsAreAllowed` (action property; its first half is FrozenShopsAreRefused), for any
  number of processes that start, stop and fail, of customers and appointments, from `StartInv`. A process that
  is starting has the steps of `InitSteps` from some k-th on before it (`Ahead`), and what the steps
  before k have made of the database still stands, if none failed and nobody has edited since
  (`Progress`, `Settled`); a process that stands within a step has done the shops and names it has passed
  (`ServicesSoFar`, `NamesSoFar`). So a process that starts over a database another has finished finds every
  step done. A catalogue has one row of a service unless two processes seeded at once or its count
  has failed (`miscounted`): who will still insert it is counted with what there is (`CatalogueInv`). Keys tell the status (`KeysRight`),
  what was read of a row is so still or the row is in `raced` (`RowsRight`).

**IdentityProofs** (WecomIngress, CustomerIdentity)

* `IngressTypes`; `NobodyHandledTwice`, of messages with an id whose deduplication
  never failed (the code handles the others), since what was handled has its row in the log (`HandledInv`);
  `AccountsAreBoundaries` (action property), since the router is what the table was at the last
  load (`RouterInv`), so a message goes to the shop its account was registered for.
* `PeopleAreKnown`, under `IdentAssumed`: ids in the second column (the external contact's) are one person's
  each, while those of the first may be shared, as an employee's id is by all customers he brings. A
  customer row comes from the backfill and has neither id nor phone, or it has both ids of one identity and
  a phone (`RowsInv`); a verified one was verified by the owner of its phone for a row with one of
  his ids. Every transaction reads before it writes: what it will write fits the row it found
  (`PlanFor`), the phone it writes is on no other row (`PhoneFree`), and two transactions about one
  phone that are both between read and write have met and are in `raced` (`PlansMeet`). A call
  knows what its code has shown (`CodeFor`) and that it is booked where its upsert found or made its
  row (`ReadyFor`, `BookFor`).

**ShopDayProofs** (Staff with Appointments, BookingMigration, Outreach)

* `DayTypes`.
* `RecordsStayTrue`: row, slot key, counters of the customer and what the customer was told agree. A
  request that has no answer has no row (`RowsInv`); the counters are cardinalities of sets of
  appointments, completed and overwritten ones apart (`CountInv`), and each completion, undo and no-show
  moves one appointment between them. The sets are finite because they are made by counting, so
  the theorem needs no bound on appointments.
* `NobodyIsStoodUp`: an appointment stands only where its barber is there, or is in `excused`, which has a
  place for the lookup of leaves that failed. The
  handler of a leave works with a list it has read before its transaction: the rows on it exist, have
  distinct times, and the rest of the barber's day is outside the leave (`PlanInv`, `FindingsHold`); a
  request in flight that is not excused wants an hour without leave (`WishInv`).
* `HistoryIsMoved`, under `MoveAssumption` (an old appointment has a booking id of its own and a length).
  A plan that was made after the old handlers were stopped, and blocks nothing, has what the old
  table has (`PlansInv`); an execution past its check writes rows of its plan, and with what is mapped
  already they are all of it (`RunsInv`), whether or not it hears of its commit.
* `OutreachTellsTrue`. One invariant per table: who was told has his mark, or its writing is the
  next step of the job that told him, so nobody is told twice (`RemindInv`, `IdleInv`, `LifecycleInv`); a
  notice is with one sender at a time (`NotesInv`); what was acknowledged has arrived (`SaidInv`). That a
  shop is warned before it hears that its subscription is over needs the clock: as long as it was not
  warned, the next scan comes in time (`SubsInv`, `InTime`). What a lost answer leaves open is in `unsure`.

## 5. Where the code and its documents or itself disagree

`PROJECT.json` quotes the lines. `shared_account` is a violation run; for the others the plain property
is defined in its module beside the weaker one that is checked, or refuted by the setting named.

| Source | What happens | Property |
|---|---|---|
| `storage/shop_repo.go:246` | A branch shares its parent's account; the next start registers no shop. | ShopsStayReachable |
| `storage/booking_core.go:170` | A commit that took effect and reported an error is stored as rejected. | RejectedLeavesNothing (`AmbiguousCommit`) |
| `storage/booking_core.go:504` | After a lock has vanished a chair is booked twice: rows are read as they are, their allocations from an older snapshot. | NoDoubleBooking (`MaxLosses` = 1) |
| `storage/booking_core.go:439` | A key reused to cancel another booking is answered with success. | OkAnswersTheRequest |
| `server/kf_debounce.go:85` | Two turns of a session overlap; the second has not seen the first. | SeesWholeHistory |
| `storage/customer_card.go:219` | Two updates of a balance: one is lost, both journal rows stay. | BalanceIsSum (for crowded cards) |
| `storage/cancel_policy.go:332` | The tag comes with the second late cancellation, not the third. | BlacklistAtThreshold |
| `cron/noshow.go:122` | A no-show is counted for an appointment that was not marked. | CountedNoShows |
| `internal/booking/legacy/application.go:134` | A reschedule whose second half fails leaves no appointment. | RescheduleAllOrNothing |
| `tools/create_appointment.go:202` | A leave made during a create does not see the appointment; and a lookup of the leaves that fails is only logged, and the customer is booked with an absent barber. | NobodyBookedOnLeave |
| `storage/models.go:110` | Two customers with one phone. | PhonesAreUnique |
| `storage/db.go:302` | A count of services that fails is taken for zero (`storage/service_crud.go:287`), and the shop gets all default services again. | SeededOnlyOnce |
| `storage/db.go:131` | A permission taken away comes back at the next start. | RevocationsLast |
| `api/admin_features_v46.go:516` | An import that replaces leaves the repeated services off sale. | ListIsOnSale |
| `storage/card_crud.go:266` | Two edits leave a card priced above its worth. | AlwaysWorth |
| `storage/card_crud.go:113` | Two products of one name. | NamesDistinct |
| `cron/lifecycle.go:122` | The message of D+25 is repeated at every run of the day. | EachNodeOnce |
| `storage/notification.go:92` | A notice that was sent is set to failed. | SentStays |
| `cron/subscription.go:97` | The warning three days ahead never comes. | NeverThreeDays |
| `server/server.go:754` | After a preemption an answer goes to the channels of a later request. | OwnAnswers |
| `server/server.go:485` | An interrupt is approved twice. | ApprovedOnce |
| `server/server.go:1634` | One of the latest six messages is cut from the prompt. | LatestPreserved |
| `server/server.go:1406` | A notice is sent while a reply is being paced. | OneAtATime |
| `server/ratelimit.go:238` | A key forgotten twice comes back to a full bucket. | BurstNeverAfresh |
| `storage/booking_migration.go:225` | A plan made again blocks the rows it has moved. | RepeatIsRecognised |
| `pool/pool.go:128` | Submit against Close sends into a closed channel and panics. | RefusedNotPanicked |
| `pool/precheck.go:63` | A check the pool refuses passes for done. | BothChecksRun |
| `sensitive/sensitive.go:116` | A word registered with a capital letter is never found. | EveryWordBlocks |
| `chatmodel/fallback.go:172` | A provider without a client ends the failover. | FailoverReachesAll |

Smaller ones, visible in the modules: a timer whose state was fired by the threshold is forgotten, not
stopped, and can fire a later batch early (`server/kf_debounce.go:148`); adjusting a depleted card upwards
leaves it depleted (`storage/customer_card.go:369`), and the check reads the stored status, which
nothing sets to `expired` (`:340`); a card can be sold while its product is being archived
(`storage/card_crud.go:326`, `late`); a row replayed between the SELECT and the UPDATE of a claim is claimed
all the same, with one attempt in the row and the old number plus one in the item, so that its next failure may
bury it at once (`storage/kf_inbox.go:239`); a stalled provider holds a web request for ever, as its turn has no
deadline (`server/server.go:646`); the answer after a lost lock says that all was rolled back ('已安全回滚'), which is not
known of an ambiguous commit (`tools/create_appointment.go:298`); an appointment can be cancelled after it was due (`storage/cancel_policy.go:197`); a claim never
looks at the attempts (`storage/kf_inbox.go:89`); one message without an id fails its whole page (`:43`);
two removals of owners that overlap each count the other's owner (`api/members.go:428`);
`has_more` is only logged (`server/server.go:1973`); nothing in the program calls the reconciler
(`storage/operation_outcome.go:185`).

## 6. What is only model-checked

* *Liveness*: `EveryMessageTaken`, `CallsEnd`, `Settles`, `AnswersEnd`. They rest on weak fairness, hence
  on ENABLED, which TLAPS does not handle.
* `ReloadIsLoop`, that a closed form is what the loop computes: an induction over data, evaluated by TLC on
  all tables of the bound.

## 7. Not modelled

Understanding of text, retrieval, rendering, JSON schemas and profiles are functions of data. Encryption,
HTTP routing, web pages, exports, the mail protocol, examples and load tests are input and output. The
append-only logs of events, audits and messages matter where they are read back, and are modelled
there (Outreach, Reports). The hysteresis of the lock's health monitor is only its effect, a Redis that is not
available; the LRU of sessions and their files are left out. The answers of the models are free: a turn of
the agent is any result at any time before its deadline, which the turns of the web chat do not have. In the
backfill of customers a lookup of a name that fails for another reason than a missing row goes on to insert a
second customer of that name (`storage/customer_backfill.go:74`); names are unique in Startup, so this is left out. What WeCom, MySQL, Redis and the clock do is modelled
from how the code uses them and marked external in the map.
