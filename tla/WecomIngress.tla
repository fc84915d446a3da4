---------------------------- MODULE WecomIngress ----------------------------
(***************************************************************************)
(* How a callback of WeCom finds its shop (wecom/router.go, wecom/dedup.go *)
(* and registerWeComCallback of server/server.go).                         *)
(*                                                                         *)
(* The router is built from the shops table when the process starts, and   *)
(* only then.  All shops share one enterprise, as the shared configuration *)
(* has it; the customer-service account a message came through tells them  *)
(* apart.  A callback is answered at once; its message is handled by a     *)
(* goroutine.  WeCom sends a callback again until it is answered, and      *)
(* again after that if the answer was lost.                                *)
(***************************************************************************)
EXTENDS Integers, Sequences, FiniteSets, SequencesExt

CONSTANTS
    Main, Branches,     \* the shop, and branches it may get; the table lists the shop first
    Kfs, NoKf,          \* customer-service accounts
    Msgs,               \* callbacks: [id, kind, kf]; id is NoId where no id can be made up
    NoId,
    MaxFaults           \* bound: crashes, and failures of the deduplication

Shops == {Main} \cup Branches
Kinds == {"text", "event", "contact"}
None == "none"

ASSUME WecomIngressAssumption ==
    /\ Main \notin Branches /\ IsFiniteSet(Branches) /\ NoKf \notin Kfs /\ MaxFaults \in Nat
    /\ None \notin Shops \cup Kfs \cup {NoKf}
    /\ \A m \in Msgs : m.kind \in Kinds /\ m.kf \in Kfs \cup {NoKf} /\ (m.kind = "event" => m.kf \in Kfs)

VARIABLES
    rows,       \* the shops table: open_kf_id of each shop, None where the shop does not exist
    loaded,     \* the table as it was when the process started
    router,     \* [corp, shops, kf]: the shop that stands for the enterprise, all shops, their accounts
    seen,       \* wecom_message_log
    tasks,      \* goroutines: [msg, shop]
    handled,    \* how often a goroutine was started for a message
    unsure,     \* messages whose deduplication failed once
    faults

vars == <<rows, loaded, router, seen, tasks, handled, unsure, faults>>

Exists(t) == {s \in Shops : t[s] # None}

TypeOK ==
    /\ rows \in [Shops -> Kfs \cup {NoKf, None}] /\ loaded \in [Shops -> Kfs \cup {NoKf, None}]
    /\ router.corp \in Shops \cup {None} /\ router.shops \subseteq Shops
    /\ router.kf \in [Kfs -> Shops \cup {None}]
    /\ seen \subseteq Msgs /\ tasks \subseteq [msg : Msgs, shop : Shops] /\ unsure \subseteq Msgs
    /\ handled \in [Msgs -> Nat] /\ faults \in 0..MaxFaults

------------------------------------------------------------------------------
(* The router *)

NewRouter == [corp |-> None, shops |-> {}, kf |-> [k \in Kfs |-> None]]

\* An account is registered for one shop; a second shop with it fails the registration.
Taken(r, s, t) == t[s] \in Kfs /\ r.kf[t[s]] \notin {None, s}

Register(r, s, t) ==
    [corp  |-> IF r.corp = None THEN s ELSE r.corp,
     shops |-> r.shops \cup {s},
     kf    |-> [k \in Kfs |-> IF t[s] = k THEN s ELSE r.kf[k]]]

\* ReloadFromDBWithConfig, shop by shop: one registration that fails leaves the router as it was, empty.
ReloadLoop(t) ==
    LET order == SetToSeq({Main} \cap Exists(t)) \o SetToSeq(Branches \cap Exists(t))
        Step(a, s) == IF ~a.ok \/ Taken(a.r, s, t) THEN [a EXCEPT !.ok = FALSE]
                      ELSE [a EXCEPT !.r = Register(a.r, s, t)]
        end == FoldLeft(Step, [ok |-> TRUE, r |-> NewRouter], order)
    IN IF end.ok THEN end.r ELSE NewRouter

Owners(t, k) == {s \in Exists(t) : t[s] = k}

\* What the loop comes to, for a table that has the main shop.
Reload(t) ==
    IF \E k \in Kfs : \E s, o \in Owners(t, k) : s # o THEN NewRouter
    ELSE [corp  |-> Main,
          shops |-> Exists(t),
          kf    |-> [k \in Kfs |-> IF Owners(t, k) = {} THEN None ELSE CHOOSE s \in Owners(t, k) : TRUE]]

SingleShop(r) == IF Cardinality(r.shops) = 1 THEN CHOOSE s \in r.shops : TRUE ELSE None

\* Mutant: every message goes to the shop that stands for the enterprise.
Route_Corp(m) == router.corp

\* The shop a decrypted message belongs to.  An account the router does not know goes to the only
\* shop there is if the message is an event, and to the enterprise's shop otherwise.
Route(m) ==
    IF m.kf = NoKf THEN router.corp
    ELSE IF router.kf[m.kf] # None THEN router.kf[m.kf]
    ELSE IF m.kind = "event" THEN SingleShop(router)
    ELSE router.corp

------------------------------------------------------------------------------
(* Actions *)

Init ==
    /\ \E k \in Kfs \cup {NoKf} : rows = [s \in Shops |-> IF s = Main THEN k ELSE None]
    /\ loaded = rows /\ router = Reload(rows)
    /\ seen = {} /\ tasks = {} /\ handled = [m \in Msgs |-> 0] /\ unsure = {} /\ faults = 0

\* CreateSubsidiaryShop: the branch gets the account of the main shop.
CreateSubsidiaryShop(s) ==
    /\ rows[s] = None /\ rows' = [rows EXCEPT ![s] = rows[Main]]
    /\ UNCHANGED <<loaded, router, seen, tasks, handled, unsure, faults>>

\* The operator gives a shop an account of its own, in the table: no handler does.
AssignKf(s, k) ==
    /\ rows[s] \notin {None, k} /\ \A o \in Shops \ {s} : rows[o] # k
    /\ rows' = [rows EXCEPT ![s] = k]
    /\ UNCHANGED <<loaded, router, seen, tasks, handled, unsure, faults>>

\* Mutant: no row is written for a callback.
Mark_Never(m) == seen

\* MarkMessageProcessed writes the row before the message is handled.
Mark(m) == IF m.id = NoId THEN seen ELSE seen \cup {m}

Known(m) == m.id # NoId /\ \E o \in seen : o.id = m.id

Handle(m) ==
    /\ tasks' = tasks \cup {[msg |-> m, shop |-> Route(m)]}
    /\ handled' = [handled EXCEPT ![m] = @ + 1]

\* A callback nobody can decrypt or route is answered and dropped, and so is one that was seen.
Callback(m) ==
    /\ router.corp # None /\ Route(m) # None /\ ~Known(m) /\ handled[m] < 2
    /\ seen' = Mark(m) /\ Handle(m)
    /\ UNCHANGED <<rows, loaded, router, unsure, faults>>

\* The deduplication fails and does not stand in the way.
CallbackUnsure(m) ==
    /\ faults < MaxFaults /\ faults' = faults + 1
    /\ m.id # NoId /\ router.corp # None /\ Route(m) # None /\ handled[m] < 2
    /\ Handle(m) /\ unsure' = unsure \cup {m}
    /\ UNCHANGED <<rows, loaded, router, seen>>

TaskDone(t) ==
    /\ t \in tasks /\ tasks' = tasks \ {t}
    /\ UNCHANGED <<rows, loaded, router, seen, handled, unsure, faults>>

\* The process ends and starts again.
Restart ==
    /\ faults < MaxFaults /\ faults' = faults + 1
    /\ tasks' = {} /\ loaded' = rows /\ router' = Reload(rows)
    /\ UNCHANGED <<rows, seen, handled, unsure>>

Next ==
    \/ \E s \in Branches : CreateSubsidiaryShop(s)
    \/ \E s \in Shops, k \in Kfs : AssignKf(s, k)
    \/ \E m \in Msgs : Callback(m) \/ CallbackUnsure(m)
    \/ \E t \in tasks : TaskDone(t)
    \/ Restart

Spec == Init /\ [][Next]_vars

------------------------------------------------------------------------------
(* Properties *)

\* A message with an id is handled once, across restarts and repeated callbacks, unless the
\* deduplication itself failed.
HandledOnce == \A m \in Msgs : m.id # NoId /\ m \notin unsure => handled[m] <= 1

\* The account is the boundary between shops: as long as the table is the one the process started
\* with, an event is handled for a shop that owns its account, or for the one shop there is.
WithinBoundary ==
    \A t \in tasks' \ tasks : t.msg.kind = "event" /\ rows = loaded =>
        t.shop \in Owners(rows, t.msg.kf) \/ (Owners(rows, t.msg.kf) = {} /\ Exists(rows) = {t.shop})

KfIsBoundary == [][WithinBoundary]_vars

------------------------------------------------------------------------------
(* What the source says and the code does not keep; see the README. *)

\* Branches share the account of the main shop ("多店共用客服"), and every shop stays reachable.
ShopsStayReachable == \A s \in Exists(loaded) : s \in router.shops

\* "the OpenKfId is the shop boundary", whatever was edited since the start.
KfIsAlwaysBoundary == \A t \in tasks : t.msg.kind = "event" => Owners(rows, t.msg.kf) \in {{}, {t.shop}}
=============================================================================
