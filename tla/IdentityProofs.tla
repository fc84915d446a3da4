---------------------------- MODULE IdentityProofs ----------------------------
(***************************************************************************)
(* Theorems about whose message it is.  For any shops, accounts,           *)
(* callbacks, crashes and faults of the deduplication: a message is        *)
(* handled once, and for a shop that owns the account it came through.     *)
(* For any identities, people, phones and rows: a phone is on one          *)
(* customer, verified for its owner, and an appointment is booked on       *)
(* whoever asked for it (WhoIsWho of CustomerIdentity).                    *)
(***************************************************************************)
EXTENDS MCIdentity, FiniteSetTheorems, TLAPS

Tables == [Shops -> Kfs \cup {NoKf, None}]

Routers == [corp : Shops \cup {None}, shops : SUBSET Shops, kf : [Kfs -> Shops \cup {None}]]

------------------------------------------------------------------------------
(* The inductive invariants *)

\* The router is what the table was when the process started.
RouterInv ==
    /\ rows \in Tables /\ rows[Main] # None
    /\ loaded \in Tables /\ loaded[Main] # None
    /\ router = Reload(loaded)

\* Who was handled has left a row that the next callback will find.
HandledInv ==
    /\ handled \in [Msgs -> Nat]
    /\ \A m \in Msgs : m.id # NoId /\ m \notin unsure =>
           handled[m] <= 1 /\ (handled[m] = 1 => Known(m))

------------------------------------------------------------------------------
(* The router *)

LEMMA ReloadTyped ==
    ASSUME NEW t
    PROVE  Reload(t) \in Routers
<1>1. \A k \in Kfs : Owners(t, k) # {} => (CHOOSE s \in Owners(t, k) : TRUE) \in Shops
  BY DEF Owners, Exists
<1>2. Exists(t) \subseteq Shops /\ Main \in Shops
  BY DEF Exists, Shops
<1> QED
  BY <1>1, <1>2 DEF Reload, NewRouter, Routers

\* A router that knows a shop knows every shop, and the only owner of every account that has one.
LEMMA ReloadKnows ==
    ASSUME NEW t, Reload(t).corp # None
    PROVE  /\ Reload(t).corp = Main /\ Reload(t).shops = Exists(t)
           /\ \A k \in Kfs : IF Owners(t, k) = {} THEN Reload(t).kf[k] = None
                             ELSE Reload(t).kf[k] \in Owners(t, k) /\ Reload(t).kf[k] # None
<1>1. \A k \in Kfs : Owners(t, k) # {} =>
          (CHOOSE s \in Owners(t, k) : TRUE) \in Owners(t, k) /\ Owners(t, k) \subseteq Shops
  BY DEF Owners, Exists
<1>2. None \notin Shops
  BY WecomIngressAssumption
<1> QED
  BY <1>1, <1>2 DEF Reload, NewRouter

\* The single shop of the router is the only shop of the table.
LEMMA SingleIsAll ==
    ASSUME RouterInv, SingleShop(router) # None
    PROVE  Exists(loaded) = {SingleShop(router)}
<1>1. router.shops \subseteq Shops /\ IsFiniteSet(router.shops)
  <2>1. router.shops \subseteq Shops
    BY ReloadTyped DEF RouterInv, Routers
  <2>2. IsFiniteSet(Shops)
    BY WecomIngressAssumption, FS_Singleton, FS_Union DEF Shops
  <2> QED
    BY <2>1, <2>2, FS_Subset
<1>2. Cardinality(router.shops) = 1 /\ SingleShop(router) = CHOOSE s \in router.shops : TRUE
  BY DEF SingleShop
<1>3. PICK x : router.shops = {x}
  BY <1>1, <1>2, FS_Singleton
<1>4. SingleShop(router) = x
  BY <1>2, <1>3
<1>5. router.corp # None
  <2>1. NewRouter.shops = {}
    BY DEF NewRouter
  <2>2. router # NewRouter
    BY <1>3, <2>1
  <2> QED
    BY <2>2, WecomIngressAssumption DEF RouterInv, Reload, Shops
<1> QED
  BY <1>3, <1>4, <1>5, ReloadKnows DEF RouterInv

\* An event goes to the owner of its account; one of an account nobody owns, to the one shop there is.
LEMMA RouteInBoundary ==
    ASSUME RouterInv, NEW m \in Msgs, m.kind = "event", router.corp # None, Route(m) # None, rows = loaded
    PROVE  \/ Route(m) \in Owners(rows, m.kf)
           \/ Owners(rows, m.kf) = {} /\ Exists(rows) = {Route(m)}
<1>1. m.kf \in Kfs /\ m.kf # NoKf
  BY WecomIngressAssumption
<1>2. router = Reload(loaded)
  BY DEF RouterInv
<1>3. CASE router.kf[m.kf] # None
  <2>1. Route(m) = router.kf[m.kf]
    BY <1>1, <1>3 DEF Route
  <2> QED
    BY <1>1, <1>2, <1>3, <2>1, ReloadKnows
<1>4. CASE router.kf[m.kf] = None
  <2>1. Route(m) = SingleShop(router)
    BY <1>1, <1>4 DEF Route
  <2>2. Owners(loaded, m.kf) = {}
    BY <1>1, <1>2, <1>4, ReloadKnows
  <2> QED
    BY <2>1, <2>2, SingleIsAll
<1> QED
  BY <1>3, <1>4

LEMMA RouteTyped ==
    ASSUME RouterInv, NEW m \in Msgs, Route(m) # None
    PROVE  Route(m) \in Shops
<1>1. router \in Routers
  BY ReloadTyped DEF RouterInv
<1>2. SingleShop(router) # None => SingleShop(router) \in Shops
  BY SingleIsAll DEF Exists
<1>3. m.kf \in Kfs \cup {NoKf}
  BY WecomIngressAssumption
<1> QED
  BY <1>1, <1>2, <1>3 DEF Route, Routers

------------------------------------------------------------------------------
(* They hold from the start and are kept by every step *)

LEMMA InitAll == Init => TypeOK /\ RouterInv /\ HandledInv
<1> SUFFICES ASSUME Init PROVE TypeOK /\ RouterInv /\ HandledInv
  OBVIOUS
<1>1. PICK k \in Kfs \cup {NoKf} : rows = [s \in Shops |-> IF s = Main THEN k ELSE None]
  BY DEF Init
<1>2. rows \in Tables /\ rows[Main] = k /\ Main \in Shops
  BY <1>1 DEF Tables, Shops
<1>3. RouterInv
  BY <1>2, WecomIngressAssumption DEF Init, RouterInv
<1>4. router \in Routers
  BY ReloadTyped DEF Init
<1>5. handled \in [Msgs -> Nat] /\ \A m \in Msgs : handled[m] = 0
  BY DEF Init
<1>6. HandledInv
  BY <1>5 DEF HandledInv
<1> QED
  BY <1>2, <1>3, <1>4, <1>5, <1>6, WecomIngressAssumption DEF Init, TypeOK, Routers, Tables

LEMMA StepRouter ==
    ASSUME RouterInv, [Next]_vars
    PROVE  RouterInv'
<1>1. ASSUME NEW s \in Branches, CreateSubsidiaryShop(s) PROVE RouterInv'
  <2>1. s \in Shops /\ s # Main /\ Main \in Shops
    BY WecomIngressAssumption DEF Shops
  <2> QED
    BY <1>1, <2>1 DEF CreateSubsidiaryShop, RouterInv, Tables
<1>2. ASSUME NEW s \in Shops, NEW k \in Kfs, AssignKf(s, k) PROVE RouterInv'
  <2>1. k # None /\ Main \in Shops
    BY WecomIngressAssumption DEF Shops
  <2> QED
    BY <1>2, <2>1 DEF AssignKf, RouterInv, Tables
<1>3. CASE UNCHANGED <<rows, loaded, router>>
  BY <1>3 DEF RouterInv
<1>4. CASE Restart
  BY <1>4 DEF Restart, RouterInv
<1> QED
  BY <1>1, <1>2, <1>3, <1>4 DEF Next, vars, Callback, CallbackUnsure, TaskDone

LEMMA StepHandled ==
    ASSUME HandledInv, [Next]_vars
    PROVE  HandledInv'
<1>1. CASE UNCHANGED <<seen, handled, unsure>>
  BY <1>1 DEF HandledInv, Known
<1>2. ASSUME NEW m \in Msgs, Callback(m) PROVE HandledInv'
  <2>1. handled' = [handled EXCEPT ![m] = @ + 1] /\ unsure' = unsure /\ ~Known(m)
        /\ seen' = IF m.id = NoId THEN seen ELSE seen \cup {m}
    BY <1>2 DEF Callback, Handle, Mark
  <2>2. handled' \in [Msgs -> Nat] /\ \A n \in Msgs : handled'[n] = IF n = m THEN handled[m] + 1 ELSE handled[n]
    BY <2>1 DEF HandledInv
  <2>3. \A n \in Msgs : Known(n) => Known(n)'
    BY <2>1 DEF Known
  <2>4. m.id # NoId => Known(m)'
    BY <2>1 DEF Known
  <2>5. m.id # NoId /\ m \notin unsure => handled[m] = 0
    BY <2>1 DEF HandledInv
  <2> QED
    BY <2>1, <2>2, <2>3, <2>4, <2>5 DEF HandledInv
<1>3. ASSUME NEW m \in Msgs, CallbackUnsure(m) PROVE HandledInv'
  <2>1. handled' = [handled EXCEPT ![m] = @ + 1] /\ unsure' = unsure \cup {m} /\ seen' = seen
    BY <1>3 DEF CallbackUnsure, Handle
  <2>2. handled' \in [Msgs -> Nat] /\ \A n \in Msgs : handled'[n] = IF n = m THEN handled[m] + 1 ELSE handled[n]
    BY <2>1 DEF HandledInv
  <2> QED
    BY <2>1, <2>2 DEF HandledInv, Known
<1> QED
  BY <1>1, <1>2, <1>3 DEF Next, vars, CreateSubsidiaryShop, AssignKf, TaskDone, Restart

LEMMA StepTypes ==
    ASSUME TypeOK, RouterInv, RouterInv', HandledInv', [Next]_vars
    PROVE  TypeOK'
<1>1. router' \in Routers
  <2>1. \A t : Reload(t) \in Routers
    BY ReloadTyped
  <2> QED
    BY <2>1 DEF RouterInv
<1>2. ASSUME NEW m \in Msgs, Callback(m) \/ CallbackUnsure(m) PROVE TypeOK'
  <2>1. Route(m) \in Shops
    BY <1>2, RouteTyped DEF Callback, CallbackUnsure
  <2>2. tasks' \subseteq [msg : Msgs, shop : Shops]
    BY <1>2, <2>1 DEF Callback, CallbackUnsure, Handle, TypeOK
  <2>3. seen' \subseteq Msgs /\ unsure' \subseteq Msgs /\ faults' \in 0..MaxFaults
    BY <1>2, WecomIngressAssumption DEF Callback, CallbackUnsure, Mark, TypeOK
  <2> QED
    BY <1>1, <2>2, <2>3 DEF TypeOK, RouterInv, HandledInv, Routers, Tables
<1>3. CASE Restart
  <2>1. faults' \in 0..MaxFaults
    BY <1>3, WecomIngressAssumption DEF Restart, TypeOK
  <2> QED
    BY <1>1, <1>3, <2>1 DEF Restart, TypeOK, RouterInv, HandledInv, Routers, Tables
<1>4. CASE tasks' \subseteq tasks /\ UNCHANGED <<seen, unsure, faults>>
  BY <1>1, <1>4 DEF TypeOK, RouterInv, HandledInv, Routers, Tables
<1> QED
  BY <1>2, <1>3, <1>4 DEF Next, vars, CreateSubsidiaryShop, AssignKf, TaskDone

LEMMA IngressInvs == Spec => [](TypeOK /\ RouterInv /\ HandledInv)
<1>1. TypeOK /\ RouterInv /\ HandledInv /\ [Next]_vars => (TypeOK /\ RouterInv /\ HandledInv)'
  BY StepRouter, StepHandled, StepTypes
<1> QED
  BY <1>1, InitAll, PTL DEF Spec

\* Every reachable state of the ingress is well typed; in particular a goroutine works for a shop.
THEOREM IngressTypes == Spec => []TypeOK
BY IngressInvs, PTL

\* A callback that is repeated, before or after its answer and across restarts, is handled once,
\* unless the deduplication itself failed (MarkMessageProcessed, wecom/dedup.go).
THEOREM NobodyHandledTwice == Spec => []HandledOnce
<1>1. HandledInv => HandledOnce
  BY DEF HandledInv, HandledOnce
<1> QED
  BY <1>1, IngressInvs, PTL

LEMMA StepBoundary ==
    ASSUME TypeOK, RouterInv, Next
    PROVE  WithinBoundary
<1> SUFFICES ASSUME NEW t \in tasks' \ tasks, t.msg.kind = "event", rows = loaded
             PROVE  t.shop \in Owners(rows, t.msg.kf) \/ (Owners(rows, t.msg.kf) = {} /\ Exists(rows) = {t.shop})
  BY DEF WithinBoundary
<1>1. PICK m \in Msgs : Callback(m) \/ CallbackUnsure(m)
  BY DEF Next, CreateSubsidiaryShop, AssignKf, TaskDone, Restart
<1>2. t = [msg |-> m, shop |-> Route(m)] /\ router.corp # None /\ Route(m) # None
  BY <1>1 DEF Callback, CallbackUnsure, Handle
<1>3. t.msg = m /\ t.shop = Route(m)
  BY <1>2
<1> QED
  BY <1>2, <1>3, RouteInBoundary

\* The account is the boundary between shops: while the table is as the process read it, an event is
\* handled for a shop that owns its account, or for the only shop there is (wecom/router.go and
\* registerWeComCallback of server/server.go).
THEOREM AccountsAreBoundaries == Spec => KfIsBoundary
<1>1. TypeOK /\ RouterInv /\ [Next]_vars => [WithinBoundary]_vars
  BY StepBoundary
<1> QED
  BY <1>1, IngressInvs, PTL DEF Spec, KfIsBoundary

------------------------------------------------------------------------------
(* The customers: what the transactions and the calls keep *)

CustomerRow ==
    [used : BOOLEAN, name : Names \cup {Blank}, open : Ids \cup {Blank}, ext : Ids \cup {Blank},
     phone : Phones \cup {Blank}, verified : BOOLEAN]
Columns == {"used", "name", "open", "ext", "phone", "verified"}
Asks == [phone : Phones \cup {Blank}, name : Names \cup {Blank}]
WritePlans == [kind : {"none", "insert", "update"}, row : Rows \cup {NoRow}, columns : SUBSET Columns]

IdentTypes ==
    /\ required \in BOOLEAN
    /\ cust \in [Rows -> CustomerRow]
    /\ pc \in [Idents -> Ident!Labels]
    /\ ask \in [Idents -> Asks]
    /\ held \in [Idents -> [stored : Nat, given : Nat]]
    /\ plan \in [Idents -> WritePlans]
    /\ live \in [Phones -> Nat] /\ sent \in [Phones -> Nat]
    /\ booked \in [Idents -> Rows \cup {NoRow}]
    /\ raced \subseteq Phones /\ orphans \subseteq Names
    /\ \A i \in Idents : pc[i] # "idle" => ask[i].phone \in Phones /\ ask[i].name \in Names
    /\ \A i \in Idents : pc[i] \notin {"binding", "upserting"} => plan[i] = Ident!NoPlan
    /\ \A i \in Idents : pc[i] \in {"binding", "upserting"} => plan[i].kind \in {"insert", "update"}

\* A row came from the backfill, or carries the two ids of one identity and a phone.
Bare(c) == c.open = Blank /\ c.ext = Blank /\ c.phone = Blank /\ ~c.verified
Full(c) == c.used /\ c.phone \in Phones /\ \E k \in Idents : c.open = OpenOf[k] /\ c.ext = ExtOf[k]

Carries(c, i) == c.ext = ExtOf[i] \/ c.open = OpenOf[i]

\* A phone was verified by its owner, for a row that carries one of his ids.
RowsInv ==
    \A r \in Rows :
        /\ Bare(cust[r]) \/ Full(cust[r])
        /\ cust[r].verified =>
              required /\ \E j \in Idents : PersonOf[j] = PhoneOwner[cust[r].phone] /\ Carries(cust[r], j)

\* What a call knows about its code.
CodeFor(i) ==
    /\ pc[i] \in Ident!Labels \ {"idle", "ready", "upserting"} => required
    /\ pc[i] = "counting" =>
          held[i].stored # 0 /\ (held[i].given # 0 => PhoneOwner[ask[i].phone] = PersonOf[i])
    /\ pc[i] \in {"comparing", "bind", "binding"} => PhoneOwner[ask[i].phone] = PersonOf[i]

NewBound == {"used", "open", "ext", "phone", "verified"}
NewAsked == {"used", "name", "open", "ext", "phone"}

\* What a transaction is about to write.
PlanFor(i) ==
    /\ plan[i].kind = "update" => plan[i].row \in Rows /\ cust[plan[i].row].used
    /\ pc[i] = "binding" =>
          \/ plan[i].kind = "insert" /\ plan[i].columns = NewBound
          \/ /\ plan[i].kind = "update" /\ plan[i].columns = {"phone", "verified"}
             /\ Full(cust[plan[i].row]) /\ Carries(cust[plan[i].row], i)
    /\ pc[i] = "upserting" =>
          \/ plan[i].kind = "insert" /\ plan[i].columns = NewAsked /\ ~required
          \/ /\ plan[i].kind = "update"
             /\ \/ plan[i].columns \subseteq {"name"} /\ Full(cust[plan[i].row])
                \/ plan[i].columns = {"phone", "open", "ext"} /\ ~required

\* Two transactions about one phone have met.
PlansMeet ==
    \A i, j \in Idents :
        i # j /\ plan[i].kind # "none" /\ plan[j].kind # "none" /\ ask[i].phone = ask[j].phone
            => ask[i].phone \in raced

\* A transaction writes a phone that is on no other row.
PhoneFree(i) ==
    \A s \in Rows :
        plan[i].kind # "none" /\ "phone" \in plan[i].columns /\ cust[s].phone = ask[i].phone
            => ask[i].phone \in raced \/ (plan[i].kind = "update" /\ s = plan[i].row)

Clear(i) == \A j \in Idents : PersonOf[j] = PersonOf[i] => ~Ident!Shared(OpenOf[j])
Apart(i) == {j \in Idents : OpenOf[j] = OpenOf[i] \/ ExtOf[j] = ExtOf[i]} = {i}

\* A row is right for an identity to book on.
Right(c, i) ==
    /\ Full(c)
    /\ Clear(i) => \E j \in Idents : PersonOf[j] = PersonOf[i] /\ c.ext = ExtOf[j]
    /\ Apart(i) => c.ext = ExtOf[i]

\* With the verification on, a call that may book is known, and its phone is verified.
ReadyFor(i) ==
    required /\ pc[i] \in {"ready", "upserting"} =>
        /\ \E r \in Rows : cust[r].used /\ Carries(cust[r], i)
        /\ ask[i].phone \in raced \/ \A s \in Rows : cust[s].phone = ask[i].phone => cust[s].verified
        /\ Clear(i) => PhoneOwner[ask[i].phone] = PersonOf[i]
        /\ Apart(i) => \E r \in Rows : cust[r].phone = ask[i].phone /\ cust[r].ext = ExtOf[i]

BookFor(i) ==
    required /\ pc[i] = "upserting" =>
        ask[i].phone \in raced \/ (plan[i].kind = "update" /\ Right(cust[plan[i].row], i))

Booked(i) == booked[i] # NoRow => required /\ Right(cust[booked[i]], i)

CallInv(i) == CodeFor(i) /\ PlanFor(i) /\ PhoneFree(i) /\ ReadyFor(i) /\ BookFor(i) /\ Booked(i)

IdentInv == IdentTypes /\ RowsInv /\ Ident!OnePhoneOneCustomer /\ PlansMeet /\ \A i \in Idents : CallInv(i)

------------------------------------------------------------------------------
(* Types *)

LEMMA IdentFacts ==
    /\ Blank \notin Ids /\ Blank \notin Phones /\ Blank \notin Names /\ NoRow \notin Rows
    /\ PersonOf \in [Idents -> People] /\ OpenOf \in [Idents -> Ids] /\ ExtOf \in [Idents -> Ids]
    /\ PhoneOwner \in [Phones -> People]
    /\ \A i \in Idents : Spellings[i] \subseteq Names /\ Typed[i] \subseteq Phones
    /\ \A i, j \in Idents : ExtOf[i] = ExtOf[j] => PersonOf[i] = PersonOf[j]
    /\ MaxSends \in Nat
BY IdentAssumed DEF Ident!IdentityAssumption

LEMMA IdentTypesInit == Ident!Init => IdentTypes
<1> SUFFICES ASSUME Ident!Init PROVE IdentTypes
  OBVIOUS
<1>1. Ident!NoCustomer \in CustomerRow /\ Ident!NoAsk \in Asks /\ Ident!NoPlan \in WritePlans
  BY DEF Ident!NoCustomer, CustomerRow, Ident!NoAsk, Asks, Ident!NoPlan, WritePlans
<1>2. Ident!NoHeld \in [stored : Nat, given : Nat]
  BY DEF Ident!NoHeld
<1> QED
  BY <1>1, <1>2 DEF Ident!Init, IdentTypes, Ident!Labels

\* The row that a call writes.
LEMMA WrittenForm ==
    ASSUME IdentTypes, NEW i \in Idents, pc[i] # "idle", NEW r \in Rows
    PROVE  LET w == Ident!Written(i, r)
               In(f) == f \in plan[i].columns
           IN
           /\ w \in CustomerRow
           /\ w.used = IF In("used") THEN TRUE ELSE cust[r].used
           /\ w.open = IF In("open") THEN OpenOf[i] ELSE cust[r].open
           /\ w.ext = IF In("ext") THEN ExtOf[i] ELSE cust[r].ext
           /\ w.phone = IF In("phone") THEN ask[i].phone ELSE cust[r].phone
           /\ w.verified = IF In("verified") THEN TRUE ELSE cust[r].verified
<1> DEFINE w == Ident!Written(i, r)
           In(f) == f \in plan[i].columns
<1>1. DOMAIN Ident!NoCustomer = Columns
  BY DEF Ident!NoCustomer, Columns
<1>2. w = [f \in Columns |-> IF In(f) THEN Ident!Mine(i)[f] ELSE cust[r][f]]
  BY <1>1 DEF Ident!Written
<1>3. /\ Ident!Mine(i)["used"] = TRUE /\ Ident!Mine(i)["name"] = ask[i].name /\ Ident!Mine(i)["open"] = OpenOf[i]
      /\ Ident!Mine(i)["ext"] = ExtOf[i] /\ Ident!Mine(i)["phone"] = ask[i].phone /\ Ident!Mine(i)["verified"] = TRUE
  BY DEF Ident!Mine
<1>4. /\ w["used"] = IF In("used") THEN TRUE ELSE cust[r]["used"]
      /\ w["name"] = IF In("name") THEN ask[i].name ELSE cust[r]["name"]
      /\ w["open"] = IF In("open") THEN OpenOf[i] ELSE cust[r]["open"]
      /\ w["ext"] = IF In("ext") THEN ExtOf[i] ELSE cust[r]["ext"]
      /\ w["phone"] = IF In("phone") THEN ask[i].phone ELSE cust[r]["phone"]
      /\ w["verified"] = IF In("verified") THEN TRUE ELSE cust[r]["verified"]
  <2> HIDE DEF In
  <2> QED
    BY <1>2, <1>3 DEF Columns
<1>5. /\ cust[r].used \in BOOLEAN /\ cust[r].name \in Names \cup {Blank} /\ cust[r].open \in Ids \cup {Blank}
      /\ cust[r].ext \in Ids \cup {Blank} /\ cust[r].phone \in Phones \cup {Blank} /\ cust[r].verified \in BOOLEAN
  BY DEF IdentTypes, CustomerRow
<1>6. ask[i].name \in Names /\ ask[i].phone \in Phones /\ OpenOf[i] \in Ids /\ ExtOf[i] \in Ids
  BY IdentFacts DEF IdentTypes
<1>7. w = [used |-> w["used"], name |-> w["name"], open |-> w["open"], ext |-> w["ext"],
           phone |-> w["phone"], verified |-> w["verified"]]
  <2> HIDE DEF In
  <2>1. DOMAIN w = Columns /\ w = [f \in DOMAIN w |-> w[f]]
    BY <1>2
  <2> HIDE DEF w
  <2> QED
    BY <2>1 DEF Columns
<1>8. w \in CustomerRow
  <2> HIDE DEF w, In
  <2>1. /\ w["used"] \in BOOLEAN /\ w["name"] \in Names \cup {Blank} /\ w["open"] \in Ids \cup {Blank}
        /\ w["ext"] \in Ids \cup {Blank} /\ w["phone"] \in Phones \cup {Blank} /\ w["verified"] \in BOOLEAN
    BY <1>4, <1>5, <1>6
  <2> QED
    BY <1>7, <2>1 DEF CustomerRow
<1> HIDE DEF w
<1> QED
  BY <1>4, <1>8 DEF w

\* What a step leaves alone when only the call of i goes on.
OthersKeep(i) ==
    \A j \in Idents \ {i} :
        pc'[j] = pc[j] /\ ask'[j] = ask[j] /\ held'[j] = held[j] /\ plan'[j] = plan[j]

LEMMA CallFields ==
    ASSUME IdentTypes, NEW i \in Idents
    PROVE  /\ \A label : Ident!Goto(i, label) =>
                 pc'[i] = label /\ \A j \in Idents \ {i} : pc'[j] = pc[j]
           /\ UNCHANGED Ident!request => \A j \in Idents : ask'[j] = ask[j] /\ held'[j] = held[j] /\ plan'[j] = plan[j]
           /\ Ident!Return(i) => /\ pc'[i] = "idle" /\ ask'[i] = Ident!NoAsk /\ held'[i] = Ident!NoHeld /\ plan'[i] = Ident!NoPlan
                                 /\ OthersKeep(i)
BY DEF IdentTypes, Ident!Goto, Ident!Return, OthersKeep, Ident!request

\* The tables of calls keep their types when one entry of each does.
LEMMA CallTypes ==
    ASSUME IdentTypes, NEW i \in Idents, OthersKeep(i),
           pc' \in [Idents -> Ident!Labels], ask' \in [Idents -> Asks],
           held' \in [Idents -> [stored : Nat, given : Nat]], plan' \in [Idents -> WritePlans],
           UNCHANGED <<required, orphans>>, cust' \in [Rows -> CustomerRow],
           live' \in [Phones -> Nat], sent' \in [Phones -> Nat],
           booked' \in [Idents -> Rows \cup {NoRow}], raced' \subseteq Phones,
           pc'[i] # "idle" => ask'[i].phone \in Phones /\ ask'[i].name \in Names,
           pc'[i] \notin {"binding", "upserting"} => plan'[i] = Ident!NoPlan,
           pc'[i] \in {"binding", "upserting"} => plan'[i].kind \in {"insert", "update"}
    PROVE  IdentTypes'
BY DEF IdentTypes, OthersKeep

LEMMA ReturnTypes ==
    ASSUME IdentTypes, NEW i \in Idents, Ident!Return(i),
           UNCHANGED <<required, orphans>>, cust' \in [Rows -> CustomerRow],
           live' \in [Phones -> Nat], sent' \in [Phones -> Nat],
           booked' \in [Idents -> Rows \cup {NoRow}], raced' \subseteq Phones
    PROVE  IdentTypes'
<1>1. Ident!NoAsk \in Asks /\ Ident!NoPlan \in WritePlans /\ Ident!NoHeld \in [stored : Nat, given : Nat] /\ "idle" \in Ident!Labels
  BY DEF Ident!NoAsk, Asks, Ident!NoPlan, WritePlans, Ident!NoHeld, Ident!Labels
<1>2. /\ pc' \in [Idents -> Ident!Labels] /\ ask' \in [Idents -> Asks]
      /\ held' \in [Idents -> [stored : Nat, given : Nat]] /\ plan' \in [Idents -> WritePlans]
  BY <1>1 DEF IdentTypes, Ident!Return, Ident!Goto
<1> QED
  BY <1>2, CallFields, CallTypes

\* The call goes on without a transaction.
LEMMA GotoTypes ==
    ASSUME IdentTypes, NEW i \in Idents, NEW label \in Ident!Labels \ {"idle", "binding", "upserting"},
           Ident!Goto(i, label), UNCHANGED <<required, orphans, cust, plan, booked, raced>>,
           pc[i] \notin {"binding", "upserting"},
           held' \in [Idents -> [stored : Nat, given : Nat]], \A j \in Idents \ {i} : held'[j] = held[j],
           live' \in [Phones -> Nat], sent' \in [Phones -> Nat],
           ask' \in [Idents -> Asks], \A j \in Idents \ {i} : ask'[j] = ask[j],
           ask'[i].phone \in Phones /\ ask'[i].name \in Names
    PROVE  IdentTypes'
<1>1. pc' \in [Idents -> Ident!Labels] /\ OthersKeep(i) /\ pc'[i] = label
  BY DEF IdentTypes, Ident!Goto, OthersKeep
<1>2. /\ plan' \in [Idents -> WritePlans] /\ cust' \in [Rows -> CustomerRow]
      /\ booked' \in [Idents -> Rows \cup {NoRow}] /\ raced' \subseteq Phones
      /\ plan'[i] = Ident!NoPlan /\ UNCHANGED <<required, orphans>>
  BY DEF IdentTypes
<1> QED
  BY <1>1, <1>2, CallTypes

\* The invariant without the types, from one call that goes on over the same table.
LEMMA OneCall ==
    ASSUME IdentInv, NEW i \in Idents, UNCHANGED <<required, orphans, cust, booked>>, raced \subseteq raced',
           OthersKeep(i), IdentTypes',
           CodeFor(i)', PlanFor(i)', PhoneFree(i)', ReadyFor(i)', BookFor(i)',
           \A j \in Idents \ {i} :
               plan'[i].kind # "none" /\ plan[j].kind # "none" /\ ask'[i].phone = ask[j].phone
                   => ask[j].phone \in raced'
    PROVE  IdentInv'
<1>1. RowsInv'
  BY DEF IdentInv, RowsInv
<1>2. Ident!OnePhoneOneCustomer'
  BY DEF IdentInv, Ident!OnePhoneOneCustomer
<1>3. PlansMeet'
  <2> SUFFICES ASSUME NEW j \in Idents, NEW k \in Idents, j # k, plan'[j].kind # "none", plan'[k].kind # "none",
                      ask'[j].phone = ask'[k].phone
               PROVE  ask'[j].phone \in raced'
    BY DEF PlansMeet
  <2>1. CASE j = i
    BY <2>1 DEF OthersKeep
  <2>2. CASE k = i
    BY <2>2 DEF OthersKeep
  <2>3. CASE j # i /\ k # i
    BY <2>3 DEF OthersKeep, IdentInv, PlansMeet
  <2> QED
    BY <2>1, <2>2, <2>3
<1>4. ASSUME NEW j \in Idents PROVE CallInv(j)'
  <2>1. CASE j = i
    BY <2>1 DEF IdentInv, CallInv, Booked
  <2>2. CASE j # i
    <3>1. CallInv(j) /\ pc'[j] = pc[j] /\ ask'[j] = ask[j] /\ held'[j] = held[j] /\ plan'[j] = plan[j]
      BY <2>2 DEF IdentInv, OthersKeep
    <3>2. CodeFor(j)' /\ PlanFor(j)' /\ Booked(j)'
      BY <3>1 DEF CallInv, CodeFor, PlanFor, Booked
    <3>3. PhoneFree(j)'
      BY <3>1 DEF CallInv, PhoneFree
    <3>4. ReadyFor(j)' /\ BookFor(j)'
      BY <3>1 DEF CallInv, ReadyFor, BookFor
    <3> QED
      BY <3>2, <3>3, <3>4 DEF CallInv
  <2> QED
    BY <2>1, <2>2
<1> QED
  BY <1>1, <1>2, <1>3, <1>4 DEF IdentInv

LEMMA CallMoves ==
    ASSUME IdentInv, NEW i \in Idents, UNCHANGED <<required, orphans, cust, booked, raced>>,
           OthersKeep(i), IdentTypes', pc'[i] \notin {"binding", "upserting"},
           CodeFor(i)', ReadyFor(i)'
    PROVE  IdentInv'
<1>1. plan'[i] = Ident!NoPlan /\ plan'[i].kind = "none"
  BY DEF IdentTypes, Ident!NoPlan
<1>2. PlanFor(i)' /\ PhoneFree(i)' /\ BookFor(i)'
  BY <1>1 DEF PlanFor, PhoneFree, BookFor
<1> QED
  BY <1>1, <1>2, OneCall

LEMMA CallReturns ==
    ASSUME IdentInv, NEW i \in Idents, UNCHANGED <<required, orphans, cust, booked, raced>>, Ident!Return(i),
           live' \in [Phones -> Nat], sent' \in [Phones -> Nat]
    PROVE  IdentInv'
<1>1. IdentTypes'
  BY ReturnTypes DEF IdentInv, IdentTypes
<1>2. pc'[i] = "idle" /\ OthersKeep(i)
  BY CallFields DEF IdentInv
<1>3. CodeFor(i)' /\ ReadyFor(i)'
  BY <1>2 DEF CodeFor, ReadyFor
<1> QED
  BY <1>1, <1>2, <1>3, CallMoves

------------------------------------------------------------------------------
(* Ident!Start and the verification *)

LEMMA AskedFields ==
    ASSUME IdentTypes, NEW i \in Idents, pc[i] # "idle"
    PROVE  ask[i].phone \in Phones /\ ask[i].name \in Names
BY DEF IdentTypes

\* A row with an id of someone whose ids are his own is his alone.
LEMMA OneCarrier ==
    ASSUME NEW c, Full(c), NEW i \in Idents, NEW j \in Idents, Carries(c, i), Carries(c, j), Clear(i)
    PROVE  PersonOf[j] = PersonOf[i]
<1>1. PICK k \in Idents : c.open = OpenOf[k] /\ c.ext = ExtOf[k]
  BY DEF Full
<1>2. PersonOf[k] = PersonOf[i]
  BY <1>1, IdentFacts DEF Carries, Clear, Ident!Shared
<1> QED
  BY <1>1, <1>2, IdentFacts DEF Carries, Clear, Ident!Shared

LEMMA ApartCarrier ==
    ASSUME NEW c, Full(c), NEW i \in Idents, Carries(c, i), Apart(i)
    PROVE  c.ext = ExtOf[i] /\ c.open = OpenOf[i]
BY DEF Full, Carries, Apart

\* Whoever is known carries an id of the call.
LEMMA IdentifiedRows ==
    ASSUME IdentTypes, RowsInv, NEW i \in Idents, NEW r \in Ident!Identified(i)
    PROVE  /\ r \in Rows /\ cust[r].used /\ Carries(cust[r], i) /\ Full(cust[r])
<1>1. r \in Rows /\ cust[r].used /\ (cust[r].ext = ExtOf[i] \/ cust[r].open = OpenOf[i])
  BY DEF Ident!Identified, Ident!With
<1>2. ~Bare(cust[r])
  BY <1>1, IdentFacts DEF Bare
<1> QED
  BY <1>1, <1>2 DEF RowsInv, Carries

LEMMA StartKeeps ==
    ASSUME IdentInv, NEW i \in Idents, NEW ph \in Phones, NEW n \in Names, Ident!Start(i, ph, n)
    PROVE  IdentInv'
<1>0. IdentTypes /\ RowsInv /\ Ident!OnePhoneOneCustomer
  BY DEF IdentInv
<1> DEFINE label == IF required /\ Ident!NeedsVerification(i, ph) THEN "verify" ELSE "ready"
           a == [phone |-> ph, name |-> n]
<1>1. label \in Ident!Labels \ {"idle", "binding", "upserting"} /\ a \in Asks /\ label \in {"verify", "ready"}
  BY DEF Ident!Labels, Asks
<1>2. /\ Ident!Goto(i, label) /\ ask' = [ask EXCEPT ![i] = a] /\ pc[i] = "idle"
      /\ UNCHANGED <<required, orphans, cust, held, plan, booked, raced, live, sent>>
  BY DEF Ident!Start, Ident!sms
<1>3. ask'[i] = a /\ ask' \in [Idents -> Asks] /\ \A j \in Idents \ {i} : ask'[j] = ask[j]
  BY <1>0, <1>1, <1>2 DEF IdentTypes
<1>4. pc'[i] = label /\ \A j \in Idents \ {i} : pc'[j] = pc[j]
  BY <1>0, <1>2, CallFields
<1>5. IdentTypes'
  <2> HIDE DEF label
  <2>1. held' \in [Idents -> [stored : Nat, given : Nat]] /\ live' \in [Phones -> Nat] /\ sent' \in [Phones -> Nat]
    BY <1>0, <1>2 DEF IdentTypes
  <2>2. ask'[i].phone \in Phones /\ ask'[i].name \in Names
    BY <1>3
  <2> QED
    BY <1>0, <1>1, <1>2, <1>3, <2>1, <2>2, GotoTypes
<1>6. OthersKeep(i)
  BY <1>2, <1>3, <1>4 DEF OthersKeep
<1>7. CodeFor(i)'
  BY <1>2, <1>4 DEF CodeFor, Ident!Labels
<1>8. ReadyFor(i)'
  <2> SUFFICES ASSUME required, label = "ready"
               PROVE  /\ \E r \in Rows : cust[r].used /\ Carries(cust[r], i)
                      /\ ph \in raced \/ \A s \in Rows : cust[s].phone = ph => cust[s].verified
                      /\ Clear(i) => PhoneOwner[ph] = PersonOf[i]
                      /\ Apart(i) => \E r \in Rows : cust[r].phone = ph /\ cust[r].ext = ExtOf[i]
    BY <1>2, <1>3, <1>4 DEF ReadyFor
  <2>1. PICK r \in Ident!Identified(i) : cust[r].phone = ph /\ cust[r].verified
    BY DEF Ident!NeedsVerification
  <2>2. r \in Rows /\ cust[r].used /\ Carries(cust[r], i) /\ Full(cust[r])
    BY <1>0, <2>1, IdentifiedRows
  <2>3. ph \in raced \/ \A s \in Rows : cust[s].phone = ph => cust[s].verified
    BY <1>0, <2>1, <2>2, IdentFacts DEF Ident!OnePhoneOneCustomer
  <2>4. PICK j \in Idents : PersonOf[j] = PhoneOwner[ph] /\ Carries(cust[r], j)
    BY <1>0, <2>1, <2>2 DEF RowsInv
  <2>5. Clear(i) => PhoneOwner[ph] = PersonOf[i]
    BY <2>2, <2>4, OneCarrier
  <2>6. Apart(i) => cust[r].ext = ExtOf[i]
    BY <2>2, ApartCarrier
  <2> QED
    BY <2>1, <2>2, <2>3, <2>5, <2>6
<1> HIDE DEF label
<1>9. pc'[i] \notin {"binding", "upserting"}
  BY <1>1, <1>4
<1> QED
  BY <1>2, <1>5, <1>6, <1>7, <1>8, <1>9, CallMoves

\* The call goes on verifying.
LEMMA VerifyingOn ==
    ASSUME IdentInv, NEW i \in Idents, pc[i] \in Ident!Labels \ {"idle", "ready", "upserting", "binding"},
           NEW label \in Ident!Labels \ {"idle", "binding", "upserting", "ready"}, Ident!Goto(i, label),
           UNCHANGED <<required, orphans, cust, ask, plan, booked, raced>>,
           held' \in [Idents -> [stored : Nat, given : Nat]], \A j \in Idents \ {i} : held'[j] = held[j],
           live' \in [Phones -> Nat], sent' \in [Phones -> Nat],
           label = "counting" =>
               held'[i].stored # 0 /\ (held'[i].given # 0 => PhoneOwner[ask[i].phone] = PersonOf[i]),
           label \in {"comparing", "bind"} => PhoneOwner[ask[i].phone] = PersonOf[i]
    PROVE  IdentInv'
<1>0. IdentTypes /\ required
  BY DEF IdentInv, CallInv, CodeFor
<1>1. ask'[i].phone \in Phones /\ ask'[i].name \in Names /\ ask' \in [Idents -> Asks] /\ ask'[i] = ask[i]
  BY <1>0 DEF IdentTypes
<1>2. IdentTypes'
  BY <1>0, <1>1, GotoTypes
<1>3. pc'[i] = label /\ OthersKeep(i)
  BY <1>0, CallFields DEF OthersKeep
<1>4. CodeFor(i)' /\ ReadyFor(i)'
  BY <1>0, <1>1, <1>3 DEF CodeFor, ReadyFor
<1> QED
  BY <1>2, <1>3, <1>4, CallMoves

LEMMA VerifyingKeeps ==
    ASSUME IdentInv, NEW i \in Idents, Ident!Verifying(i) PROVE IdentInv'
<1>0. IdentTypes /\ CodeFor(i) /\ held \in [Idents -> [stored : Nat, given : Nat]]
      /\ live \in [Phones -> Nat] /\ sent \in [Phones -> Nat]
  BY DEF IdentInv, CallInv, IdentTypes
<1>l. {"verify", "storing", "delivering", "resetting", "counting", "comparing", "bind"} =
          Ident!Labels \ {"idle", "ready", "upserting", "binding"}
  BY DEF Ident!Labels
<1>1. CASE Ident!TakeCooldown(i)
  BY <1>0, <1>1, <1>l, CallReturns, VerifyingOn DEF Ident!TakeCooldown, Ident!sms, Ident!request
<1>2. CASE Ident!StoreCode(i)
  <2>1. ask[i].phone \in Phones
    BY <1>0, <1>2, AskedFields DEF Ident!StoreCode
  <2>2. live' \in [Phones -> Nat] /\ sent' \in [Phones -> Nat]
    BY <1>0, <1>2, <2>1 DEF Ident!StoreCode
  <2> QED
    BY <1>0, <1>2, <1>l, <2>2, CallReturns, VerifyingOn DEF Ident!StoreCode, Ident!request
<1>3. CASE Ident!Deliver(i)
  <2>1. live' \in [Phones -> Nat] /\ sent' \in [Phones -> Nat]
    BY <1>0, <1>3 DEF Ident!Deliver
  <2> QED
    BY <1>0, <1>3, <1>l, <2>1, CallReturns, VerifyingOn DEF Ident!Deliver, Ident!request
<1>4. CASE Ident!ResetTries(i)
  BY <1>0, <1>4, CallReturns DEF Ident!ResetTries
<1>5. ASSUME NEW code \in 0..MaxSends, Ident!ReadCode(i, code) PROVE IdentInv'
  <2>1. CASE Ident!Return(i)
    BY <1>0, <1>5, <2>1, CallReturns DEF Ident!ReadCode, Ident!sms
  <2>2. CASE live[ask[i].phone] # 0 /\ Ident!Goto(i, "counting") /\ UNCHANGED <<ask, plan>>
             /\ held' = [held EXCEPT ![i] = [stored |-> live[ask[i].phone], given |-> code]]
    <3>1. ask[i].phone \in Phones
      BY <1>0, <1>5, AskedFields DEF Ident!ReadCode
    <3>2. live[ask[i].phone] \in Nat /\ code \in Nat
      BY <1>0, <3>1, IdentFacts
    <3>3. held' \in [Idents -> [stored : Nat, given : Nat]] /\ \A j \in Idents \ {i} : held'[j] = held[j]
      BY <1>0, <2>2, <3>2
    <3>4. held'[i].stored # 0 /\ held'[i].given = code
      BY <1>0, <2>2
    <3>5. code # 0 => PhoneOwner[ask[i].phone] = PersonOf[i]
      BY <1>5 DEF Ident!ReadCode
    <3> QED
      BY <1>0, <1>5, <1>l, <2>2, <3>3, <3>4, <3>5, VerifyingOn DEF Ident!ReadCode, Ident!sms
  <2> QED
    BY <1>5, <2>1, <2>2 DEF Ident!ReadCode
<1>6. CASE Ident!CountTry(i)
  <2>1. live' \in [Phones -> Nat] /\ sent' \in [Phones -> Nat]
    BY <1>0, <1>6 DEF Ident!CountTry
  <2>2. held[i].stored = held[i].given => PhoneOwner[ask[i].phone] = PersonOf[i]
    BY <1>0, <1>6 DEF Ident!CountTry, CodeFor
  <2> QED
    BY <1>0, <1>6, <1>l, <2>1, <2>2, CallReturns, VerifyingOn DEF Ident!CountTry, Ident!request
<1>7. CASE Ident!SpendCode(i)
  <2>1. live' \in [Phones -> Nat] /\ sent' \in [Phones -> Nat]
    BY <1>0, <1>7 DEF Ident!SpendCode
  <2>2. PhoneOwner[ask[i].phone] = PersonOf[i]
    BY <1>0, <1>7 DEF Ident!SpendCode, CodeFor
  <2> QED
    BY <1>0, <1>7, <1>l, <2>1, <2>2, CallReturns, VerifyingOn DEF Ident!SpendCode, Ident!request
<1> QED
  BY <1>1, <1>2, <1>3, <1>4, <1>5, <1>6, <1>7 DEF Ident!Verifying

\* A step that no call takes and that leaves the table and the transactions alone.
LEMMA ForgetKeeps ==
    ASSUME IdentInv, NEW ph \in Phones, Ident!Forget(ph) PROVE IdentInv'
<1>1. UNCHANGED <<required, orphans, cust, pc, ask, held, plan, sent, booked, raced>>
  BY DEF Ident!Forget, Ident!request
<1>2. live' \in [Phones -> Nat]
  BY DEF Ident!Forget, IdentInv, IdentTypes
<1>3. IdentTypes'
  BY <1>1, <1>2 DEF IdentInv, IdentTypes
<1>4. (RowsInv /\ Ident!OnePhoneOneCustomer /\ PlansMeet)'
  BY <1>1 DEF IdentInv, RowsInv, Ident!OnePhoneOneCustomer, PlansMeet
<1>5. ASSUME NEW i \in Idents PROVE CallInv(i)'
  <2>1. CallInv(i)
    BY DEF IdentInv
  <2> QED
    BY <1>1, <2>1 DEF CallInv, CodeFor, PlanFor, PhoneFree, ReadyFor, BookFor, Booked
<1> QED
  BY <1>3, <1>4, <1>5 DEF IdentInv

------------------------------------------------------------------------------
(* A transaction reads *)

LEMMA FullRow ==
    ASSUME IdentTypes, RowsInv, NEW r \in Rows, cust[r].phone \in Phones \/ cust[r].open \in Ids \/ cust[r].ext \in Ids
    PROVE  Full(cust[r]) /\ cust[r].used /\ ~Bare(cust[r])
<1>1. ~Bare(cust[r])
  BY IdentFacts DEF Bare
<1> QED
  BY <1>1 DEF RowsInv, Full

LEMMA FullBlanks ==
    ASSUME NEW r \in Rows, Full(cust[r])
    PROVE  Ident!Blanks(r, {"open", "ext"}) = {} /\ Ident!Blanks(r, {"phone", "open", "ext"}) = {}
<1>1. PICK k \in Idents : cust[r].open = OpenOf[k] /\ cust[r].ext = ExtOf[k]
  BY DEF Full
<1>2. cust[r].open \in Ids /\ cust[r].ext \in Ids /\ cust[r].phone \in Phones
  BY <1>1, IdentFacts DEF Full
<1>3. cust[r]["open"] # Blank /\ cust[r]["ext"] # Blank /\ cust[r]["phone"] # Blank
  BY <1>2, IdentFacts
<1> QED
  BY <1>3 DEF Ident!Blanks

LEMMA Planned ==
    ASSUME IdentInv, NEW i \in Idents, NEW label \in {"binding", "upserting"}, NEW kind \in {"insert", "update"},
           NEW r \in Rows \cup {NoRow}, NEW columns \in SUBSET Columns, pc[i] # "idle",
           Ident!Plan(i, label, kind, r, columns), UNCHANGED <<required, orphans, cust, booked, live, sent>>,
           CodeFor(i)', PlanFor(i)', PhoneFree(i)', ReadyFor(i)', BookFor(i)'
    PROVE  IdentInv'
<1>0. IdentTypes
  BY DEF IdentInv
<1> DEFINE p == [kind |-> kind, row |-> r, columns |-> columns]
<1>1. p \in WritePlans /\ label \in Ident!Labels /\ p.kind = kind /\ kind # "none"
  BY DEF WritePlans, Ident!Labels
<1>2. /\ plan' = [plan EXCEPT ![i] = p] /\ Ident!Goto(i, label) /\ UNCHANGED <<ask, held>>
      /\ raced' = IF Ident!Overlap(i) THEN raced \cup {ask[i].phone} ELSE raced
  BY DEF Ident!Plan
<1>3. ask[i].phone \in Phones /\ ask[i].name \in Names
  BY <1>0, AskedFields
<1>4. plan'[i] = p /\ OthersKeep(i) /\ pc'[i] = label
  BY <1>0, <1>2, CallFields DEF IdentTypes, OthersKeep
<1>5. raced \subseteq raced' /\ raced' \subseteq Phones
  BY <1>0, <1>2, <1>3 DEF IdentTypes
<1>6. IdentTypes'
  <2>1. pc' \in [Idents -> Ident!Labels] /\ plan' \in [Idents -> WritePlans]
    BY <1>0, <1>1, <1>2 DEF IdentTypes, Ident!Goto
  <2>2. /\ ask' \in [Idents -> Asks] /\ held' \in [Idents -> [stored : Nat, given : Nat]]
        /\ cust' \in [Rows -> CustomerRow] /\ live' \in [Phones -> Nat] /\ sent' \in [Phones -> Nat]
        /\ booked' \in [Idents -> Rows \cup {NoRow}] /\ UNCHANGED <<required, orphans>>
    BY <1>0, <1>2 DEF IdentTypes
  <2>3. /\ pc'[i] # "idle" => ask'[i].phone \in Phones /\ ask'[i].name \in Names
        /\ pc'[i] \in {"binding", "upserting"} => plan'[i].kind \in {"insert", "update"}
        /\ pc'[i] \notin {"binding", "upserting"} => plan'[i] = Ident!NoPlan
    BY <1>1, <1>2, <1>3, <1>4
  <2> QED
    BY <1>0, <1>4, <1>5, <2>1, <2>2, <2>3, CallTypes
<1>7. ASSUME NEW j \in Idents \ {i}, plan[j].kind # "none", ask'[i].phone = ask[j].phone
      PROVE  ask[j].phone \in raced'
  BY <1>2, <1>7 DEF Ident!Overlap
<1> QED
  BY <1>4, <1>5, <1>6, <1>7, OneCall

LEMMA BindReadKeeps ==
    ASSUME IdentInv, NEW i \in Idents, Ident!BindRead(i) PROVE IdentInv'
<1> DEFINE ph == ask[i].phone
           owners == Ident!With("phone", ph)
           self == Ident!Identified(i)
<1>0. /\ IdentTypes /\ RowsInv /\ Ident!OnePhoneOneCustomer /\ CodeFor(i) /\ pc[i] = "bind"
      /\ UNCHANGED <<required, orphans, cust, live, sent, booked>>
  BY DEF IdentInv, CallInv, Ident!BindRead, Ident!sms
<1>1. required /\ PhoneOwner[ph] = PersonOf[i] /\ ph \in Phones
  BY <1>0, AskedFields DEF CodeFor, Ident!Labels
<1>2. \A s \in Rows : cust[s].phone = ph <=> s \in owners
  BY <1>0, <1>1, FullRow DEF Ident!With
<1>3. ASSUME NEW r \in self, owners = {} \/ r \in owners, Ident!PlanBind(i, r) PROVE IdentInv'
  <2>1. r \in Rows /\ cust[r].used /\ Carries(cust[r], i) /\ Full(cust[r])
    BY <1>0, IdentifiedRows
  <2> DEFINE columns == {"phone", "verified"}
  <2>2. Ident!Plan(i, "binding", "update", r, columns) /\ columns \in SUBSET Columns
    BY <1>3, <2>1, FullBlanks DEF Ident!PlanBind, Columns
  <2>3. /\ pc'[i] = "binding" /\ ask' = ask /\ plan'[i] = [kind |-> "update", row |-> r, columns |-> columns]
        /\ raced \subseteq raced'
    BY <1>0, <2>2 DEF Ident!Plan, Ident!Goto, IdentTypes
  <2>4. CodeFor(i)' /\ ReadyFor(i)' /\ BookFor(i)'
    BY <1>0, <1>1, <2>3 DEF CodeFor, ReadyFor, BookFor
  <2>5. PlanFor(i)'
    BY <1>0, <2>1, <2>3 DEF PlanFor
  <2>6. PhoneFree(i)'
    <3> SUFFICES ASSUME NEW s \in Rows, cust[s].phone = ph, s # r PROVE ph \in raced
      BY <1>0, <2>3 DEF PhoneFree
    <3>1. r \in owners
      BY <1>2, <1>3
    <3> QED
      BY <1>0, <1>1, <1>2, <2>1, <3>1, IdentFacts DEF Ident!OnePhoneOneCustomer
  <2> HIDE DEF columns
  <2> QED
    BY <1>0, <2>1, <2>2, <2>4, <2>5, <2>6, Planned
<1>4. CASE Ident!AlreadyBound(i)
  <2>1. live' \in [Phones -> Nat] /\ sent' \in [Phones -> Nat]
    BY <1>0 DEF IdentTypes
  <2> QED
    BY <1>0, <1>4, <2>1, CallReturns DEF Ident!AlreadyBound
<1>5. ASSUME self = {}, NEW r \in owners, Ident!Adoptable(i, r) PROVE FALSE
  <2>1. r \in Rows /\ Full(cust[r]) /\ cust[r].used
    BY <1>0, <1>1, <1>2, FullRow DEF Ident!With
  <2>2. PICK k \in Idents : cust[r].ext = ExtOf[k]
    BY <2>1 DEF Full
  <2>3. cust[r].ext = ExtOf[i]
    BY <1>5, <2>2, IdentFacts DEF Ident!Adoptable
  <2>4. r \in Ident!With("ext", ExtOf[i])
    BY <2>1, <2>3 DEF Ident!With
  <2> QED
    BY <1>5, <2>4 DEF Ident!Identified
<1>6. CASE owners = {} /\ Ident!PlanNewBound(i)
  <2>1. Ident!Plan(i, "binding", "insert", NoRow, NewBound) /\ NewBound \in SUBSET Columns
    BY <1>6 DEF Ident!PlanNewBound, NewBound, Columns
  <2>2. /\ pc'[i] = "binding" /\ ask' = ask /\ plan'[i] = [kind |-> "insert", row |-> NoRow, columns |-> NewBound]
    BY <1>0, <2>1 DEF Ident!Plan, Ident!Goto, IdentTypes
  <2>3. CodeFor(i)' /\ ReadyFor(i)' /\ BookFor(i)'
    BY <1>0, <1>1, <2>2 DEF CodeFor, ReadyFor, BookFor
  <2>4. PlanFor(i)'
    BY <2>2 DEF PlanFor
  <2>5. PhoneFree(i)'
    BY <1>0, <1>2, <1>6, <2>2 DEF PhoneFree
  <2> QED
    BY <1>0, <2>1, <2>3, <2>4, <2>5, Planned
<1> QED
  BY <1>3, <1>4, <1>5, <1>6 DEF Ident!BindRead

LEMMA Hits ==
    ASSUME NEW i \in Idents
    PROVE  /\ Ident!Hit(i, 1) = Ident!With("phone", ask[i].phone)
           /\ Ident!Hit(i, 2) = Ident!With("open", OpenOf[i])
           /\ Ident!Hit(i, 3) = Ident!With("ext", ExtOf[i])
           /\ Ident!UpsertOrder[4] = "name"
BY DEF Ident!Hit, Ident!UpsertOrder, Ident!Mine

\* Who a ready call may book on with the verification on.
LEMMA RightHit ==
    ASSUME IdentInv, NEW i \in Idents, required, pc[i] = "ready", ask[i].phone \notin raced,
           NEW r \in Ident!Hit(i, 1) \cup Ident!Hit(i, 2) \cup Ident!Hit(i, 3)
    PROVE  Right(cust[r], i)
<1>0. IdentTypes /\ RowsInv /\ Ident!OnePhoneOneCustomer /\ ReadyFor(i)
  BY DEF IdentInv, CallInv
<1> DEFINE ph == ask[i].phone
<1>1. /\ \A s \in Rows : cust[s].phone = ph => cust[s].verified
      /\ Clear(i) => PhoneOwner[ph] = PersonOf[i]
      /\ Apart(i) => \E s \in Rows : cust[s].phone = ph /\ cust[s].ext = ExtOf[i]
  BY <1>0 DEF ReadyFor
<1>2. ph \in Phones /\ OpenOf[i] \in Ids /\ ExtOf[i] \in Ids /\ r \in Rows
  BY <1>0, AskedFields, IdentFacts, Hits DEF Ident!With
<1>3. cust[r].phone = ph \/ Carries(cust[r], i)
  BY Hits DEF Ident!With, Carries
<1>4. Full(cust[r])
  BY <1>0, <1>2, FullRow, Hits DEF Ident!With
<1>5. PICK k \in Idents : cust[r].open = OpenOf[k] /\ cust[r].ext = ExtOf[k]
  BY <1>4 DEF Full
<1>6. ASSUME Clear(i) PROVE PersonOf[k] = PersonOf[i]
  <2>1. PICK j \in Idents : PersonOf[j] = PersonOf[i] /\ Carries(cust[r], j)
    BY <1>0, <1>1, <1>2, <1>3, <1>6 DEF RowsInv
  <2>2. Clear(j)
    BY <1>6, <2>1 DEF Clear
  <2>3. Carries(cust[r], k)
    BY <1>5 DEF Carries
  <2> QED
    BY <1>4, <2>1, <2>2, <2>3, OneCarrier
<1>7. ASSUME Apart(i) PROVE cust[r].ext = ExtOf[i]
  <2>1. PICK s \in Rows : cust[s].phone = ph /\ cust[s].ext = ExtOf[i]
    BY <1>1, <1>7
  <2>2. CASE cust[r].phone = ph
    BY <1>0, <1>2, <2>1, <2>2, IdentFacts DEF Ident!OnePhoneOneCustomer
  <2>3. CASE Carries(cust[r], i)
    BY <1>4, <1>7, <2>3, ApartCarrier
  <2> QED
    BY <1>3, <2>2, <2>3
<1> QED
  BY <1>4, <1>5, <1>6, <1>7 DEF Right

LEMMA UpsertReadKeeps ==
    ASSUME IdentInv, NEW i \in Idents, Ident!UpsertRead(i) PROVE IdentInv'
<1> DEFINE ph == ask[i].phone
<1>0. /\ IdentTypes /\ RowsInv /\ ReadyFor(i) /\ CodeFor(i) /\ pc[i] = "ready"
      /\ UNCHANGED <<required, orphans, cust, live, sent, booked>>
  BY DEF IdentInv, CallInv, Ident!UpsertRead, Ident!sms
<1>1. ph \in Phones /\ OpenOf[i] \in Ids /\ ExtOf[i] \in Ids
  BY <1>0, AskedFields, IdentFacts
<1>2. required => Ident!Hit(i, 2) # {} \/ Ident!Hit(i, 3) # {}
  BY <1>0, Hits DEF ReadyFor, Carries, Ident!With
<1>3. ASSUME Ident!Hit(i, 1) = {} PROVE \A s \in Rows : cust[s].phone # ph
  BY <1>0, <1>1, <1>3, FullRow, Hits DEF Ident!With
\* What holds of the call whatever it plans.
<1>4. ASSUME NEW kind \in {"insert", "update"}, NEW r \in Rows \cup {NoRow}, NEW columns \in SUBSET Columns,
             Ident!Plan(i, "upserting", kind, r, columns)
      PROVE  /\ pc'[i] = "upserting" /\ ask' = ask /\ raced \subseteq raced'
             /\ plan'[i] = [kind |-> kind, row |-> r, columns |-> columns]
             /\ CodeFor(i)' /\ ReadyFor(i)'
  <2>1. /\ pc'[i] = "upserting" /\ ask' = ask /\ raced \subseteq raced'
        /\ plan'[i] = [kind |-> kind, row |-> r, columns |-> columns]
    BY <1>0, <1>4 DEF Ident!Plan, Ident!Goto, IdentTypes
  <2>2. CodeFor(i)'
    BY <2>1 DEF CodeFor
  <2>3. ReadyFor(i)'
    BY <1>0, <2>1 DEF ReadyFor
  <2> QED
    BY <2>1, <2>2, <2>3
<1>5. ASSUME NEW k \in 1..4, \A j \in 1..(k - 1) : Ident!Hit(i, j) = {}, NEW r \in Ident!Hit(i, k),
             NEW columns,
             columns = Ident!Blanks(r, {"phone", "open", "ext"})
                         \cup (IF Ident!UpsertOrder[k] # "name" /\ cust[r].name # ask[i].name THEN {"name"} ELSE {}),
             Ident!Plan(i, "upserting", "update", r, columns)
      PROVE  IdentInv'
  <2>1. r \in Rows /\ cust[r].used /\ columns \in SUBSET Columns
    BY <1>5 DEF Ident!Hit, Ident!With, Ident!Blanks, Columns
  <2>2. /\ pc'[i] = "upserting" /\ ask' = ask /\ raced \subseteq raced'
        /\ plan'[i] = [kind |-> "update", row |-> r, columns |-> columns]
        /\ CodeFor(i)' /\ ReadyFor(i)'
    BY <1>4, <1>5, <2>1
  <2>3. k \in {1, 2, 3} => r \in Ident!Hit(i, 1) \cup Ident!Hit(i, 2) \cup Ident!Hit(i, 3)
    BY <1>5
  <2>4. k = 4 => Ident!Hit(i, 1) = {} /\ Ident!Hit(i, 2) = {} /\ Ident!Hit(i, 3) = {}
    BY <1>5
  <2>5. k \in {1, 2, 3} => Full(cust[r])
    BY <1>0, <1>1, <2>1, <2>3, FullRow, Hits DEF Ident!With
  <2>6. k \in {1, 2, 3} \/ k = 4
    BY <1>5
  <2>7. Full(cust[r]) => columns \subseteq {"name"}
    BY <1>5, <2>1, FullBlanks
  <2>8. ASSUME ~Full(cust[r]) PROVE columns = {"phone", "open", "ext"} /\ ~required /\ Ident!Hit(i, 1) = {}
    <3>1. k = 4 /\ Ident!Hit(i, 1) = {} /\ Ident!Hit(i, 2) = {} /\ Ident!Hit(i, 3) = {}
      BY <2>4, <2>5, <2>6, <2>8
    <3>2. cust[r].phone = Blank /\ cust[r].open = Blank /\ cust[r].ext = Blank
      BY <1>0, <2>1, <2>8 DEF RowsInv, Bare
    <3>3. Ident!Blanks(r, {"phone", "open", "ext"}) = {"phone", "open", "ext"}
      BY <3>2 DEF Ident!Blanks
    <3> QED
      BY <1>2, <1>5, <3>1, <3>3, Hits
  <2>9. PlanFor(i)'
    BY <1>0, <2>1, <2>2, <2>7, <2>8 DEF PlanFor
  <2>10. PhoneFree(i)'
    BY <1>0, <1>3, <2>2, <2>7, <2>8 DEF PhoneFree
  <2>11. BookFor(i)'
    <3> SUFFICES ASSUME required, ph \notin raced' PROVE Right(cust[r], i)
      BY <1>0, <2>2 DEF BookFor
    <3>1. r \in Ident!Hit(i, 1) \cup Ident!Hit(i, 2) \cup Ident!Hit(i, 3)
      BY <1>2, <2>3, <2>4, <2>6
    <3> QED
      BY <1>0, <2>2, <3>1, RightHit
  <2> QED
    BY <1>0, <1>5, <2>1, <2>2, <2>9, <2>10, <2>11, Planned
<1>6. ASSUME \A k \in 1..4 : Ident!Hit(i, k) = {}, Ident!Plan(i, "upserting", "insert", NoRow, NewAsked) PROVE IdentInv'
  <2>1. NewAsked \in SUBSET Columns /\ ~required /\ Ident!Hit(i, 1) = {}
    BY <1>2, <1>6 DEF NewAsked, Columns
  <2>2. /\ pc'[i] = "upserting" /\ ask' = ask /\ raced \subseteq raced'
        /\ plan'[i] = [kind |-> "insert", row |-> NoRow, columns |-> NewAsked]
        /\ CodeFor(i)' /\ ReadyFor(i)'
    BY <1>4, <1>6, <2>1
  <2>3. PlanFor(i)' /\ PhoneFree(i)' /\ BookFor(i)'
    BY <1>0, <1>3, <2>1, <2>2 DEF PlanFor, PhoneFree, BookFor
  <2> QED
    BY <1>0, <1>6, <2>1, <2>2, <2>3, Planned
<1>7. CASE Ident!Return(i) /\ UNCHANGED raced
  <2>1. live' \in [Phones -> Nat] /\ sent' \in [Phones -> Nat]
    BY <1>0 DEF IdentTypes
  <2> QED
    BY <1>0, <1>7, <2>1, CallReturns
<1> QED
  BY <1>5, <1>6, <1>7 DEF Ident!UpsertRead, NewAsked

------------------------------------------------------------------------------
(* A transaction writes *)

\* The row afterwards, compared with the row before.
LEMMA RowWritten ==
    ASSUME IdentInv, NEW i \in Idents, pc[i] \in {"binding", "upserting"}, NEW r \in Ident!Targets(i)
    PROVE  LET c == cust[r]
               w == Ident!Written(i, r)
           IN
           /\ r \in Rows /\ w \in CustomerRow /\ w.used /\ Full(w)
           /\ w.phone = IF "phone" \in plan[i].columns THEN ask[i].phone ELSE c.phone
           /\ required /\ Full(c) => w.open = c.open /\ w.ext = c.ext
           /\ c.verified => w.verified
           /\ w.verified => required /\ \E j \in Idents : PersonOf[j] = PhoneOwner[w.phone] /\ Carries(w, j)
           /\ required /\ w.phone # c.phone => w.verified /\ (Full(c) => Carries(c, i))
           /\ pc[i] = "binding" => /\ w.verified /\ w.phone = ask[i].phone /\ Carries(w, i)
                                   /\ Apart(i) => w.ext = ExtOf[i]
<1> DEFINE c == cust[r]
           w == Ident!Written(i, r)
           In(f) == f \in plan[i].columns
<1>0. IdentTypes /\ RowsInv /\ CodeFor(i) /\ PlanFor(i) /\ pc[i] # "idle"
  BY DEF IdentInv, CallInv
<1>1. r \in Rows
  BY <1>0 DEF Ident!Targets, PlanFor, IdentTypes
<1>2. /\ w \in CustomerRow
      /\ w.used = IF In("used") THEN TRUE ELSE c.used
      /\ w.open = IF In("open") THEN OpenOf[i] ELSE c.open
      /\ w.ext = IF In("ext") THEN ExtOf[i] ELSE c.ext
      /\ w.phone = IF In("phone") THEN ask[i].phone ELSE c.phone
      /\ w.verified = IF In("verified") THEN TRUE ELSE c.verified
  BY <1>0, <1>1, WrittenForm
<1>3. ask[i].phone \in Phones
  BY <1>0, AskedFields
<1>4. c \in CustomerRow /\ (Bare(c) \/ Full(c))
      /\ (c.verified => required /\ \E j \in Idents : PersonOf[j] = PhoneOwner[c.phone] /\ Carries(c, j))
  BY <1>0, <1>1 DEF IdentTypes, RowsInv
<1>5. pc[i] = "binding" => required /\ PhoneOwner[ask[i].phone] = PersonOf[i]
  BY <1>0 DEF CodeFor, Ident!Labels
<1>6. /\ plan[i].kind = "insert" => ~c.used
      /\ plan[i].kind = "update" => c.used /\ r = plan[i].row
  BY <1>0 DEF Ident!Targets, PlanFor
<1>u. c.used \in BOOLEAN /\ c.verified \in BOOLEAN
  BY <1>4 DEF CustomerRow
<1> DEFINE Goal ==
           /\ w.used /\ Full(w)
           /\ required /\ Full(c) => w.open = c.open /\ w.ext = c.ext
           /\ c.verified => w.verified
           /\ w.verified => required /\ \E j \in Idents : PersonOf[j] = PhoneOwner[w.phone] /\ Carries(w, j)
           /\ required /\ w.phone # c.phone => w.verified /\ (Full(c) => Carries(c, i))
           /\ pc[i] = "binding" => /\ w.verified /\ w.phone = ask[i].phone /\ Carries(w, i)
                                   /\ Apart(i) => w.ext = ExtOf[i]
<1>7. ASSUME pc[i] = "binding", plan[i].columns = NewBound, ~c.used PROVE Goal
  <2>1. w.used /\ w.open = OpenOf[i] /\ w.ext = ExtOf[i] /\ w.phone = ask[i].phone /\ w.verified
    <3> HIDE DEF w, c
    <3> QED
      BY <1>2, <1>7 DEF NewBound
  <2> HIDE DEF w, c
  <2>2. ~Full(c) /\ Full(w) /\ Carries(w, i)
    BY <1>3, <1>7, <2>1 DEF Full, Carries
  <2> QED
    BY <1>5, <1>7, <2>1, <2>2
<1>8. ASSUME pc[i] = "binding", plan[i].columns = {"phone", "verified"}, Full(c), Carries(c, i) PROVE Goal
  <2>1. w.used = c.used /\ w.open = c.open /\ w.ext = c.ext /\ w.phone = ask[i].phone /\ w.verified
    <3> HIDE DEF w, c
    <3> QED
      BY <1>2, <1>8
  <2> HIDE DEF w, c
  <2>2. w.used /\ Full(w) /\ Carries(w, i)
    BY <1>3, <1>8, <2>1 DEF Full, Carries
  <2>3. Apart(i) => w.ext = ExtOf[i]
    BY <1>8, <2>1, ApartCarrier
  <2> QED
    BY <1>5, <1>8, <2>1, <2>2, <2>3
<1>9. ASSUME pc[i] # "binding", plan[i].columns \subseteq {"name"}, Full(c) PROVE Goal
  <2>1. w.used = c.used /\ w.open = c.open /\ w.ext = c.ext /\ w.phone = c.phone /\ w.verified = c.verified
    <3> HIDE DEF w, c
    <3> QED
      BY <1>2, <1>9
  <2> HIDE DEF w, c
  <2>2. w.used /\ Full(w) /\ \A j \in Idents : Carries(c, j) => Carries(w, j)
    BY <1>9, <2>1 DEF Full, Carries
  <2> QED
    BY <1>4, <1>9, <2>1, <2>2
<1>10. ASSUME pc[i] # "binding", ~required, {"phone", "open", "ext"} \subseteq plan[i].columns,
              "verified" \notin plan[i].columns, "used" \in plan[i].columns \/ c.used
       PROVE  Goal
  <2>1. w.used /\ w.open = OpenOf[i] /\ w.ext = ExtOf[i] /\ w.phone = ask[i].phone /\ w.verified = c.verified
    <3> HIDE DEF w, c
    <3> QED
      BY <1>2, <1>10
  <2> HIDE DEF w, c
  <2>2. Full(w) /\ ~c.verified
    BY <1>3, <1>4, <1>10, <2>1 DEF Full
  <2> QED
    BY <1>10, <2>1, <2>2
<1>11. Goal
  <2>1. CASE pc[i] = "binding"
    <3> HIDE DEF Goal, c, w
    <3> QED
      BY <1>0, <1>6, <1>7, <1>8, <2>1 DEF PlanFor, c
  <2>2. CASE pc[i] = "upserting"
    <3>1. CASE plan[i].kind = "insert" /\ plan[i].columns = NewAsked /\ ~required
      BY <1>10, <2>2, <3>1 DEF NewAsked
    <3>2. CASE plan[i].kind = "update" /\ plan[i].columns \subseteq {"name"} /\ Full(cust[plan[i].row])
      BY <1>6, <1>9, <2>2, <3>2
    <3>3. CASE plan[i].kind = "update" /\ plan[i].columns = {"phone", "open", "ext"} /\ ~required
      BY <1>6, <1>10, <2>2, <3>3
    <3> HIDE DEF Goal
    <3> QED
      BY <1>0, <2>2, <3>1, <3>2, <3>3 DEF PlanFor
  <2> HIDE DEF Goal
  <2> QED
    BY <2>1, <2>2
<1> HIDE DEF c, w
<1> QED
  BY <1>1, <1>2, <1>11 DEF c, w

\* A row that is right for an identity stays so.
LEMMA RightStays ==
    ASSUME NEW c, NEW w, NEW j \in Idents, Full(w), w.ext = c.ext, Right(c, j)
    PROVE  Right(w, j)
BY DEF Right

\* What a written row means for the table and for the other calls.
LEMMA TableWritten ==
    ASSUME IdentInv, NEW i \in Idents, pc[i] \in {"binding", "upserting"}, NEW r \in Ident!Targets(i),
           cust' = [cust EXCEPT ![r] = Ident!Written(i, r)], UNCHANGED <<required, raced>>,
           OthersKeep(i), \A j \in Idents \ {i} : booked'[j] = booked[j]
    PROVE  /\ cust' \in [Rows -> CustomerRow] /\ r \in Rows /\ cust'[r] = Ident!Written(i, r)
           /\ RowsInv' /\ Ident!OnePhoneOneCustomer'
           /\ \A j \in Idents \ {i} : CallInv(j)'
           /\ \A j \in Idents, s \in Rows : required /\ Right(cust[s], j) => Right(cust'[s], j)
<1> DEFINE c == cust[r]
           w == Ident!Written(i, r)
<1>0. IdentTypes /\ RowsInv /\ Ident!OnePhoneOneCustomer /\ PlansMeet /\ PhoneFree(i)
      /\ \A j \in Idents : CallInv(j)
  BY DEF IdentInv, CallInv
<1>1. /\ r \in Rows /\ w \in CustomerRow /\ w.used /\ Full(w)
      /\ w.phone = IF "phone" \in plan[i].columns THEN ask[i].phone ELSE c.phone
      /\ required /\ Full(c) => w.open = c.open /\ w.ext = c.ext
      /\ c.verified => w.verified
      /\ w.verified => required /\ \E j \in Idents : PersonOf[j] = PhoneOwner[w.phone] /\ Carries(w, j)
      /\ required /\ w.phone # c.phone => w.verified /\ (Full(c) => Carries(c, i))
  BY RowWritten
<1>2. plan[i].kind # "none" /\ ask[i].phone \in Phones
  BY <1>0, AskedFields DEF IdentTypes
<1>3. plan[i].kind = "update" => plan[i].row = r
  BY DEF Ident!Targets
<1>4. cust \in [Rows -> CustomerRow]
  BY <1>0 DEF IdentTypes
<1> HIDE DEF w
<1>5. cust' \in [Rows -> CustomerRow] /\ cust'[r] = w /\ \A s \in Rows \ {r} : cust'[s] = cust[s]
  BY <1>1, <1>4 DEF w
<1>6. RowsInv'
  <2> SUFFICES ASSUME NEW s \in Rows
               PROVE  /\ Bare(cust'[s]) \/ Full(cust'[s])
                      /\ cust'[s].verified => required /\ \E j \in Idents :
                            PersonOf[j] = PhoneOwner[cust'[s].phone] /\ Carries(cust'[s], j)
    BY DEF RowsInv
  <2> QED
    BY <1>0, <1>1, <1>5 DEF RowsInv
<1>7. ASSUME NEW s \in Rows \ {r}, w.phone # c.phone, cust[s].phone = w.phone PROVE w.phone \in raced
  BY <1>0, <1>1, <1>2, <1>3, <1>7 DEF PhoneFree
<1>8. Ident!OnePhoneOneCustomer'
  <2> SUFFICES ASSUME NEW s \in Rows, NEW t \in Rows, s # t, cust'[s].phone # Blank,
                      cust'[s].phone = cust'[t].phone
               PROVE  cust'[s].phone \in raced
    BY DEF Ident!OnePhoneOneCustomer
  <2>1. CASE s = r
    BY <1>0, <1>5, <1>7, <2>1 DEF Ident!OnePhoneOneCustomer
  <2>2. CASE t = r
    BY <1>0, <1>5, <1>7, <2>2 DEF Ident!OnePhoneOneCustomer
  <2>3. CASE s # r /\ t # r
    BY <1>0, <1>5, <2>3 DEF Ident!OnePhoneOneCustomer
  <2> QED
    BY <2>1, <2>2, <2>3
<1>9. ASSUME NEW s \in Rows
      PROVE  /\ cust[s].used => cust'[s].used
             /\ Full(cust[s]) => Full(cust'[s])
             /\ required /\ Full(cust[s]) => cust'[s].open = cust[s].open /\ cust'[s].ext = cust[s].ext
             /\ cust[s].verified => cust'[s].verified
  BY <1>1, <1>5
<1>10. ASSUME NEW j \in Idents, NEW s \in Rows, required, Right(cust[s], j) PROVE Right(cust'[s], j)
  <2>1. Full(cust[s])
    BY <1>10 DEF Right
  <2> QED
    BY <1>9, <1>10, <2>1, RightStays
<1>11. ASSUME NEW j \in Idents \ {i} PROVE CallInv(j)'
  <2>0. /\ pc'[j] = pc[j] /\ ask'[j] = ask[j] /\ held'[j] = held[j] /\ plan'[j] = plan[j]
        /\ booked'[j] = booked[j] /\ CallInv(j)
    BY <1>0 DEF OthersKeep
  <2>1. CodeFor(j)'
    BY <2>0 DEF CallInv, CodeFor
  <2>2. PlanFor(j)'
    <3>1. plan[j].kind = "update" => plan[j].row \in Rows /\ cust'[plan[j].row].used
      BY <1>9, <2>0 DEF CallInv, PlanFor
    <3>2. pc[j] = "binding" /\ plan[j].kind = "update" =>
              Full(cust'[plan[j].row]) /\ Carries(cust'[plan[j].row], j) /\ plan[j].columns = {"phone", "verified"}
      <4> SUFFICES ASSUME pc[j] = "binding", plan[j].kind = "update"
                   PROVE  Full(cust'[plan[j].row]) /\ Carries(cust'[plan[j].row], j)
                          /\ plan[j].columns = {"phone", "verified"}
        OBVIOUS
      <4>1. required
        BY <2>0 DEF CallInv, CodeFor, Ident!Labels
      <4>2. /\ Full(cust[plan[j].row]) /\ Carries(cust[plan[j].row], j) /\ plan[j].row \in Rows
            /\ plan[j].columns = {"phone", "verified"}
        BY <2>0 DEF CallInv, PlanFor
      <4> QED
        BY <1>9, <4>1, <4>2 DEF Carries
    <3>3. pc[j] = "upserting" /\ plan[j].kind = "update" =>
              \/ plan[j].columns \subseteq {"name"} /\ Full(cust'[plan[j].row])
              \/ plan[j].columns = {"phone", "open", "ext"} /\ ~required
      BY <1>9, <2>0 DEF CallInv, PlanFor
    <3> QED
      BY <2>0, <3>1, <3>2, <3>3 DEF CallInv, PlanFor
  <2>3. PhoneFree(j)'
    <3> SUFFICES ASSUME NEW s \in Rows, plan[j].kind # "none", "phone" \in plan[j].columns,
                        cust'[s].phone = ask[j].phone
                 PROVE  ask[j].phone \in raced \/ (plan[j].kind = "update" /\ s = plan[j].row)
      BY <2>0 DEF PhoneFree
    <3>1. CASE cust[s].phone = ask[j].phone
      BY <2>0, <3>1 DEF CallInv, PhoneFree
    <3>2. CASE cust[s].phone # ask[j].phone
      <4>1. s = r /\ w.phone = ask[i].phone /\ ask[i].phone = ask[j].phone
        BY <1>1, <1>5, <3>2
      <4> QED
        BY <1>0, <1>2, <4>1 DEF PlansMeet
    <3> QED
      BY <3>1, <3>2
  <2>4. ReadyFor(j)'
    <3> SUFFICES ASSUME required, pc[j] \in {"ready", "upserting"}
                 PROVE  /\ \E s \in Rows : cust'[s].used /\ Carries(cust'[s], j)
                        /\ ask[j].phone \in raced \/ \A s \in Rows : cust'[s].phone = ask[j].phone => cust'[s].verified
                        /\ Clear(j) => PhoneOwner[ask[j].phone] = PersonOf[j]
                        /\ Apart(j) => \E s \in Rows : cust'[s].phone = ask[j].phone /\ cust'[s].ext = ExtOf[j]
      BY <2>0 DEF ReadyFor
    <3>0. ReadyFor(j) /\ ask[j].phone \in Phones
      BY <1>0, <2>0, AskedFields DEF CallInv
    <3>1. PICK s \in Rows : cust[s].used /\ Carries(cust[s], j)
      BY <3>0 DEF ReadyFor
    <3>2. Full(cust[s])
      BY <1>0, <3>1, FullRow, IdentFacts DEF Carries
    <3>3. cust'[s].used /\ Carries(cust'[s], j)
      BY <1>9, <3>1, <3>2 DEF Carries
    <3>4. ask[j].phone \in raced \/ \A t \in Rows : cust'[t].phone = ask[j].phone => cust'[t].verified
      <4> SUFFICES ASSUME ask[j].phone \notin raced, NEW t \in Rows, cust'[t].phone = ask[j].phone
                   PROVE  cust'[t].verified
        OBVIOUS
      <4>1. CASE cust[t].phone = ask[j].phone
        BY <1>9, <3>0, <4>1 DEF ReadyFor
      <4>2. CASE cust[t].phone # ask[j].phone
        BY <1>1, <1>5, <4>2
      <4> QED
        BY <4>1, <4>2
    <3>5. ASSUME Apart(j) PROVE \E t \in Rows : cust'[t].phone = ask[j].phone /\ cust'[t].ext = ExtOf[j]
      <4>1. PICK t \in Rows : cust[t].phone = ask[j].phone /\ cust[t].ext = ExtOf[j]
        BY <3>0, <3>5 DEF ReadyFor
      <4>2. Full(cust[t])
        BY <1>0, <3>0, <4>1, FullRow
      <4>3. cust'[t].ext = ExtOf[j]
        BY <1>9, <4>1, <4>2
      <4>4. ~Carries(cust[t], i)
        <5>1. Carries(cust[t], j)
          BY <4>1 DEF Carries
        <5>2. cust[t].open = OpenOf[j]
          BY <3>5, <4>2, <5>1, ApartCarrier
        <5> QED
          BY <3>5, <4>1, <5>2 DEF Carries, Apart
      <4>5. cust'[t].phone = cust[t].phone
        BY <1>1, <1>5, <4>2, <4>4
      <4> QED
        BY <4>1, <4>3, <4>5
    <3> QED
      BY <3>0, <3>3, <3>4, <3>5 DEF ReadyFor
  <2>5. BookFor(j)'
    <3> SUFFICES ASSUME required, pc[j] = "upserting", ask[j].phone \notin raced
                 PROVE  plan[j].kind = "update" /\ Right(cust'[plan[j].row], j)
      BY <2>0 DEF BookFor
    <3>1. plan[j].kind = "update" /\ Right(cust[plan[j].row], j) /\ plan[j].row \in Rows
      BY <2>0 DEF CallInv, BookFor, PlanFor
    <3> QED
      BY <1>10, <3>1
  <2>6. Booked(j)'
    <3>1. booked[j] # NoRow => booked[j] \in Rows
      BY <1>0 DEF IdentTypes
    <3> QED
      BY <1>10, <2>0, <3>1 DEF CallInv, Booked
  <2> QED
    BY <2>1, <2>2, <2>3, <2>4, <2>5, <2>6 DEF CallInv
<1> QED
  BY <1>1, <1>5, <1>6, <1>8, <1>10, <1>11 DEF w

LEMMA NoPlans ==
    ASSUME IdentInv, NEW i \in Idents, OthersKeep(i), plan'[i] = Ident!NoPlan, UNCHANGED raced
    PROVE  PlansMeet'
<1>1. Ident!NoPlan.kind = "none" /\ PlansMeet
  BY DEF Ident!NoPlan, IdentInv
<1> SUFFICES ASSUME NEW j \in Idents, NEW k \in Idents, j # k, plan'[j].kind # "none", plan'[k].kind # "none",
                    ask'[j].phone = ask'[k].phone
             PROVE  ask'[j].phone \in raced'
  BY DEF PlansMeet
<1>2. j # i /\ k # i
  BY <1>1
<1> QED
  BY <1>1, <1>2 DEF OthersKeep, PlansMeet

LEMMA BindWriteKeeps ==
    ASSUME IdentInv, NEW i \in Idents, Ident!BindWrite(i) PROVE IdentInv'
<1>0. /\ IdentTypes /\ CodeFor(i) /\ PhoneFree(i) /\ PlanFor(i) /\ Booked(i) /\ pc[i] = "binding"
      /\ UNCHANGED <<required, orphans, live, sent, booked, raced>>
  BY DEF IdentInv, CallInv, Ident!BindWrite, Ident!sms
<1>1. required /\ PhoneOwner[ask[i].phone] = PersonOf[i] /\ ask[i].phone \in Phones
  BY <1>0, AskedFields DEF CodeFor, Ident!Labels
<1>2. CASE Ident!Return(i) /\ UNCHANGED cust
  <2>1. live' \in [Phones -> Nat] /\ sent' \in [Phones -> Nat]
    BY <1>0 DEF IdentTypes
  <2> QED
    BY <1>0, <1>2, <2>1, CallReturns
<1>3. ASSUME NEW r \in Ident!Targets(i), cust' = [cust EXCEPT ![r] = Ident!Written(i, r)],
             plan' = [plan EXCEPT ![i] = Ident!NoPlan], Ident!Goto(i, "ready"), UNCHANGED <<ask, held>>
      PROVE  IdentInv'
  <2>1. pc'[i] = "ready" /\ plan'[i] = Ident!NoPlan /\ OthersKeep(i) /\ ask' = ask
    BY <1>0, <1>3, CallFields DEF OthersKeep, IdentTypes
  <2>2. /\ cust' \in [Rows -> CustomerRow] /\ r \in Rows /\ cust'[r] = Ident!Written(i, r)
        /\ RowsInv' /\ Ident!OnePhoneOneCustomer'
        /\ \A j \in Idents \ {i} : CallInv(j)'
        /\ \A s \in Rows : required /\ Right(cust[s], i) => Right(cust'[s], i)
    BY <1>0, <1>3, <2>1, TableWritten
  <2>3. IdentTypes'
    <3>1. Ident!NoPlan \in WritePlans
      BY DEF Ident!NoPlan, WritePlans
    <3>2. pc' \in [Idents -> Ident!Labels] /\ plan' \in [Idents -> WritePlans]
      BY <1>0, <1>3, <3>1 DEF IdentTypes, Ident!Goto, Ident!Labels
    <3>3. /\ ask' \in [Idents -> Asks] /\ held' \in [Idents -> [stored : Nat, given : Nat]]
          /\ live' \in [Phones -> Nat] /\ sent' \in [Phones -> Nat]
          /\ booked' \in [Idents -> Rows \cup {NoRow}] /\ raced' \subseteq Phones /\ UNCHANGED <<required, orphans>>
      BY <1>0, <1>3 DEF IdentTypes
    <3>4. ask'[i].phone \in Phones /\ ask'[i].name \in Names
      BY <1>0, <2>1, AskedFields
    <3> QED
      BY <1>0, <2>1, <2>2, <3>2, <3>3, <3>4, CallTypes
  <2>4. PlansMeet'
    BY <1>0, <2>1, NoPlans
  <2>5. CodeFor(i)' /\ PlanFor(i)' /\ PhoneFree(i)' /\ BookFor(i)'
    BY <2>1 DEF CodeFor, PlanFor, PhoneFree, BookFor, Ident!NoPlan
  <2>6. Booked(i)'
    <3>1. booked[i] # NoRow => booked[i] \in Rows
      BY <1>0 DEF IdentTypes
    <3> QED
      BY <1>0, <2>2, <3>1 DEF Booked
  <2>7. ReadyFor(i)'
    <3>1. /\ cust'[r].used /\ Carries(cust'[r], i) /\ cust'[r].verified /\ cust'[r].phone = ask[i].phone
          /\ Apart(i) => cust'[r].ext = ExtOf[i]
      BY <1>0, <2>2, RowWritten
    <3>2. ASSUME NEW s \in Rows, cust'[s].phone = ask[i].phone PROVE s = r \/ ask[i].phone \in raced
      BY <1>1, <2>2, <3>1, <3>2, IdentFacts, <1>0 DEF Ident!OnePhoneOneCustomer
    <3>3. ask[i].phone \in raced \/ \A s \in Rows : cust'[s].phone = ask[i].phone => cust'[s].verified
      BY <3>1, <3>2
    <3> QED
      BY <1>0, <1>1, <2>1, <2>2, <3>1, <3>3 DEF ReadyFor
  <2>8. CallInv(i)'
    BY <2>5, <2>6, <2>7 DEF CallInv
  <2> QED
    BY <2>2, <2>3, <2>4, <2>8 DEF IdentInv
<1> QED
  BY <1>2, <1>3 DEF Ident!BindWrite

LEMMA UpsertWriteKeeps ==
    ASSUME IdentInv, NEW i \in Idents, Ident!UpsertWrite(i) PROVE IdentInv'
<1>0. /\ IdentTypes /\ PlanFor(i) /\ BookFor(i) /\ Booked(i) /\ pc[i] = "upserting" /\ Ident!Return(i)
      /\ UNCHANGED <<required, orphans, live, sent, raced>>
  BY DEF IdentInv, CallInv, Ident!UpsertWrite, Ident!sms
<1>1. /\ pc'[i] = "idle" /\ plan'[i] = Ident!NoPlan /\ OthersKeep(i)
      /\ live' \in [Phones -> Nat] /\ sent' \in [Phones -> Nat]
  BY <1>0, CallFields DEF IdentTypes
<1>2. CASE UNCHANGED <<cust, booked>>
  BY <1>0, <1>1, <1>2, CallReturns
<1>3. ASSUME NEW r \in Ident!Targets(i), Ident!Admitted(i, r) \/ plan[i].kind = "update",
             cust' = IF Ident!Admitted(i, r) THEN [cust EXCEPT ![r] = Ident!Written(i, r)] ELSE cust,
             booked' = [booked EXCEPT ![i] = IF required /\ ask[i].phone \notin raced THEN r ELSE NoRow]
      PROVE  IdentInv'
  <2>1. r \in Rows
    BY <1>0, RowWritten
  <2>2. /\ booked' \in [Idents -> Rows \cup {NoRow}] /\ \A j \in Idents \ {i} : booked'[j] = booked[j]
        /\ booked'[i] = IF required /\ ask[i].phone \notin raced THEN r ELSE NoRow
    BY <1>0, <1>3, <2>1 DEF IdentTypes
  <2>3. /\ cust' \in [Rows -> CustomerRow] /\ RowsInv' /\ Ident!OnePhoneOneCustomer'
        /\ \A j \in Idents \ {i} : CallInv(j)'
        /\ required /\ Right(cust[r], i) => Right(cust'[r], i)
    <3>1. CASE Ident!Admitted(i, r)
      BY <1>0, <1>1, <1>3, <2>1, <2>2, <3>1, TableWritten
    <3>2. CASE ~Ident!Admitted(i, r)
      <4>1. cust' = cust
        BY <1>3, <3>2
      <4>2. cust' \in [Rows -> CustomerRow] /\ RowsInv' /\ Ident!OnePhoneOneCustomer'
        BY <1>0, <4>1 DEF IdentInv, IdentTypes, RowsInv, Ident!OnePhoneOneCustomer
      <4>3. ASSUME NEW j \in Idents \ {i} PROVE CallInv(j)'
        <5>1. /\ CallInv(j) /\ pc'[j] = pc[j] /\ ask'[j] = ask[j] /\ held'[j] = held[j] /\ plan'[j] = plan[j]
              /\ booked'[j] = booked[j]
          BY <1>1, <2>2 DEF IdentInv, OthersKeep
        <5>2. (CodeFor(j) /\ PlanFor(j) /\ PhoneFree(j))'
          BY <1>0, <4>1, <5>1 DEF CallInv, CodeFor, PlanFor, PhoneFree
        <5>3. (ReadyFor(j) /\ BookFor(j) /\ Booked(j))'
          BY <1>0, <4>1, <5>1 DEF CallInv, ReadyFor, BookFor, Booked
        <5> QED
          BY <5>2, <5>3 DEF CallInv
      <4> QED
        BY <4>1, <4>2, <4>3
    <3> QED
      BY <3>1, <3>2
  <2>4. IdentTypes'
    BY <1>0, <1>1, <2>2, <2>3, ReturnTypes DEF IdentTypes
  <2>5. PlansMeet'
    BY <1>0, <1>1, NoPlans
  <2>6. CodeFor(i)' /\ PlanFor(i)' /\ PhoneFree(i)' /\ ReadyFor(i)' /\ BookFor(i)'
    BY <1>1 DEF CodeFor, PlanFor, PhoneFree, ReadyFor, BookFor, Ident!NoPlan
  <2>7. Booked(i)'
    <3> SUFFICES ASSUME required, ask[i].phone \notin raced PROVE Right(cust'[r], i)
      BY <1>0, <2>2 DEF Booked
    <3>1. plan[i].kind = "update" /\ Right(cust[plan[i].row], i)
      BY <1>0 DEF BookFor
    <3>2. r = plan[i].row
      BY <3>1 DEF Ident!Targets
    <3> QED
      BY <2>3, <3>1, <3>2
  <2>8. CallInv(i)'
    BY <2>6, <2>7 DEF CallInv
  <2> QED
    BY <2>3, <2>4, <2>5, <2>8 DEF IdentInv
<1> QED
  BY <1>2, <1>3 DEF Ident!UpsertWrite

------------------------------------------------------------------------------
(* The start of the process *)

LEMMA BackfillKeeps == ASSUME IdentInv, Ident!Backfill PROVE IdentInv'
<1>0. /\ IdentTypes /\ RowsInv /\ Ident!OnePhoneOneCustomer /\ PlansMeet /\ \A i \in Idents : CallInv(i) /\ pc[i] = "idle"
      /\ UNCHANGED <<required, pc, ask, held, plan, live, sent, booked, raced>>
  BY DEF IdentInv, Ident!Backfill, Ident!request, Ident!sms
<1>1. CASE UNCHANGED cust
  <2>0. orphans' \subseteq orphans
    BY DEF Ident!Backfill
  <2>1. IdentTypes' /\ RowsInv' /\ Ident!OnePhoneOneCustomer' /\ PlansMeet'
    BY <1>0, <1>1, <2>0 DEF IdentTypes, RowsInv, Ident!OnePhoneOneCustomer, PlansMeet
  <2>2. ASSUME NEW i \in Idents PROVE CallInv(i)'
    <3>1. CallInv(i)
      BY <1>0
    <3> QED
      BY <1>0, <1>1, <3>1 DEF CallInv, CodeFor, PlanFor, PhoneFree, ReadyFor, BookFor, Booked
  <2> QED
    BY <2>1, <2>2 DEF IdentInv
<1>2. ASSUME NEW n \in orphans, NEW r \in Rows, ~cust[r].used,
             cust' = [cust EXCEPT ![r] = [Ident!NoCustomer EXCEPT !.used = TRUE, !.name = n]]
      PROVE  IdentInv'
  <2>1. PICK w : w = [Ident!NoCustomer EXCEPT !.used = TRUE, !.name = n]
    OBVIOUS
  <2>2. /\ w.used = TRUE /\ w.name = n /\ w.open = Blank /\ w.ext = Blank /\ w.phone = Blank
        /\ w.verified = FALSE
    BY <2>1 DEF Ident!NoCustomer
  <2>3. Bare(w) /\ ~Full(cust[r]) /\ Bare(cust[r]) /\ ~cust[r].verified
    BY <1>0, <1>2, <2>2 DEF Bare, Full, RowsInv
  <2>4. cust'[r] = w /\ \A s \in Rows \ {r} : cust'[s] = cust[s]
    BY <1>0, <1>2, <2>1 DEF IdentTypes
  <2>5. w \in CustomerRow
    <3>1. n \in Names
      BY <1>0 DEF IdentTypes
    <3> QED
      BY <2>1, <3>1 DEF CustomerRow, Ident!NoCustomer
  <2>6. IdentTypes'
    <3>1. cust' \in [Rows -> CustomerRow] /\ orphans' \subseteq orphans
      BY <1>0, <1>2, <2>1, <2>5 DEF IdentTypes, Ident!Backfill
    <3> QED
      BY <1>0, <3>1 DEF IdentTypes
  <2>7. RowsInv'
    BY <1>0, <2>2, <2>3, <2>4 DEF RowsInv
  <2>8. Ident!OnePhoneOneCustomer' /\ PlansMeet'
    BY <1>0, <2>2, <2>4 DEF Ident!OnePhoneOneCustomer, PlansMeet
  <2>9. ASSUME NEW i \in Idents PROVE CallInv(i)'
    <3>1. CallInv(i) /\ plan[i] = Ident!NoPlan /\ pc[i] = "idle"
      BY <1>0 DEF IdentTypes
    <3>2. CodeFor(i)' /\ PlanFor(i)' /\ PhoneFree(i)' /\ ReadyFor(i)' /\ BookFor(i)'
      BY <1>0, <3>1 DEF CallInv, CodeFor, PlanFor, PhoneFree, ReadyFor, BookFor, Ident!NoPlan
    <3>3. booked[i] # NoRow => booked[i] \in Rows /\ booked[i] # r
      BY <1>0, <2>3, <3>1 DEF IdentTypes, CallInv, Booked, Right
    <3>4. Booked(i)'
      BY <1>0, <2>4, <3>1, <3>3 DEF CallInv, Booked
    <3> QED
      BY <3>2, <3>4 DEF CallInv
  <2> QED
    BY <2>6, <2>7, <2>8, <2>9 DEF IdentInv
<1> QED
  BY <1>1, <1>2 DEF Ident!Backfill

LEMMA ConfigureKeeps == ASSUME IdentInv, Ident!Configure PROVE IdentInv'
<1>0. /\ IdentTypes /\ RowsInv /\ Ident!OnePhoneOneCustomer /\ PlansMeet /\ \A i \in Idents : CallInv(i) /\ pc[i] = "idle"
      /\ ~required /\ required' = TRUE /\ UNCHANGED <<orphans, cust, pc, ask, held, plan, live, sent, booked, raced>>
  BY DEF IdentInv, Ident!Configure, Ident!request, Ident!sms
<1>1. IdentTypes' /\ RowsInv' /\ Ident!OnePhoneOneCustomer' /\ PlansMeet'
  BY <1>0 DEF IdentTypes, RowsInv, Ident!OnePhoneOneCustomer, PlansMeet
<1>2. ASSUME NEW i \in Idents PROVE CallInv(i)'
  <2>1. CallInv(i) /\ plan[i] = Ident!NoPlan /\ pc[i] = "idle"
    BY <1>0 DEF IdentTypes
  <2> QED
    BY <1>0, <2>1 DEF CallInv, CodeFor, PlanFor, PhoneFree, ReadyFor, BookFor, Booked, Ident!NoPlan
<1> QED
  BY <1>1, <1>2 DEF IdentInv

------------------------------------------------------------------------------
(* Codes and attempts *)

CodesInv ==
    /\ cooling \subseteq Phones /\ tries \in [Phones -> Nat]
    /\ live \in [Phones -> Nat] /\ sent \in [Phones -> Nat] /\ known \in [Phones -> SUBSET Nat]
    /\ \A ph \in Phones : live[ph] <= sent[ph] /\ sent[ph] <= MaxSends /\ known[ph] \subseteq 1..sent[ph]
    /\ \A i \in Idents : pc[i] # "idle" => ask[i].phone \in Typed[i] /\ ask[i].name \in Spellings[i]
    /\ \A i \in Idents : pc[i] = "delivering" => sent[ask[i].phone] >= 1

\* The calls, as the codes are about them.
CallsAsk ==
    \A i \in Idents :
        /\ pc[i] # "idle" => ask[i].phone \in Typed[i] /\ ask[i].name \in Spellings[i]
        /\ pc[i] = "delivering" => sent[ask[i].phone] >= 1

LEMMA AskStays ==
    ASSUME IdentTypes, CodesInv, NEW i \in Idents, OthersKeep(i),
           (ask' = ask /\ pc[i] # "idle") \/ pc'[i] = "idle",
           pc'[i] = "delivering" => sent'[ask[i].phone] >= 1,
           \A ph \in Phones : sent'[ph] \in Nat /\ sent'[ph] >= sent[ph]
    PROVE  CallsAsk'
<1> SUFFICES ASSUME NEW j \in Idents, pc'[j] # "idle"
             PROVE  /\ ask'[j].phone \in Typed[j] /\ ask'[j].name \in Spellings[j]
                    /\ pc'[j] = "delivering" => sent'[ask'[j].phone] >= 1
  BY DEF CallsAsk
<1>1. CASE j = i
  BY <1>1 DEF CodesInv
<1>2. CASE j # i
  <2>1. pc[j] = pc'[j] /\ ask'[j] = ask[j]
    BY <1>2 DEF OthersKeep
  <2>2. ask[j].phone \in Typed[j] /\ ask[j].name \in Spellings[j] /\ ask[j].phone \in Phones
    BY <2>1, IdentFacts DEF CodesInv
  <2>3. pc[j] = "delivering" => sent'[ask[j].phone] >= 1
    <3>1. \A a, b \in Nat : a >= 1 /\ b >= a => b >= 1
      OBVIOUS
    <3> QED
      BY <2>2, <3>1 DEF CodesInv
  <2> QED
    BY <2>1, <2>2, <2>3
<1> QED
  BY <1>1, <1>2

LEMMA CodesInit == ASSUME Ident!Init PROVE CodesInv
BY IdentFacts DEF Ident!Init, CodesInv

LEMMA CodesSame ==
    ASSUME CodesInv, UNCHANGED Ident!sms, CallsAsk' PROVE CodesInv'
BY DEF CodesInv, Ident!sms, CallsAsk

\* Steps of a call that leave the codes alone.
LEMMA QuietCall ==
    ASSUME IdentTypes, CodesInv, NEW i \in Idents, OthersKeep(i), UNCHANGED Ident!sms, pc'[i] # "delivering",
           (ask' = ask /\ pc[i] # "idle") \/ pc'[i] = "idle"
    PROVE  CodesInv'
<1>1. \A ph \in Phones : sent'[ph] \in Nat /\ sent'[ph] >= sent[ph]
  BY DEF CodesInv, Ident!sms
<1>2. CallsAsk'
  BY <1>1, AskStays
<1> QED
  BY <1>2, CodesSame

LEMMA VerifyingCodes ==
    ASSUME IdentTypes, CodesInv, NEW i \in Idents, Ident!Verifying(i) PROVE CodesInv'
<1> DEFINE ph == ask[i].phone
<1>0. pc[i] # "idle" /\ ph \in Phones /\ OthersKeep(i)
  <2>1. pc[i] # "idle"
    BY DEF Ident!Verifying, Ident!TakeCooldown, Ident!StoreCode, Ident!Deliver, Ident!ResetTries, Ident!ReadCode, Ident!CountTry, Ident!SpendCode
  <2>2. OthersKeep(i)
    <3>1. /\ \E label : Ident!Goto(i, label)
          /\ \A j \in Idents \ {i} : ask'[j] = ask[j] /\ held'[j] = held[j] /\ plan'[j] = plan[j]
      <4>1. CASE Ident!Return(i)
        BY <4>1 DEF Ident!Return, IdentTypes
      <4>2. CASE UNCHANGED <<ask, plan>> /\ (\E label : Ident!Goto(i, label)) /\ \A j \in Idents \ {i} : held'[j] = held[j]
        BY <4>2
      <4>3. \A code : Ident!ReadCode(i, code) =>
                Ident!Return(i) \/ (UNCHANGED <<ask, plan>> /\ Ident!Goto(i, "counting") /\ \A j \in Idents \ {i} : held'[j] = held[j])
        BY DEF Ident!ReadCode, IdentTypes
      <4> QED
        BY <4>1, <4>2, <4>3 DEF Ident!Verifying, Ident!TakeCooldown, Ident!StoreCode, Ident!Deliver, Ident!ResetTries, Ident!CountTry, Ident!SpendCode, Ident!request
    <3> QED
      BY <3>1, CallFields DEF OthersKeep
  <2> QED
    BY <2>1, <2>2, AskedFields
<1>1. /\ live[ph] \in Nat /\ sent[ph] \in Nat /\ tries[ph] \in Nat /\ known[ph] \in SUBSET Nat /\ MaxSends \in Nat
      /\ live[ph] <= sent[ph] /\ sent[ph] <= MaxSends /\ known[ph] \subseteq 1..sent[ph]
  BY <1>0, IdentFacts DEF CodesInv
\* The codes after the step.
<1>2. ASSUME NEW c \in SUBSET Phones, NEW t \in [Phones -> Nat], NEW l \in Nat, l <= sent[ph] \/ l = 0,
             cooling' = c, tries' = t, live' = [live EXCEPT ![ph] = l], UNCHANGED <<sent, known>>, CallsAsk'
      PROVE  CodesInv'
  <2>1. live' \in [Phones -> Nat] /\ live'[ph] = l /\ l <= sent[ph] /\ \A q \in Phones \ {ph} : live'[q] = live[q]
    BY <1>0, <1>1, <1>2 DEF CodesInv
  <2> QED
    BY <1>0, <1>1, <1>2, <2>1 DEF CodesInv, CallsAsk
<1>3. live = [live EXCEPT ![ph] = live[ph]]
  BY <1>0 DEF CodesInv
<1>4. /\ cooling \cup {ph} \in SUBSET Phones /\ cooling \ {ph} \in SUBSET Phones /\ cooling \in SUBSET Phones
      /\ tries \in [Phones -> Nat] /\ 0 \in Nat
  BY <1>0 DEF CodesInv
<1>5. UNCHANGED sent => \A q \in Phones : sent'[q] \in Nat /\ sent'[q] >= sent[q]
  BY DEF CodesInv
<1>r. Ident!Return(i) => pc'[i] = "idle"
  BY CallFields
<1>6. CASE Ident!TakeCooldown(i)
  <2>1. pc'[i] # "delivering" /\ (ask' = ask \/ pc'[i] = "idle")
    BY <1>6, <1>r, CallFields DEF Ident!TakeCooldown, Ident!request
  <2>2. CallsAsk'
    BY <1>0, <1>5, <1>6, <2>1, AskStays DEF Ident!TakeCooldown, Ident!sms
  <2>3. CASE UNCHANGED Ident!sms
    BY <2>2, <2>3, CodesSame
  <2>4. CASE cooling' = cooling \cup {ph} /\ UNCHANGED <<live, sent, tries, known>>
    BY <1>1, <1>2, <1>3, <1>4, <2>2, <2>4
  <2> QED
    BY <1>6, <2>3, <2>4 DEF Ident!TakeCooldown
<1>7. CASE Ident!StoreCode(i)
  <2>1. CASE cooling' = cooling \ {ph} /\ Ident!Return(i) /\ UNCHANGED <<sent, live, tries, known>>
    <3>1. CallsAsk'
      BY <1>0, <1>5, <1>r, <2>1, AskStays
    <3> QED
      BY <1>1, <1>2, <1>3, <1>4, <2>1, <3>1
  <2>2. CASE /\ sent[ph] < MaxSends /\ sent' = [sent EXCEPT ![ph] = sent[ph] + 1]
             /\ live' = [live EXCEPT ![ph] = sent[ph] + 1]
             /\ Ident!Goto(i, "delivering") /\ UNCHANGED <<ask, cooling, tries, known>>
    <3>1. /\ live' \in [Phones -> Nat] /\ sent' \in [Phones -> Nat]
          /\ live'[ph] = sent[ph] + 1 /\ sent'[ph] = sent[ph] + 1
          /\ \A q \in Phones \ {ph} : live'[q] = live[q] /\ sent'[q] = sent[q]
      BY <1>0, <1>1, <2>2 DEF CodesInv
    <3>2. \A q \in Phones : sent'[q] \in Nat /\ sent'[q] >= sent[q]
      BY <1>0, <1>1, <3>1 DEF CodesInv
    <3>3. sent'[ph] >= 1 /\ pc'[i] = "delivering"
      BY <1>1, <2>2, <3>1, CallFields
    <3>4. CallsAsk'
      BY <1>0, <2>2, <3>2, <3>3, AskStays
    <3>5. \A q \in Phones : live'[q] <= sent'[q] /\ sent'[q] <= MaxSends /\ known'[q] \subseteq 1..sent'[q]
      <4> SUFFICES ASSUME NEW q \in Phones
                   PROVE  live'[q] <= sent'[q] /\ sent'[q] <= MaxSends /\ known[q] \subseteq 1..sent'[q]
        BY <2>2
      <4>1. CASE q = ph
        BY <1>1, <2>2, <3>1, <4>1
      <4>2. CASE q # ph
        BY <3>1, <4>2 DEF CodesInv
      <4> QED
        BY <4>1, <4>2
    <3> QED
      BY <2>2, <3>1, <3>4, <3>5 DEF CodesInv, CallsAsk
  <2> QED
    BY <1>7, <2>1, <2>2 DEF Ident!StoreCode, Ident!request
<1>8. CASE Ident!Deliver(i)
  <2>1. UNCHANGED <<sent, tries>>
    BY <1>8 DEF Ident!Deliver
  <2>2. CASE cooling' = cooling \ {ph} /\ live' = [live EXCEPT ![ph] = 0] /\ Ident!Return(i) /\ UNCHANGED known
    <3>1. CallsAsk'
      BY <1>0, <1>5, <1>r, <2>1, <2>2, AskStays
    <3> QED
      BY <1>1, <1>2, <1>4, <2>1, <2>2, <3>1
  <2>3. CASE /\ known' = [known EXCEPT ![ph] = known[ph] \cup {sent[ph]}]
             /\ Ident!Goto(i, "resetting") /\ UNCHANGED <<ask, cooling, live>>
    <3>1. pc'[i] = "resetting"
      BY <2>3, CallFields
    <3>2. CallsAsk'
      BY <1>0, <1>5, <2>1, <2>3, <3>1, AskStays
    <3>3. sent[ph] >= 1
      BY <1>0, <1>8 DEF Ident!Deliver, CodesInv
    <3>4. known[ph] \cup {sent[ph]} \subseteq 1..sent[ph] /\ known[ph] \cup {sent[ph]} \in SUBSET Nat
      BY <1>1, <3>3
    <3>5. /\ known' \in [Phones -> SUBSET Nat] /\ known'[ph] = known[ph] \cup {sent[ph]}
          /\ \A q \in Phones \ {ph} : known'[q] = known[q]
      BY <1>0, <2>3, <3>4 DEF CodesInv
    <3>6. \A q \in Phones : known'[q] \subseteq 1..sent[q]
      BY <3>4, <3>5 DEF CodesInv
    <3> QED
      BY <2>1, <2>3, <3>2, <3>5, <3>6 DEF CodesInv, CallsAsk
  <2> QED
    BY <1>8, <2>2, <2>3 DEF Ident!Deliver, Ident!request
<1>9. CASE Ident!ResetTries(i)
  <2>1. CallsAsk'
    BY <1>0, <1>5, <1>9, <1>r, AskStays DEF Ident!ResetTries
  <2>2. tries' \in [Phones -> Nat]
    BY <1>0, <1>4, <1>9 DEF Ident!ResetTries
  <2> QED
    BY <1>1, <1>2, <1>3, <1>4, <1>9, <2>1, <2>2 DEF Ident!ResetTries
<1>10. ASSUME NEW code \in 0..MaxSends, Ident!ReadCode(i, code) PROVE CodesInv'
  <2>1. pc'[i] # "delivering" /\ (ask' = ask \/ pc'[i] = "idle")
    BY <1>10, <1>r, CallFields DEF Ident!ReadCode
  <2> QED
    BY <1>0, <1>10, <2>1, QuietCall DEF Ident!ReadCode
<1>11. CASE Ident!CountTry(i)
  <2>1. pc'[i] # "delivering" /\ (ask' = ask \/ pc'[i] = "idle") /\ UNCHANGED <<sent, known, cooling>>
    BY <1>11, <1>r, CallFields DEF Ident!CountTry, Ident!request
  <2>2. CallsAsk'
    BY <1>0, <1>5, <2>1, AskStays
  <2>3. tries' \in [Phones -> Nat]
    BY <1>0, <1>1, <1>4, <1>11 DEF Ident!CountTry
  <2>4. CASE live' = [live EXCEPT ![ph] = 0]
    BY <1>1, <1>2, <1>4, <2>1, <2>2, <2>3, <2>4
  <2>5. CASE UNCHANGED live
    BY <1>1, <1>2, <1>3, <1>4, <2>1, <2>2, <2>3, <2>5
  <2> QED
    BY <1>11, <2>4, <2>5 DEF Ident!CountTry
<1>12. CASE Ident!SpendCode(i)
  <2>1. pc'[i] # "delivering" /\ (ask' = ask \/ pc'[i] = "idle") /\ UNCHANGED <<sent, known, cooling>>
    BY <1>12, <1>r, CallFields DEF Ident!SpendCode, Ident!request
  <2>2. CallsAsk'
    BY <1>0, <1>5, <2>1, AskStays
  <2>3. tries' \in [Phones -> Nat]
    BY <1>0, <1>1, <1>4, <1>12 DEF Ident!SpendCode
  <2>4. CASE live' = [live EXCEPT ![ph] = 0]
    BY <1>1, <1>2, <1>4, <2>1, <2>2, <2>3, <2>4
  <2>5. CASE UNCHANGED live
    BY <1>1, <1>2, <1>3, <1>4, <2>1, <2>2, <2>3, <2>5
  <2> QED
    BY <1>12, <2>4, <2>5 DEF Ident!SpendCode
<1> QED
  BY <1>6, <1>7, <1>8, <1>9, <1>10, <1>11, <1>12 DEF Ident!Verifying

LEMMA CodesStep == ASSUME IdentTypes, CodesInv, [Ident!Next]_Ident!vars PROVE CodesInv'
<1>1. CASE UNCHANGED <<pc, ask, sent>> /\ UNCHANGED <<tries, known>> /\ cooling' \subseteq cooling
           /\ live' \in [Phones -> Nat] /\ \A ph \in Phones : live'[ph] \in {0, live[ph]}
  <2>1. \A ph \in Phones : live'[ph] <= sent[ph]
    BY <1>1 DEF CodesInv
  <2> QED
    BY <1>1, <2>1 DEF CodesInv
<1>2. CASE UNCHANGED <<pc, ask, Ident!sms>>
  BY <1>2, CodesSame DEF CodesInv, CallsAsk, Ident!sms
<1>3. CASE Ident!Backfill \/ Ident!Configure \/ UNCHANGED Ident!vars
  BY <1>2, <1>3 DEF Ident!Backfill, Ident!Configure, Ident!vars, Ident!request
<1>4. ASSUME NEW ph \in Phones, Ident!Forget(ph) PROVE CodesInv'
  BY <1>1, <1>4 DEF Ident!Forget, Ident!request, CodesInv
<1>5. ASSUME NEW i \in Idents, NEW ph \in Phones, NEW n \in Names, Ident!Start(i, ph, n) PROVE CodesInv'
  <2> DEFINE a == [phone |-> ph, name |-> n]
  <2>1. ask'[i] = a /\ \A j \in Idents \ {i} : ask'[j] = ask[j]
    BY <1>5 DEF Ident!Start, IdentTypes
  <2>2. pc'[i] # "delivering" /\ \A j \in Idents \ {i} : pc'[j] = pc[j]
    BY <1>5, CallFields DEF Ident!Start
  <2>3. ph \in Typed[i] /\ n \in Spellings[i] /\ UNCHANGED Ident!sms
    BY <1>5 DEF Ident!Start
  <2>4. CallsAsk'
    <3> SUFFICES ASSUME NEW j \in Idents, pc'[j] # "idle"
                 PROVE  /\ ask'[j].phone \in Typed[j] /\ ask'[j].name \in Spellings[j]
                        /\ pc'[j] = "delivering" => sent'[ask'[j].phone] >= 1
      BY DEF CallsAsk
    <3>1. CASE j = i
      BY <2>1, <2>2, <2>3, <3>1
    <3>2. CASE j # i
      BY <2>1, <2>2, <2>3, <3>2 DEF CodesInv, Ident!sms
    <3> QED
      BY <3>1, <3>2
  <2> QED
    BY <2>3, <2>4, CodesSame
<1>6. ASSUME NEW i \in Idents, Ident!BindRead(i) \/ Ident!BindWrite(i) \/ Ident!UpsertRead(i) \/ Ident!UpsertWrite(i) PROVE CodesInv'
  <2>1. pc[i] # "idle" /\ UNCHANGED Ident!sms
    BY <1>6 DEF Ident!BindRead, Ident!BindWrite, Ident!UpsertRead, Ident!UpsertWrite
  <2>2. \/ Ident!Return(i)
        \/ /\ Ident!Goto(i, "binding") \/ Ident!Goto(i, "upserting") \/ Ident!Goto(i, "ready")
           /\ UNCHANGED <<ask, held>> /\ \A j \in Idents \ {i} : plan'[j] = plan[j]
    BY <1>6 DEF Ident!BindRead, Ident!BindWrite, Ident!UpsertRead, Ident!UpsertWrite, Ident!PlanBind, Ident!PlanNewBound, Ident!Plan, Ident!AlreadyBound, IdentTypes
  <2>3. OthersKeep(i) /\ pc'[i] # "delivering" /\ (ask' = ask \/ pc'[i] = "idle")
    BY <2>2, CallFields DEF OthersKeep
  <2> QED
    BY <2>1, <2>3, QuietCall
<1> QED
  BY <1>3, <1>4, <1>5, <1>6, VerifyingCodes DEF Ident!Next

LEMMA IdentTyped == ASSUME IdentInv, CodesInv PROVE Ident!TypeOK
<1>1. \A i \in Idents : pc[i] \in {"binding", "upserting"} <=> plan[i].kind # "none"
  BY DEF IdentInv, IdentTypes, Ident!NoPlan
<1>2. \A i \in Idents : plan[i].kind = "update" => cust[plan[i].row].used
  BY DEF IdentInv, CallInv, PlanFor
<1>3. live \in [Phones -> 0..MaxSends] /\ sent \in [Phones -> 0..MaxSends]
  <2>1. \A ph \in Phones : live[ph] \in 0..MaxSends /\ sent[ph] \in 0..MaxSends
    BY IdentFacts DEF CodesInv
  <2> QED
    BY <2>1 DEF CodesInv
<1> QED
  BY <1>1, <1>2, <1>3 DEF Ident!TypeOK, IdentInv, IdentTypes, CodesInv, CustomerRow

------------------------------------------------------------------------------
(* Who is who *)

LEMMA IdentInit == ASSUME Ident!Init PROVE IdentInv
<1>1. IdentTypes
  BY IdentTypesInit
<1>2. \A r \in Rows : /\ cust[r].phone = Blank /\ cust[r].open = Blank /\ cust[r].ext = Blank
                      /\ ~cust[r].verified /\ ~cust[r].used
  BY DEF Ident!Init, Ident!NoCustomer
<1>3. RowsInv /\ Ident!OnePhoneOneCustomer
  BY <1>2 DEF RowsInv, Ident!OnePhoneOneCustomer, Bare
<1>4. \A i \in Idents : plan[i].kind = "none" /\ pc[i] = "idle" /\ booked[i] = NoRow
  BY DEF Ident!Init, Ident!NoPlan
<1>5. PlansMeet /\ \A i \in Idents : CallInv(i)
  BY <1>4 DEF PlansMeet, CallInv, CodeFor, PlanFor, PhoneFree, ReadyFor, BookFor, Booked
<1> QED
  BY <1>1, <1>3, <1>5 DEF IdentInv

LEMMA IdentStep == ASSUME IdentInv, [Ident!Next]_Ident!vars PROVE IdentInv'
<1>1. CASE UNCHANGED Ident!vars
  <2>1. UNCHANGED <<required, cust, orphans, pc, ask, held, plan, live, sent, booked, raced>>
    BY <1>1 DEF Ident!vars, Ident!request, Ident!sms
  <2>2. (IdentTypes /\ RowsInv /\ Ident!OnePhoneOneCustomer /\ PlansMeet)'
    BY <2>1 DEF IdentInv, IdentTypes, RowsInv, Ident!OnePhoneOneCustomer, PlansMeet
  <2>3. ASSUME NEW i \in Idents PROVE CallInv(i)'
    <3>1. CallInv(i)
      BY DEF IdentInv
    <3> QED
      BY <2>1, <3>1 DEF CallInv, CodeFor, PlanFor, PhoneFree, ReadyFor, BookFor, Booked
  <2> QED
    BY <2>2, <2>3 DEF IdentInv
<1>2. CASE Ident!Next
  BY <1>2, BackfillKeeps, ConfigureKeeps, StartKeeps, VerifyingKeeps, BindReadKeeps, BindWriteKeeps,
     UpsertReadKeeps, UpsertWriteKeeps, ForgetKeeps DEF Ident!Next
<1> QED
  BY <1>1, <1>2

LEMMA IdentTold == ASSUME IdentInv PROVE Ident!WhoIsWho
<1>0. IdentTypes /\ RowsInv /\ Ident!OnePhoneOneCustomer /\ \A i \in Idents : Booked(i)
  BY DEF IdentInv, CallInv
<1>1. Ident!VerifiedIsOwners
  <2> SUFFICES ASSUME NEW r \in Rows, NEW i \in Idents, cust[r].verified, cust[r].ext = ExtOf[i],
                      ~Ident!Shared(cust[r].open)
               PROVE  PhoneOwner[cust[r].phone] = PersonOf[i]
    BY DEF Ident!VerifiedIsOwners
  <2>1. PICK j \in Idents : PersonOf[j] = PhoneOwner[cust[r].phone] /\ Carries(cust[r], j)
    BY <1>0 DEF RowsInv
  <2>2. PICK k \in Idents : cust[r].open = OpenOf[k] /\ cust[r].ext = ExtOf[k]
    BY <1>0 DEF RowsInv, Bare, Full
  <2>3. PersonOf[k] = PersonOf[i]
    BY <2>2, IdentFacts
  <2>4. PersonOf[j] = PersonOf[k]
    BY <2>1, <2>2, IdentFacts DEF Carries, Ident!Shared
  <2> QED
    BY <2>1, <2>3, <2>4
<1>2. Ident!BookedForSelf
  <2> SUFFICES ASSUME NEW i \in Idents, booked[i] # NoRow
               PROVE  /\ Clear(i) => \E j \in Idents : PersonOf[j] = PersonOf[i] /\ cust[booked[i]].ext = ExtOf[j]
                      /\ Apart(i) => cust[booked[i]].ext = ExtOf[i]
    BY DEF Ident!BookedForSelf, Clear, Apart
  <2> QED
    BY <1>0 DEF Booked, Right
<1> QED
  BY <1>0, <1>1, <1>2 DEF Ident!WhoIsWho

------------------------------------------------------------------------------
(* A behaviour about the customers *)

PeopleInv == part = "customer" => IdentInv /\ CodesInv

\* For any identities of any people, who may share an id of the transport, a name or a phone they
\* type: two customers have one phone only when transactions about it overlapped (repo.go:
\* BindVerifiedPhone, upsertCustomerInTx), a verified phone is its owner's unless an employee's id
\* is all that tells whose row it is (smsverify/service.go), and with the verification on an
\* appointment is on a row of whoever asked for it (create_appointment.go).
THEOREM PeopleAreKnown == PartSpec => []PeopleKnown
<1>1. PartInit => PeopleInv
  BY IdentInit, CodesInit DEF PartInit, PeopleInv
<1>2. PeopleInv /\ [PartNext]_allVars => PeopleInv'
  <2>1. SUFFICES ASSUME PeopleInv, [PartNext]_allVars PROVE PeopleInv'
    OBVIOUS
  <2>2. part' = part
    BY <2>1 DEF PartNext, allVars
  <2>3. part = "customer" => [Ident!Next]_(Ident!vars)
    BY <2>1 DEF PartNext, allVars, IdentVars, Ident!vars, Ident!request, Ident!sms
  <2>4. part = "customer" => IdentInv' /\ CodesInv'
    BY <2>1, <2>3, IdentStep, CodesStep DEF PeopleInv, IdentInv
  <2> QED
    BY <2>2, <2>4 DEF PeopleInv
<1>3. PeopleInv => PeopleKnown
  BY IdentTold, IdentTyped DEF PeopleInv, PeopleKnown
<1> QED
  BY <1>1, <1>2, <1>3, PTL DEF PartSpec
=============================================================================
