----------------------------- MODULE MasterData -----------------------------
(***************************************************************************)
(* The master data a shop keeps through the admin API: its barbers and     *)
(* branches, which the plan limits (api/barber_handlers.go, api/shops.go,  *)
(* storage/plan_gate.go), its services and their import                    *)
(* (storage/service_crud.go, api/admin_features_v46.go), and the tags of a *)
(* customer (storage/customer_tags.go).                                    *)
(*                                                                         *)
(* No handler takes a lock or opens a transaction: what it reads and what  *)
(* it then writes are separate statements, and other requests run between. *)
(***************************************************************************)
EXTENDS Integers, FiniteSets, Sequences

CONSTANTS
    Requests,       \* requests in progress at once
    Plans, Limit,   \* PlanRegistry: what each plan allows of each resource, -1 for any number
    Names,          \* names of services
    MaxRows,        \* bound: services ever made
    MaxMade,        \* bound: barbers, or branches, ever made
    Tags

Resources == {"barbers", "shops"}

\* Assumed by the modules that instantiate this one.
MasterDataAssumption ==
    /\ Limit \in [Plans -> [Resources -> Int]] /\ \A p \in Plans : Limit[p]["shops"] # 0
    /\ IsFiniteSet(Requests) /\ Requests # {} /\ "check" \notin Names
    /\ {MaxRows, MaxMade} \subseteq Nat \ {0} /\ "BLACKLIST" \in Tags

VARIABLES
    plan,           \* shops.plan
    inUse,          \* active barbers, shops of the group
    retired,        \* barbers that are not active
    rows,           \* services: [name, on], in the order they were made
    tags,           \* customers.tags of one customer
    asked,          \* the tags as the requests that wrote them meant them
    req,            \* the requests
    excused         \* the areas where requests overlapped, or went around the gate

staffing == <<plan, inUse, retired>>
labels   == <<tags, asked>>
vars     == <<staffing, rows, labels, req, excused>>

Ops == {"none", "make", "service", "import", "tag"}

TypeOK ==
    /\ plan \in Plans /\ inUse \in [Resources -> 0..MaxMade] /\ retired \in 0..MaxMade
    /\ inUse["barbers"] + retired <= MaxMade
    /\ Len(rows) <= MaxRows /\ \A i \in DOMAIN rows : rows[i] \in [name : Names, on : BOOLEAN]
    /\ tags \subseteq Tags /\ asked \subseteq Tags
    /\ \A r \in Requests : req[r].op \in Ops
    /\ excused \subseteq Resources \cup {"services", "tags"}

Idle == [op |-> "none"]

Init ==
    /\ plan \in Plans /\ inUse = [res \in Resources |-> IF res = "shops" THEN 1 ELSE 0]
    /\ retired = 0
    /\ rows \in {<<>>} \cup {<<[name |-> n, on |-> TRUE]>> : n \in Names}
    /\ tags = {} /\ asked = {}
    /\ req = [r \in Requests |-> Idle] /\ excused = {}

Go(r, what) == req' = [req EXCEPT ![r] = what]
Answer(r) == Go(r, Idle)

\* Another request is in the middle of an operation on the same data.
Busy(r, ops) == \E q \in Requests \ {r} : req[q].op \in ops
Excuse(area, cond) == excused' = IF cond THEN excused \cup {area} ELSE excused

------------------------------------------------------------------------------
(* Barbers and branches *)

\* CountBarbersByShop leaves out those who are not active, CountShopsInGroup nobody.
Counted(res) == inUse[res]

\* createBarberHandler and createShopHandler count what there is.
Count(r, res) ==
    /\ req[r] = Idle
    /\ Go(r, [op |-> "make", step |-> "gate", res |-> res, seen |-> Counted(res)])
    /\ UNCHANGED <<staffing, rows, labels, excused>>

\* Mutant: the one that is to be added is not counted.
Allowed_OneMore(res, n) == Limit[plan][res] < 0 \/ n <= Limit[plan][res]

\* CheckPlanLimit, with the plan as it is by now.
Allowed(res, n) == Limit[plan][res] < 0 \/ n + 1 <= Limit[plan][res]

Gate(r) ==
    /\ req[r].op = "make" /\ req[r].step = "gate"
    /\ IF Allowed(req[r].res, req[r].seen) THEN Go(r, [req[r] EXCEPT !.step = "insert"]) ELSE Answer(r)
    /\ UNCHANGED <<staffing, rows, labels, excused>>

\* What the bound counts.
Made(res) == inUse[res] + IF res = "barbers" THEN retired ELSE 0

\* CreateBarber, which refuses a name any shop has, and CreateSubsidiaryShop.
Make(r) ==
    LET res == req[r].res IN
    /\ req[r].op = "make" /\ req[r].step = "insert"
    /\ \/ Made(res) < MaxMade /\ inUse' = [inUse EXCEPT ![res] = @ + 1]
       \/ res = "barbers" /\ UNCHANGED inUse
    /\ Answer(r)
    /\ UNCHANGED <<plan, retired, rows, labels, excused>>

\* Mutant: a barber who was deleted before is counted out again.
Retire_Twice ==
    /\ inUse' = [inUse EXCEPT !["barbers"] = @ - 1] /\ retired' = retired + 1
    /\ UNCHANGED <<plan, rows, labels, req, excused>>

\* SoftDeleteBarber of a barber without bookings.
Retire ==
    /\ inUse["barbers"] > 0
    /\ inUse' = [inUse EXCEPT !["barbers"] = @ - 1] /\ retired' = retired + 1
    /\ UNCHANGED <<plan, rows, labels, req, excused>>

\* ActivateBarber passes no gate.
Activate ==
    /\ retired > 0
    /\ inUse' = [inUse EXCEPT !["barbers"] = @ + 1] /\ retired' = retired - 1
    /\ excused' = excused \cup {"barbers"}
    /\ UNCHANGED <<plan, rows, labels, req>>

\* Nor does a plan that is too small for what there is.
ChangePlan(p) ==
    /\ p # plan /\ plan' = p
    /\ excused' = excused \cup Resources
    /\ UNCHANGED <<inUse, retired, rows, labels, req>>

------------------------------------------------------------------------------
(* Services *)

Taken(n) == \E i \in DOMAIN rows : rows[i].name = n
TakenByOther(i, n) == \E j \in DOMAIN rows \ {i} : rows[j].name = n

ServiceOps == {"service", "import"}

\* CreateService up to its look at the names.
CheckNew(r, n) ==
    /\ req[r] = Idle /\ ~Taken(n)
    /\ Go(r, [op |-> "service", row |-> 0, name |-> n])
    /\ Excuse("services", Busy(r, ServiceOps))
    /\ UNCHANGED <<staffing, rows, labels>>

\* Mutant: a service may get the name another one has.
CheckRename_Unchecked(r, i, n) ==
    /\ req[r] = Idle
    /\ Go(r, [op |-> "service", row |-> i, name |-> n])
    /\ Excuse("services", Busy(r, ServiceOps))
    /\ UNCHANGED <<staffing, rows, labels>>

\* UpdateService up to its look at the names.
CheckRename(r, i, n) ==
    /\ req[r] = Idle /\ ~TakenByOther(i, n)
    /\ Go(r, [op |-> "service", row |-> i, name |-> n])
    /\ Excuse("services", Busy(r, ServiceOps))
    /\ UNCHANGED <<staffing, rows, labels>>

Add(n) == Len(rows) < MaxRows /\ rows' = Append(rows, [name |-> n, on |-> TRUE])

\* Mutant: the row is written back whole, as it was when it was on sale.
WriteService_Whole(r) ==
    LET i == req[r].row IN
    /\ req[r].op = "service"
    /\ IF i = 0 THEN Add(req[r].name) ELSE rows' = [rows EXCEPT ![i] = [name |-> req[r].name, on |-> TRUE]]
    /\ Answer(r)
    /\ UNCHANGED <<staffing, labels, excused>>

\* Their write: the table has no unique index on the name.
WriteService(r) ==
    LET i == req[r].row IN
    /\ req[r].op = "service"
    /\ IF i = 0 THEN Add(req[r].name) ELSE rows' = [rows EXCEPT ![i].name = req[r].name]
    /\ Answer(r)
    /\ UNCHANGED <<staffing, labels, excused>>

\* DeactivateService and ActivateService write what they are asked for, whatever they read.
Switch(i, on) ==
    /\ rows[i].on # on
    /\ rows' = [rows EXCEPT ![i].on = on]
    /\ excused' = IF \E q \in Requests : req[q].op = "import" THEN excused \cup {"services"} ELSE excused
    /\ UNCHANGED <<staffing, labels, req>>

On == {i \in DOMAIN rows : rows[i].on}

\* Mutant: replacing keeps the services whose names are on the list.
ToRetire_Unlisted(replace, list) == IF replace THEN {i \in On : rows[i].name \notin list} ELSE {}

ToRetire(replace, list) == IF replace THEN On ELSE {}

\* importServicesHandler reads what it is to take off sale.
StartImport(r, replace, list) ==
    /\ req[r] = Idle
    /\ Go(r, [op |-> "import", step |-> "check", replace |-> replace,
              list |-> list, retire |-> ToRetire(replace, list), todo |-> list, new |-> {}])
    /\ Excuse("services", Busy(r, ServiceOps))
    /\ UNCHANGED <<staffing, rows, labels>>

\* One DeactivateService of it.
ImportRetire(r, i) ==
    /\ req[r].op = "import" /\ i \in req[r].retire
    /\ rows' = [rows EXCEPT ![i].on = FALSE]
    /\ Go(r, [req[r] EXCEPT !.retire = @ \ {i}])
    /\ UNCHANGED <<staffing, labels, excused>>

\* Then every item, whose name is the step when it is to be inserted; one whose name exists, on sale or not, is skipped.
ImportCheck(r, n) ==
    /\ req[r].op = "import" /\ req[r].step = "check" /\ req[r].retire = {} /\ n \in req[r].todo
    /\ Go(r, [req[r] EXCEPT !.todo = @ \ {n}, !.step = IF Taken(n) THEN "check" ELSE n])
    /\ UNCHANGED <<staffing, rows, labels, excused>>

ImportInsert(r) ==
    /\ req[r].op = "import" /\ req[r].step \in Names
    /\ Add(req[r].step)
    /\ Go(r, [req[r] EXCEPT !.step = "check", !.new = @ \cup {Len(rows) + 1}])
    /\ UNCHANGED <<staffing, labels, excused>>

ImportOver(r) ==
    req[r].op = "import" /\ req[r].step = "check" /\ req[r].retire = {} /\ req[r].todo = {}

ImportAnswer(r) ==
    /\ ImportOver(r) /\ Answer(r)
    /\ UNCHANGED <<staffing, rows, labels, excused>>

------------------------------------------------------------------------------
(* Tags *)

\* Mutant: what is written is the tag that was asked for.
Retagged_Only(add, t) == IF add THEN {t} ELSE tags \ {t}

Retagged(add, t) == IF add THEN tags \cup {t} ELSE tags \ {t}

\* AddCustomerTag and RemoveCustomerTag read the tags.
ReadTags(r, add, t) ==
    /\ req[r] = Idle /\ (t \in tags) # add
    /\ Go(r, [op |-> "tag", add |-> add, tag |-> t, value |-> Retagged(add, t)])
    /\ Excuse("tags", Busy(r, {"tag"}))
    /\ UNCHANGED <<staffing, rows, labels>>

\* They write the whole set.
WriteTags(r) ==
    /\ req[r].op = "tag"
    /\ tags' = req[r].value
    /\ asked' = IF req[r].add THEN asked \cup {req[r].tag} ELSE asked \ {req[r].tag}
    /\ Answer(r)
    /\ UNCHANGED <<staffing, rows, excused>>

\* applyLateCancelPenalty at the threshold, whose transaction has the row.
Blacklist ==
    /\ tags' = tags \cup {"BLACKLIST"} /\ asked' = asked \cup {"BLACKLIST"}
    /\ excused' = IF \E q \in Requests : req[q].op = "tag" THEN excused \cup {"tags"} ELSE excused
    /\ UNCHANGED <<staffing, rows, req>>

------------------------------------------------------------------------------
Staffing(r) == (\E res \in Resources : Count(r, res)) \/ Gate(r) \/ Make(r)

Catalogue(r) ==
    \/ \E n \in Names : CheckNew(r, n) \/ ImportCheck(r, n)
    \/ \E i \in DOMAIN rows, n \in Names : CheckRename(r, i, n)
    \/ WriteService(r)
    \/ \E replace \in BOOLEAN, list \in SUBSET Names \ {{}} : StartImport(r, replace, list)
    \/ \E i \in DOMAIN rows : ImportRetire(r, i)
    \/ ImportInsert(r) \/ ImportAnswer(r)

Tagging(r) == (\E add \in BOOLEAN, t \in Tags : ReadTags(r, add, t)) \/ WriteTags(r)

Next ==
    \/ \E r \in Requests : Staffing(r) \/ Catalogue(r) \/ Tagging(r)
    \/ Retire \/ Activate \/ \E p \in Plans : ChangePlan(p)
    \/ \E i \in DOMAIN rows, on \in BOOLEAN : Switch(i, on)
    \/ Blacklist

Spec == Init /\ [][Next]_vars

------------------------------------------------------------------------------
(* Properties *)

\* The limit of the plan may be overrun only by requests that counted at the same time:
\* one less than there are at once.  Reactivation and a change of the plan go around it.
WithinPlan ==
    \A res \in Resources \ excused :
        Limit[plan][res] >= 0 => inUse[res] < Limit[plan][res] + Cardinality(Requests)

\* Two services of a shop have the same name only if two requests looked at the names at
\* the same time (ErrServiceNameTaken; the table does not say so).
NamesDistinct ==
    "services" \notin excused => \A i, j \in DOMAIN rows : rows[i].name = rows[j].name => i = j

\* When an import that replaces is over and nothing came between, all that is on sale is
\* what it brought.
OnlyImportedOnSale ==
    \A r \in Requests :
        ImportOver(r) /\ req[r].replace /\ "services" \notin excused => On = req[r].new

\* A service that was taken off sale comes back only by its activation, whatever requests
\* that read it before write after.
BackOnlyBySwitch == \A i \in DOMAIN rows : ~rows[i].on /\ rows'[i].on => Switch(i, TRUE)

OffSaleUntilActivated == [][BackOnlyBySwitch]_vars

\* The tags of a customer are what the requests asked for, in the order they wrote,
\* unless one came between the read and the write of another.
TagsAsAsked == "tags" \notin excused => tags = asked

\* What the comment of importServicesHandler promises of an import that replaces: the
\* list is the catalogue.
ListIsOnSale ==
    \A r \in Requests :
        ImportOver(r) /\ req[r].replace /\ "services" \notin excused
            => \A n \in req[r].list : \E i \in On : rows[i].name = n

\* What the tag is for: who was blacklisted and not pardoned is refused.
BlacklistSticks == "BLACKLIST" \in asked => "BLACKLIST" \in tags
==============================================================================
