------------------------------- MODULE Startup -------------------------------
(***************************************************************************)
(* What a starting process does to the database (storage.InitDB and the    *)
(* steps it calls) and the tool that repeats it by hand (cmd/migrate).     *)
(*                                                                         *)
(* A start is a list of steps, each of one or more statements that commit  *)
(* by themselves; only the slot keys are filled in a transaction.  A step  *)
(* that fails is logged and the start goes on, except for the slot keys;   *)
(* a step of the tool that fails ends the tool.  A process may die between *)
(* two steps.  The tool is meant to be run without stopping the server, so *)
(* that appointments change while it works.                                *)
(*                                                                         *)
(* Rows with a unique key (shop, account, employee, permission) are looked *)
(* up and inserted in one step: who loses such a race gets an error, and a *)
(* failure of the step is possible anyway.  Services have no such key.     *)
(***************************************************************************)
EXTENDS Naturals, Sequences, FiniteSets

CONSTANTS
    Procs, Tool,        \* processes; Tool is the one that is cmd/migrate
    Shops, Default,     \* shops; Default is the one of DEFAULT_SHOP_ID
    Defaults,           \* names of the default services
    Barbers,            \* the default employees
    Admin, Platform, Others, \* account names: the two of the seeds, and more
    Perms, PlatformPerms,    \* default (role, permission) pairs; those the tool lists
    Appts, Slots, NameOf,    \* appointments, their slots, the customer name on each
    MaxFaults, MaxEdits, MaxStarts  \* bounds: failed steps and deaths, changes while up, starts

Accounts == {Admin, Platform} \cup Others
Names == {NameOf[a] : a \in Appts}

\* Assumed by the modules that instantiate this one.
StartupAssumption ==
    /\ IsFiniteSet(Procs) /\ Tool \in Procs /\ Default \in Shops /\ PlatformPerms \subseteq Perms
    /\ Slots # {} /\ Admin # Platform /\ {MaxFaults, MaxEdits, MaxStarts} \subseteq Nat

VARIABLES
    shops, service,     \* shop rows; how often each service is in the catalogue of a shop
    barber,             \* employees: "none", "nowhere" (no shop) or "placed"
    role,               \* role of each account, "none" without one and "" in an old row
    perms,              \* role_permissions
    appt,               \* appointments: status, slot, active_slot_key, late?, customer_id set?
    cust, tally,        \* customers by name; their counters
    todo, work,         \* of each process: the steps ahead and what the current one has read
    state,              \* of each process: "off", "starting", "up" or how the tool ended
    full, clean, again, \* history: did this start meet no fault and no edit?  Has one ended so, with
                        \* no edit since?  Which have begun after such a one?
    raced, overlapped,  \* history: appointments changed under a filling; catalogues seeded at once?
    miscounted,         \* history: shops whose services were counted in vain
    faults, edits, starts \* bounds

seeds == <<shops, service, barber, role, perms>>
booked == <<appt, cust, tally>>
history == <<full, clean, again, raced, overlapped, miscounted>>
vars == <<seeds, booked, todo, work, state, history, faults, edits, starts>>

Idle == [rows |-> {}, shops |-> {}, shop |-> Default, left |-> {}, names |-> {}, on |-> FALSE]
Blank == [n \in Names |-> [visits |-> 0, late |-> 0]]
None == "none"
Roles == {None, "", "owner", "staff", "platform_admin"}

Alive(p) == state[p] \in {"starting", "up"}
Now(p) == Head(todo[p])
At(p, step) == state[p] = "starting" /\ todo[p] # <<>> /\ Now(p).do = step
Database == <<seeds, booked>>

TypeOK ==
    /\ shops \subseteq Shops /\ perms \subseteq Perms /\ role \in [Accounts -> Roles]
    /\ service \in [Shops -> [Defaults -> Nat]]
    /\ barber \in [Barbers -> {None, "nowhere", "placed"}]
    /\ \A a \in Appts : appt[a].slot \in Slots /\ appt[a].key \in Slots \cup {None}
    /\ cust \in [Names -> {None, "wechat", "blank"}]
    /\ \A p \in Procs : state[p] \in {"off", "starting", "up", "done", "failed"}
    /\ \A p \in Procs : todo[p] # <<>> => state[p] = "starting"
    /\ raced \subseteq Appts /\ miscounted \subseteq Shops /\ faults \in 0..MaxFaults /\ starts \in 0..MaxStarts

------------------------------------------------------------------------------
(* The list of steps *)

Step(of, in, do) == [of |-> of, in |-> in, do |-> do]

\* SeedDefaultData
SeedSteps(of) == <<
    Step(of, "shop", "shop"), Step(of, "shop", "admin"), Step(of, "shop", "platform"),
    Step(of, "barbers", "barbers"), Step(of, "place", "place"), Step(of, "services", "services")>>

\* InitDB after AutoMigrate
InitSteps ==
    <<Step("init", "slots", "read"), Step("init", "slots", "key")>> \o SeedSteps("init") \o
    <<Step("init", "roles", "roles"), Step("init", "perms", "perms"), Step("init", "reconcile", "reconcile"),
      Step("init", "customers", "customers")>>

\* allSteps; the flag -only keeps some, -dry-run makes each print and return.
ToolParts == {"roles", "shopadmin", "roleperm", "platform", "customers"}
PartSteps(part) ==
    CASE part = "roles"     -> <<Step("tool", "roles", "roles")>>
      [] part = "shopadmin" -> SeedSteps("tool")
      [] part = "roleperm"  -> <<Step("tool", "perms", "perms"), Step("tool", "perms", "platformPerms")>>
      [] part = "platform"  -> <<Step("tool", "platform", "upgrade")>>
      [] part = "customers" -> <<Step("tool", "customers", "customers")>>

ToolSteps(only) ==
    LET Of(part) == IF part \in only THEN PartSteps(part) ELSE <<>> IN
    Of("roles") \o Of("shopadmin") \o Of("roleperm") \o Of("platform") \o Of("customers")

\* A function that returns leaves out what is left of it, which is in front.
OfNow(p) ==
    {i \in 1..Len(todo[p]) : \A k \in 1..i : todo[p][k].of = Now(p).of /\ todo[p][k].in = Now(p).in}
Return(p) == SubSeq(todo[p], Cardinality(OfNow(p)) + 1, Len(todo[p]))

GoTo(p, steps) ==
    /\ todo' = [todo EXCEPT ![p] = steps] /\ work' = [work EXCEPT ![p] = Idle]
    /\ state' = [state EXCEPT ![p] = IF steps # <<>> THEN @ ELSE IF p = Tool THEN "done" ELSE "up"]
    /\ clean' = (clean \/ (steps = <<>> /\ full[p]))
    /\ UNCHANGED <<full, again, raced, overlapped, miscounted, faults, edits, starts>>

Continue(p) == GoTo(p, Tail(todo[p]))
Quit(p) == GoTo(p, Return(p))

Busy(p, w) ==
    /\ work' = [work EXCEPT ![p] = w]
    /\ UNCHANGED <<todo, state, history, faults, edits, starts>>

------------------------------------------------------------------------------
(* BackfillAppointmentActiveSlotKeys *)

Active == {a \in Appts : appt[a].status = "active"}

\* The transaction reads the active rows.  Whether they are locked by the statement before it
\* is up to the engine; the code does not ask for it.
ReadActive(p) ==
    /\ At(p, "read")
    /\ todo' = [todo EXCEPT ![p] = Tail(@)]
    /\ work' = [work EXCEPT ![p].rows = {[id |-> a, slot |-> appt[a].slot] : a \in Active}]
    /\ UNCHANGED <<seeds, booked, state, history, faults, edits, starts>>

\* Mutant: rows of every status are given the key of their slot.
Keyed_AnyStatus(p) == [a \in Appts |-> IF appt[a].status = None THEN None ELSE appt[a].slot]

\* The keys after it: a row read as active gets the key of the slot read, any other row that is
\* not active loses its own.
Keyed(p) ==
    [a \in Appts |->
        IF \E r \in work[p].rows : r.id = a THEN (CHOOSE r \in work[p].rows : r.id = a).slot
        ELSE IF a \in Active THEN appt[a].key ELSE None]

\* idx_appointment_active_slot
Unique(key) == \A a, b \in Appts : a # b /\ key[a] # None => key[a] # key[b]

\* A conflict rolls back; the process does not start.
WriteKeys(p) ==
    /\ At(p, "key")
    /\ \/ /\ Unique(Keyed(p))
          /\ appt' = [a \in Appts |-> [appt[a] EXCEPT !.key = Keyed(p)[a]]]
          /\ Continue(p)
       \/ /\ ~Unique(Keyed(p))
          /\ todo' = [todo EXCEPT ![p] = <<>>] /\ work' = [work EXCEPT ![p] = Idle]
          /\ state' = [state EXCEPT ![p] = "failed"]
          /\ UNCHANGED <<appt, history, faults, edits, starts>>
    /\ UNCHANGED <<seeds, cust, tally>>

------------------------------------------------------------------------------
(* SeedDefaultData *)

\* seedShopFromEnv: the shop, the owner, the administrator of the platform.
SeedShop(p) ==
    /\ At(p, "shop") /\ shops' = shops \cup {Default}
    /\ Continue(p) /\ UNCHANGED <<service, barber, role, perms, booked>>

\* An account that is there ends the function.
SeedAdmin(p) ==
    /\ At(p, "admin")
    /\ \/ role[Admin] # None /\ UNCHANGED role /\ Quit(p)
       \/ role[Admin] = None /\ role' = [role EXCEPT ![Admin] = "owner"] /\ Continue(p)
    /\ UNCHANGED <<shops, service, barber, perms, booked>>

SeedPlatform(p) ==
    /\ At(p, "platform")
    /\ role' = [role EXCEPT ![Platform] = IF @ = None THEN "platform_admin" ELSE @]
    /\ Continue(p) /\ UNCHANGED <<shops, service, barber, perms, booked>>

SeedBarbers(p) ==
    /\ At(p, "barbers")
    /\ LET missing == {b \in Barbers : barber[b] = None} IN
       \/ missing = {} /\ UNCHANGED barber /\ Continue(p)
       \/ \E b \in missing : barber' = [barber EXCEPT ![b] = "placed"] /\ Busy(p, work[p])
    /\ UNCHANGED <<shops, service, role, perms, booked>>

EnsureBarberShopIDs(p) ==
    /\ At(p, "place")
    /\ barber' = [b \in Barbers |-> IF barber[b] = "nowhere" /\ shops # {} THEN "placed" ELSE barber[b]]
    /\ Continue(p) /\ UNCHANGED <<shops, service, role, perms, booked>>

\* seedDefaultServices: all shops are read, then each without a service gets the default ones.
ListShops(p) ==
    /\ At(p, "services") /\ ~work[p].on
    /\ Busy(p, [work[p] EXCEPT !.on = TRUE, !.shops = shops])
    /\ UNCHANGED <<seeds, booked>>

\* Mutant: the services a shop has are not counted.
ToSeed_Always(s) == Defaults

ToSeed(s) == IF \A n \in Defaults : service[s][n] = 0 THEN Defaults ELSE {}

CountServices(p) ==
    /\ At(p, "services") /\ work[p].on /\ work[p].left = {}
    /\ \/ /\ work[p].shops = {} /\ Continue(p)
       \/ \E s \in work[p].shops :
            Busy(p, [work[p] EXCEPT !.shops = @ \ {s}, !.shop = s, !.left = ToSeed(s)])
    /\ UNCHANGED <<seeds, booked>>

Seeding(s) == {p \in Procs : work[p].on /\ work[p].left # {} /\ work[p].shop = s}

SeedService(p) ==
    /\ At(p, "services") /\ work[p].left # {}
    /\ \E n \in work[p].left :
         /\ service' = [service EXCEPT ![work[p].shop][n] = @ + 1]
         /\ work' = [work EXCEPT ![p].left = @ \ {n}]
    /\ overlapped' = (overlapped \/ Seeding(work[p].shop) # {p})
    /\ UNCHANGED <<shops, barber, role, perms, booked, todo, state, full, clean, again, raced, miscounted>>
    /\ UNCHANGED <<faults, edits, starts>>

------------------------------------------------------------------------------
(* Roles and permissions *)

\* InitDB and stepShopAdminRoles: an account of before the column.
BackfillRoles(p) ==
    /\ At(p, "roles")
    /\ role' = [u \in Accounts |-> IF role[u] = "" THEN "owner" ELSE role[u]]
    /\ Continue(p) /\ UNCHANGED <<shops, service, barber, perms, booked>>

SeedDefaultRolePermissions(p) ==
    /\ At(p, "perms") /\ perms' = IF perms = {} THEN Perms ELSE perms
    /\ Continue(p) /\ UNCHANGED <<shops, service, barber, role, booked>>

ReconcileRolePermissions(p) ==
    /\ At(p, "reconcile") /\ perms' = perms \cup Perms
    /\ Continue(p) /\ UNCHANGED <<shops, service, barber, role, booked>>

\* stepRolePermissions
AddPlatformPerms(p) ==
    /\ At(p, "platformPerms") /\ perms' = perms \cup PlatformPerms
    /\ Continue(p) /\ UNCHANGED <<shops, service, barber, role, booked>>

\* stepPlatformAdmin: whoever has the name is made administrator of the platform.
StepPlatformAdmin(p) ==
    /\ At(p, "upgrade") /\ role' = [role EXCEPT ![Platform] = "platform_admin"]
    /\ Continue(p) /\ UNCHANGED <<shops, service, barber, perms, booked>>

------------------------------------------------------------------------------
(* BackfillMissingCustomers *)

Unlinked == {NameOf[a] : a \in {b \in Appts : appt[b].status # None /\ ~appt[b].linked}}

ListNames(p) ==
    /\ At(p, "customers") /\ ~work[p].on
    /\ IF Unlinked = {} THEN Continue(p)
       ELSE Busy(p, [work[p] EXCEPT !.on = TRUE, !.names = Unlinked])
    /\ UNCHANGED <<seeds, booked>>

\* wechat_open_id is unique and empty in every row made here: there can be one.
Insertable(n) == cust[n] = None => \A m \in Names : cust[m] # "blank"

WithCustomer(n) == [cust EXCEPT ![n] = IF @ = None /\ Insertable(n) THEN "blank" ELSE @]

LinkCustomer(p) ==
    /\ At(p, "customers") /\ work[p].on
    /\ \E n \in work[p].names :
         /\ Busy(p, [work[p] EXCEPT !.names = @ \ {n}])
         /\ cust' = WithCustomer(n)
         /\ appt' = [a \in Appts |-> IF NameOf[a] = n /\ appt[a].status # None
                                     THEN [appt[a] EXCEPT !.linked = @ \/ Insertable(n)] ELSE appt[a]]
    /\ UNCHANGED <<seeds, tally>>

Of(n, statuses) == Cardinality({a \in Appts : NameOf[a] = n /\ appt[a].linked /\ appt[a].status \in statuses})

\* Mutant: what the appointments show is added to the counters.
Recounted_Adds(n) == [visits |-> tally[n].visits + Of(n, {"active", "completed"}), late |-> tally[n].late + Of(n, {"cancelled"})]

\* Every appointment not cancelled is a visit, every cancellation a late one.
Recounted(n) == [visits |-> Of(n, {"active", "completed"}), late |-> Of(n, {"cancelled"})]

Recount(p) ==
    /\ At(p, "customers") /\ work[p].on /\ work[p].names = {}
    /\ tally' = [n \in Names |-> IF cust[n] # None THEN Recounted(n) ELSE tally[n]]
    /\ Continue(p) /\ UNCHANGED <<seeds, appt, cust>>

------------------------------------------------------------------------------
(* Faults *)

Fault == faults < MaxFaults /\ faults' = faults + 1

\* The steps of the tool end it; SeedDefaultData logs and returns nil, and so does the recount of
\* BackfillMissingCustomers.
Ends(p) ==
    \/ Now(p).in = "slots"
    \/ Now(p).of = "tool" /\ Now(p).in \in {"roles", "perms", "platform", "customers"} /\ ~work[p].on

\* A statement returns an error to the function it is in, which returns it; one about a shop or a
\* name of a list does not (below).
Fail(p) ==
    /\ state[p] = "starting" /\ Fault /\ full' = [full EXCEPT ![p] = FALSE]
    /\ work[p].on => At(p, "customers") /\ work[p].names = {}
    /\ LET steps == IF Ends(p) THEN <<>> ELSE Return(p) IN
       /\ todo' = [todo EXCEPT ![p] = steps] /\ work' = [work EXCEPT ![p] = Idle]
       /\ state' = [state EXCEPT ![p] = IF Ends(p) THEN "failed" ELSE IF steps # <<>> THEN @
                                        ELSE IF p = Tool THEN "done" ELSE "up"]
    /\ UNCHANGED <<seeds, booked, clean, again, raced, overlapped, miscounted, edits, starts>>

\* An insertion of a service is only logged, and the next is tried.
SkipService(p) ==
    /\ At(p, "services") /\ Fault /\ full' = [full EXCEPT ![p] = FALSE]
    /\ \E n \in work[p].left : work' = [work EXCEPT ![p].left = @ \ {n}]
    /\ UNCHANGED <<seeds, booked, todo, state, clean, again, raced, overlapped, miscounted, edits, starts>>

\* CountServices drops the error of its query and returns 0: the shop is seeded whatever it has.
MiscountServices(p) ==
    /\ At(p, "services") /\ work[p].on /\ work[p].left = {} /\ Fault /\ full' = [full EXCEPT ![p] = FALSE]
    /\ \E s \in work[p].shops :
         /\ work' = [work EXCEPT ![p] = [work[p] EXCEPT !.shops = @ \ {s}, !.shop = s, !.left = Defaults]]
         /\ miscounted' = miscounted \cup {s}
    /\ UNCHANGED <<seeds, booked, todo, state, clean, again, raced, overlapped, edits, starts>>

\* The transaction of a name, or the update of its appointments, is only logged.
SkipName(p) ==
    /\ At(p, "customers") /\ Fault /\ full' = [full EXCEPT ![p] = FALSE]
    /\ \E n \in work[p].names :
         /\ work' = [work EXCEPT ![p].names = @ \ {n}]
         /\ cust' \in {cust, WithCustomer(n)}
    /\ UNCHANGED <<seeds, appt, tally, todo, state, clean, again, raced, overlapped, miscounted, edits, starts>>

Crash(p) ==
    /\ Alive(p) /\ Fault
    /\ todo' = [todo EXCEPT ![p] = <<>>] /\ work' = [work EXCEPT ![p] = Idle]
    /\ state' = [state EXCEPT ![p] = "off"]
    /\ UNCHANGED <<seeds, booked, history, edits, starts>>

\* main of the server, and of the tool with its flags.
Start(p) ==
    /\ ~Alive(p) /\ starts < MaxStarts /\ starts' = starts + 1
    /\ state' = [state EXCEPT ![p] = "starting"] /\ full' = [full EXCEPT ![p] = TRUE]
    /\ again' = IF clean THEN again \cup {p} ELSE again \ {p}
    /\ \/ p # Tool /\ todo' = [todo EXCEPT ![p] = InitSteps]
       \/ p = Tool /\ \E only \in SUBSET ToolParts : todo' = [todo EXCEPT ![p] = InitSteps \o ToolSteps(only)]
    /\ UNCHANGED <<seeds, booked, work, clean, raced, overlapped, miscounted, faults, edits>>

------------------------------------------------------------------------------
(* Work while a server is up *)

Edit ==
    /\ \E p \in Procs : state[p] = "up"
    /\ edits < MaxEdits /\ edits' = edits + 1
    /\ full' = [p \in Procs |-> FALSE] /\ clean' = FALSE /\ again' = {}
    /\ UNCHANGED <<service, barber, todo, work, state, overlapped, miscounted, faults, starts>>

Filling == \E p \in Procs : At(p, "key")
Change(a, row) ==
    /\ appt' = [appt EXCEPT ![a] = row]
    /\ raced' = IF Filling THEN raced \cup {a} ELSE raced
    /\ UNCHANGED <<shops, role, perms>>

Free(slot) == \A a \in Appts : appt[a].key # slot

Book(a, slot) ==
    /\ Edit /\ appt[a].status = None /\ Free(slot)
    /\ Change(a, [status |-> "active", slot |-> slot, key |-> slot, late |-> FALSE, linked |-> TRUE])
    /\ cust' = [cust EXCEPT ![NameOf[a]] = IF @ = None THEN "wechat" ELSE @] /\ UNCHANGED tally

Cancel(a, late) ==
    /\ Edit /\ a \in Active
    /\ Change(a, [appt[a] EXCEPT !.status = "cancelled", !.key = None, !.late = late])
    /\ tally' = [tally EXCEPT ![NameOf[a]].late = IF late THEN @ + 1 ELSE @] /\ UNCHANGED cust

Reschedule(a, slot) ==
    /\ Edit /\ a \in Active /\ Free(slot)
    /\ Change(a, [appt[a] EXCEPT !.slot = slot, !.key = slot]) /\ UNCHANGED <<cust, tally>>

Complete(a) ==
    /\ Edit /\ a \in Active
    /\ Change(a, [appt[a] EXCEPT !.status = "completed", !.key = None])
    /\ tally' = [tally EXCEPT ![NameOf[a]].visits = @ + 1] /\ UNCHANGED cust

\* SetRolePermissions and the opening of a branch.
Revoke(q) == Edit /\ perms' = perms \ {q} /\ UNCHANGED <<shops, role, booked, raced>>
Branch(s) == Edit /\ s \notin shops /\ shops' = shops \cup {s} /\ UNCHANGED <<role, perms, booked, raced>>

------------------------------------------------------------------------------
Empty == [status |-> None, slot |-> CHOOSE s \in Slots : TRUE, key |-> None, late |-> FALSE, linked |-> FALSE]

\* An empty database.
Fresh ==
    /\ shops = {} /\ perms = {} /\ role = [u \in Accounts |-> None]
    /\ service = [s \in Shops |-> [n \in Defaults |-> 0]] /\ barber = [b \in Barbers |-> None]
    /\ appt = [a \in Appts |-> Empty] /\ cust = [n \in Names |-> None]

\* One of an older version: no roles, no permissions or some of them, no services, no keys and
\* no customers, and perhaps an account with the name of the administrator of the platform.
Old ==
    /\ shops = {Default} /\ perms \in SUBSET (Perms \ PlatformPerms)
    /\ \E r \in {None, ""} : role = [u \in Accounts |-> IF u = Platform THEN r ELSE ""]
    /\ service = [s \in Shops |-> [n \in Defaults |-> 0]] /\ barber = [b \in Barbers |-> "nowhere"]
    /\ appt \in [Appts -> {Empty} \cup [status : {"active", "cancelled"}, slot : Slots, key : {None},
                                        late : {FALSE}, linked : {FALSE}]]
    /\ cust = [n \in Names |-> None]

Init ==
    /\ Fresh \/ Old
    /\ tally = Blank
    /\ todo = [p \in Procs |-> <<>>] /\ work = [p \in Procs |-> Idle] /\ state = [p \in Procs |-> "off"]
    /\ full = [p \in Procs |-> FALSE] /\ clean = FALSE /\ again = {} /\ raced = {} /\ overlapped = FALSE
    /\ miscounted = {}
    /\ faults = 0 /\ edits = 0 /\ starts = 0

DoStep(p) ==
    \/ ReadActive(p) \/ WriteKeys(p) \/ SeedShop(p) \/ SeedAdmin(p) \/ SeedPlatform(p)
    \/ SeedBarbers(p) \/ EnsureBarberShopIDs(p) \/ ListShops(p) \/ CountServices(p) \/ SeedService(p)
    \/ BackfillRoles(p) \/ SeedDefaultRolePermissions(p) \/ ReconcileRolePermissions(p)
    \/ AddPlatformPerms(p) \/ StepPlatformAdmin(p)
    \/ ListNames(p) \/ LinkCustomer(p) \/ Recount(p)

Next ==
    \/ \E p \in Procs : DoStep(p) \/ Crash(p) \/ Start(p)
    \/ \E p \in Procs : Fail(p) \/ SkipService(p) \/ MiscountServices(p) \/ SkipName(p)
    \/ \E a \in Appts, s \in Slots : Book(a, s) \/ Reschedule(a, s)
    \/ \E a \in Appts : Complete(a) \/ \E late \in BOOLEAN : Cancel(a, late)
    \/ \E q \in Perms : Revoke(q)
    \/ \E s \in Shops : Branch(s)

Spec == Init /\ [][Next]_vars /\ \A p \in Procs : WF_vars(DoStep(p))

------------------------------------------------------------------------------
(* Safety *)

Up == \E p \in Procs : state[p] = "up"

\* While a server is up, an active appointment has the key of its slot and no other has one, so
\* that two active ones never share a slot (the invariant BackfillAppointmentActiveSlotKeys sets
\* up), unless the appointment was changed while another process was filling the keys.
KeysTellStatus ==
    Up => \A a \in Appts \ raced : appt[a].key = IF a \in Active THEN appt[a].slot ELSE None

\* The default services are in a catalogue once (seedDefaultServices), unless two processes seed
\* catalogues at the same time or the query that counts the services of this shop has failed.
CatalogueOnce == overlapped \/ \A s \in Shops \ miscounted, n \in Defaults : service[s][n] <= 1

\* Nothing but the catalogue of s.
OnlyCatalogue(s) ==
    /\ UNCHANGED <<shops, barber, role, perms, booked>>
    /\ \A x \in Shops \ {s} : service'[x] = service[x]

\* A start after one that met no fault, with no edit since that one began, changes nothing (the
\* header of cmd/migrate and of SeedDefaultData: running it again has no side effect), even when
\* its statements fail; but for the key of an appointment that was changed while it was filled,
\* which the start may put right, and the catalogue of a shop whose services were counted in vain.
StartedBefore ==
    \A p \in again : (state[p] = "starting" /\ Now(p).of = "init" /\ DoStep(p)) =>
        raced # {} \/ Database' = Database \/ \E s \in miscounted : OnlyCatalogue(s)

SecondStartChangesNothing == [][StartedBefore]_vars

------------------------------------------------------------------------------
(* What the documents say and the code does not do *)

\* cmd/migrate: with -dry-run, which leaves only the steps of InitDB, the database is not changed.
DryRunChangesNothing ==
    [][Alive(Tool) /\ todo'[Tool] # todo[Tool] => Database' = Database]_vars

\* No process that is up has a shop with a part of the default services.
CatalogueWhole ==
    Up => \A s \in shops : {n \in Defaults : service[s][n] > 0} \in {{}, Defaults}

\* A shop that has services is not seeded (seedDefaultServices), so no service is there twice.
SeededOnlyOnce == \A s \in Shops, n \in Defaults : service[s][n] <= 1

\* A server that has started without a fault has an administrator of the platform.
PlatformIsSeeded == \A p \in Procs : (state[p] = "up" /\ full[p]) => role[Platform] # None

\* The counter of late cancellations counts late cancellations.
LateMeansLate ==
    \A n \in Names : tally[n].late <= Cardinality({a \in Appts : NameOf[a] = n /\ appt[a].late})

\* Keys without the exception.
KeysAlwaysTellStatus == Up => \A a \in Appts : appt[a].key = IF a \in Active THEN appt[a].slot ELSE None
=============================================================================
