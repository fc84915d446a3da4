----------------------------- MODULE BackOffice -----------------------------
(***************************************************************************)
(* The back office of a shop: its members and their sessions (auth/jwt.go, *)
(* api/members.go), what each role may do (storage/permissions.go,         *)
(* auth/authz.go), and the subscription that pays for all of it            *)
(* (api/api.go, api/admin_platform.go, storage/plan_gate.go).              *)
(*                                                                         *)
(* Every request goes through the same chain: the session, the cached      *)
(* verdict on the plan, the permission, then its handler, whose checks and *)
(* writes are separate statements.  Time is counted in units of which the  *)
(* cache lasts TTL; a read of the database and what is made of it happen   *)
(* within one unit.                                                        *)
(***************************************************************************)
EXTENDS Naturals, FiniteSets

CONSTANTS
    Admins,         \* accounts of the shop, made or not
    FirstRole,      \* the role of each account at the start; "none" when there is no account
    Requests,       \* requests in progress at once
    Routes,         \* what the requests of this instance ask for
    Plans,          \* the plans sold
    TTL,            \* planActiveCacheTTL
    Grace,          \* PlanGracePeriod
    Month,          \* how long a renewal lasts
    MaxTime,        \* bound: time
    MaxSubs,        \* bound: subscriptions ever opened, the first among them
    NoAdmin

Roles == {"owner", "staff", "platform_admin"}
ManagedRoles == {"owner", "staff"}
MemberRoutes == {"role", "disable", "create"}
PlanRoutes == {"renew", "setplan"}

ASSUME BackOfficeAssumption ==
    /\ FirstRole \in [Admins -> Roles \cup {"none"}]
    /\ \E a \in Admins : FirstRole[a] = "owner"
    /\ Routes \subseteq MemberRoutes \cup PlanRoutes
    /\ TTL \in Nat \ {0} /\ Grace \in Nat /\ Month \in Nat \ {0}
    /\ MaxTime \in Nat /\ MaxSubs \in Nat \ {0} /\ NoAdmin \notin Admins

VARIABLES
    role, disabled,     \* shop_admins
    perms,              \* role_permissions
    tokens,             \* the sessions that have not expired: who, and the role signed into it
    subs,               \* subscriptions that are not cancelled, by number
    opened,             \* how many there ever were
    paidPlan,           \* shops.plan
    now,
    cache,              \* planActiveCache of the shop
    req,                \* the requests
    revoked,            \* permissions an operator took away and has not given back
    raced               \* what two requests, or a fault, got across: "members", "renew",
                        \* and "gate", a verdict that was wrong when it was kept

members == <<role, disabled>>
access  == <<perms, tokens, revoked>>
billing == <<subs, opened, paidPlan>>
vars    == <<members, access, billing, now, cache, req, raced>>

Permissions == {"members", "view"}

\* The part of the default matrix that these routes ask about.
DefaultPerms == [ro \in Roles |-> IF ro = "staff" THEN {"view"} ELSE Permissions]

NoCache == [kept |-> FALSE, frozen |-> FALSE, at |-> 0]
Idle == [step |-> "idle", by |-> NoAdmin, claim |-> "none", route |-> "none",
         target |-> NoAdmin, to |-> "none", frozen |-> FALSE, plan |-> "none"]

Steps == {"idle", "gate", "store", "perm", "work", "write", "create", "shop", "clear"}

TypeOK ==
    /\ role \in [Admins -> Roles \cup {"none"}] /\ disabled \subseteq Admins
    /\ perms \in [Roles -> SUBSET Permissions]
    /\ tokens \subseteq [who : Admins, role : Roles]
    /\ \A t \in tokens : role[t.who] # "none"
    /\ \A s \in subs : s.id \in 1..opened /\ s.plan \in Plans /\ s.exp \in Nat
    /\ opened \in 0..MaxSubs /\ paidPlan \in Plans /\ now \in 0..MaxTime
    /\ cache \in [kept : BOOLEAN, frozen : BOOLEAN, at : 0..MaxTime] /\ cache.at <= now
    /\ \A r \in Requests : req[r].step \in Steps /\ (req[r].step = "idle") = (req[r] = Idle)
    /\ revoked \subseteq Roles \X Permissions
    /\ raced \subseteq {"members", "gate", "renew"}

Init ==
    /\ role = FirstRole /\ disabled = {}
    /\ perms = DefaultPerms /\ tokens = {} /\ revoked = {}
    /\ paidPlan \in Plans
    /\ subs = {[id |-> 1, plan |-> paidPlan, exp |-> 0]} /\ opened = 1
    /\ now = 0 /\ cache = NoCache
    /\ req = [r \in Requests |-> Idle]
    /\ raced = {}

------------------------------------------------------------------------------
(* Sessions *)

\* Mutant: the session carries whatever role the table has, "none" among them.
Login_Anyone(a) ==
    /\ tokens' = tokens \cup {[who |-> a, role |-> role[a]]}
    /\ UNCHANGED <<members, perms, revoked, billing, now, cache, req, raced>>

\* loginHandler.
Login(a) ==
    /\ role[a] # "none" /\ a \notin disabled
    /\ tokens' = tokens \cup {[who |-> a, role |-> role[a]]}
    /\ UNCHANGED <<members, perms, revoked, billing, now, cache, req, raced>>

\* Seven days later.
Expire(t) ==
    /\ tokens' = tokens \ {t}
    /\ UNCHANGED <<members, perms, revoked, billing, now, cache, req, raced>>

------------------------------------------------------------------------------
(* What the subscription says *)

LastExpiry == CHOOSE e \in {s.exp : s \in subs} : \A s \in subs : s.exp <= e

\* IsPlanExpired at time t: a shop without an open subscription never expires.
Frozen(t) == subs # {} /\ LastExpiry + Grace < t
Paid == \E s \in subs : s.exp > now

\* Mutant: a verdict is kept until somebody clears it.
Fresh_Forever == cache.kept

Fresh == cache.kept /\ now - cache.at < TTL

------------------------------------------------------------------------------
(* The chain in front of every handler *)

Step(r, s) == req' = [req EXCEPT ![r].step = s]
Answer(r) == req' = [req EXCEPT ![r] = Idle]

\* authChain and RequirePlanActive, up to the lookup of the cache.
Start(r, t, route, target, to, plan) ==
    LET at(s) == [step |-> s, by |-> t.who, claim |-> t.role, route |-> route,
                  target |-> target, to |-> to, frozen |-> FALSE, plan |-> plan]
    IN /\ req[r] = Idle
       /\ \/ t.role = "platform_admin" /\ req' = [req EXCEPT ![r] = at("perm")]
          \/ t.role # "platform_admin" /\ Fresh /\ ~cache.frozen /\ req' = [req EXCEPT ![r] = at("perm")]
          \/ t.role # "platform_admin" /\ ~Fresh /\ req' = [req EXCEPT ![r] = at("gate")]
       /\ UNCHANGED <<members, access, billing, now, cache, raced>>

\* getPlanActiveCached asks the database; an error reads like a shop that never expires.
ReadPlan(r) ==
    /\ req[r].step = "gate"
    /\ \E f \in {Frozen(now), FALSE} :
          req' = [req EXCEPT ![r].step = "store", ![r].frozen = f]
    /\ UNCHANGED <<members, access, billing, now, cache, raced>>

\* It keeps the verdict, and the request goes on or is refused.
StorePlan(r) ==
    /\ req[r].step = "store"
    /\ cache' = [kept |-> TRUE, frozen |-> req[r].frozen, at |-> now]
    /\ IF req[r].frozen THEN Answer(r) ELSE Step(r, "perm")
    /\ raced' = IF req[r].frozen # Frozen(now) THEN raced \cup {"gate"} ELSE raced
    /\ UNCHANGED <<members, access, billing, now>>

\* AdminHasPermission: the account as it is now, not as the session has it.
HasPermission(a, p) == a \notin disabled /\ role[a] # "none" /\ p \in perms[role[a]]

\* RequirePerm on the routes of members, RequireRole on those of the plan.
Authorize(r) ==
    /\ req[r].step = "perm"
    /\ \/ /\ \/ req[r].claim = "platform_admin"
             \/ req[r].route \in MemberRoutes /\ HasPermission(req[r].by, "members")
          /\ Step(r, "work")
       \/ /\ req[r].claim # "platform_admin"
          /\ req[r].route \in MemberRoutes => ~HasPermission(req[r].by, "members")
          /\ Answer(r)
    /\ UNCHANGED <<members, access, billing, now, cache, raced>>

------------------------------------------------------------------------------
(* Members *)

\* Mutant: a disabled owner counts.
OtherOwners_AnyStatus(a) == {b \in Admins \ {a} : role[b] = "owner"}

OtherOwners(a) == {b \in Admins \ (disabled \cup {a}) : role[b] = "owner"}

\* The checks of changeMemberRoleHandler and disableMemberHandler.
CheckMember(r) ==
    LET a == req[r].target
        loses == role[a] = "owner" /\ (req[r].route = "disable" \/ req[r].to = "staff")
        allowed == /\ a # req[r].by /\ role[a] # "none"
                   /\ req[r].route = "disable" => a \notin disabled
                   /\ loses => OtherOwners(a) # {}
    IN /\ req[r].step = "work" /\ req[r].route \in {"role", "disable"}
       /\ IF allowed THEN Step(r, "write") ELSE Answer(r)
       /\ UNCHANGED <<members, access, billing, now, cache, raced>>

\* Their update.
WriteMember(r) ==
    LET a == req[r].target IN
    /\ req[r].step = "write"
    /\ IF req[r].route = "role"
       THEN role' = [role EXCEPT ![a] = req[r].to] /\ UNCHANGED disabled
       ELSE disabled' = disabled \cup {a} /\ UNCHANGED role
    /\ raced' = IF \E q \in Requests \ {r} : req[q].step = "write"
                THEN raced \cup {"members"} ELSE raced
    /\ Answer(r)
    /\ UNCHANGED <<access, billing, now, cache>>

\* createMemberHandler: the unique index on the username decides.
CreateMember(r) ==
    LET a == req[r].target IN
    /\ req[r].step = "work" /\ req[r].route = "create"
    /\ IF role[a] = "none" THEN role' = [role EXCEPT ![a] = req[r].to] ELSE UNCHANGED role
    /\ Answer(r)
    /\ UNCHANGED <<disabled, access, billing, now, cache, raced>>

------------------------------------------------------------------------------
(* The subscription *)

Sub(plan) == [id |-> opened + 1, plan |-> plan, exp |-> now + Month]

\* Between two statements of a renewal.
Renewing(r) == req[r].step \in {"create", "shop"}
Disturbed(r) == IF \E q \in Requests \ {r} : Renewing(q) THEN raced \cup {"renew"} ELSE raced

\* renewSubscriptionHandler, whose first and third statements may fail unnoticed.
CancelOld(r) ==
    /\ req[r].step = "work" /\ req[r].route = "renew" /\ opened < MaxSubs
    /\ \/ subs' = {} /\ raced' = Disturbed(r)
       \/ subs' = subs /\ raced' = raced \cup {"renew"}
    /\ Step(r, "create")
    /\ UNCHANGED <<members, access, opened, paidPlan, now, cache>>

OpenNew(r) ==
    /\ req[r].step = "create"
    /\ \/ /\ opened < MaxSubs
          /\ subs' = subs \cup {Sub(req[r].plan)} /\ opened' = opened + 1
          /\ Step(r, "shop") /\ raced' = Disturbed(r)
       \/ /\ Answer(r) /\ raced' = raced \cup {"renew"}
          /\ UNCHANGED <<subs, opened>>
    /\ UNCHANGED <<members, access, paidPlan, now, cache>>

UpdateShop(r) ==
    /\ req[r].step = "shop"
    /\ \/ paidPlan' = req[r].plan /\ raced' = Disturbed(r)
       \/ UNCHANGED paidPlan /\ raced' = raced \cup {"renew"}
    /\ Step(r, "clear")
    /\ UNCHANGED <<members, access, subs, opened, now, cache>>

\* Mutant: the plan of the shop is left to the next renewal.
Replaced_OldPlan(plan) ==
    /\ subs' = {Sub(plan)} /\ opened' = opened + 1
    /\ UNCHANGED paidPlan

Replaced(plan) ==
    /\ subs' = {Sub(plan)} /\ opened' = opened + 1
    /\ paidPlan' = plan

\* platformSetShopPlanHandler: the same in a transaction, which may fail.
SetPlan(r) ==
    /\ req[r].step = "work" /\ req[r].route = "setplan" /\ opened < MaxSubs
    /\ \/ Replaced(req[r].plan) /\ Step(r, "clear") /\ raced' = Disturbed(r)
       \/ Answer(r) /\ UNCHANGED <<billing, raced>>
    /\ UNCHANGED <<members, access, now, cache>>

\* Mutant: nobody clears the verdict of the cache.
Cleared_Not == cache

Cleared == NoCache

\* InvalidatePlanActiveCache, and the answer.
ClearCache(r) ==
    /\ req[r].step = "clear"
    /\ cache' = Cleared
    /\ Answer(r)
    /\ UNCHANGED <<members, access, billing, now, raced>>

------------------------------------------------------------------------------
(* The operator and the process *)

\* admin-tool perms set, SetRolePermissions.
SetPermissions(ro, ps) ==
    /\ perms' = [perms EXCEPT ![ro] = ps]
    /\ revoked' = (revoked \ ({ro} \X ps)) \cup ({ro} \X (perms[ro] \ ps))
    /\ UNCHANGED <<members, tokens, billing, now, cache, req, raced>>

\* The process dies and starts again: ReconcileRolePermissions.
Restart ==
    /\ perms' = [ro \in Roles |-> perms[ro] \cup DefaultPerms[ro]]
    /\ cache' = NoCache
    /\ req' = [r \in Requests |-> Idle]
    /\ raced' = IF \E r \in Requests : Renewing(r) THEN raced \cup {"renew"} ELSE raced
    /\ UNCHANGED <<members, tokens, revoked, billing, now>>

Tick ==
    /\ now < MaxTime /\ \A r \in Requests : req[r].step # "store"
    /\ now' = now + 1
    /\ UNCHANGED <<members, access, billing, cache, req, raced>>

------------------------------------------------------------------------------
Request(r) ==
    \E t \in tokens, route \in Routes :
       \/ /\ route \in MemberRoutes \ {"disable"}
          /\ \E a \in Admins, to \in ManagedRoles : Start(r, t, route, a, to, "none")
       \/ /\ route = "disable"
          /\ \E a \in Admins : Start(r, t, route, a, "none", "none")
       \/ /\ route \in PlanRoutes
          /\ \E p \in Plans : Start(r, t, route, NoAdmin, "none", p)

Serve(r) ==
    \/ ReadPlan(r) \/ StorePlan(r) \/ Authorize(r)
    \/ CheckMember(r) \/ WriteMember(r) \/ CreateMember(r)
    \/ CancelOld(r) \/ OpenNew(r) \/ UpdateShop(r) \/ SetPlan(r) \/ ClearCache(r)

Next ==
    \/ \E a \in Admins : Login(a)
    \/ \E t \in tokens : Expire(t)
    \/ \E r \in Requests : Request(r) \/ Serve(r)
    \/ \E ro \in ManagedRoles, ps \in SUBSET Permissions : SetPermissions(ro, ps)
    \/ Restart \/ Tick

Spec == Init /\ [][Next]_vars

------------------------------------------------------------------------------
(* Properties *)

\* The shop never loses its last owner who can sign in, as the guards of
\* changeMemberRoleHandler and disableMemberHandler mean it; two removals that overlap
\* each count the other's owner.
OwnerRemains ==
    "members" \notin raced => \E a \in Admins \ disabled : role[a] = "owner"

\* No verdict "expired" outlives the renewal that made it wrong: RequirePlanActive does
\* not refuse a shop that has paid, unless its answer was read before the payment and
\* kept after it.
PaidIsServed ==
    Fresh /\ cache.frozen /\ "gate" \notin raced
        => ~Paid \/ \E r \in Requests : req[r].step \in {"shop", "clear"}

\* As long as every verdict that was kept was true when it was kept, the chain lets
\* nobody of a shop past whose grace ended more than a TTL ago.
LetPast ==
    \A r \in Requests :
       /\ req'[r].step = "perm" /\ req[r].step # "perm"
       /\ req'[r].claim # "platform_admin" /\ "gate" \notin raced'
     => now < TTL \/ ~Frozen(now - TTL)

ExpiredIsRefused == [][LetPast]_vars

\* The shop has the plan of its only open subscription, as platformSetShopPlanHandler
\* keeps it in one transaction, and whatever a renewal that is not interrupted does.
PlanIsTheOnePaid ==
    "renew" \notin raced /\ (\A r \in Requests : ~Renewing(r))
        => \E s \in subs : subs = {s} /\ s.plan = paidPlan

\* The shop has the plan of its open subscription, and is served while that is paid.
PlanIsServed == PlanIsTheOnePaid /\ PaidIsServed

\* What an operator took from a role stays taken, as the comment of
\* ReconcileRolePermissions says of a permission removed from staff.
RevocationsLast == \A x \in revoked : x[2] \notin perms[x[1]]
==============================================================================
